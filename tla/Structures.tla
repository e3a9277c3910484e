----------------------------- MODULE Structures -----------------------------
(***************************************************************************)
(* Structured types: their layout, their validation, and which type can    *)
(* stand for which (rdx_objectmanager.cpp).                                *)
(*                                                                         *)
(* When the types of a load have been read, HardenStructures gives each    *)
(* its layout, in rounds, a type after its parent and after the structures *)
(* it contains.  When everything has been read, ValidateStructures looks   *)
(* at what the verifier and the collector will rely on.  The verifier then *)
(* trusts the relations between types: an object of one type is used as    *)
(* another, its properties found at that type's offsets, its methods in    *)
(* the slots of that type's table.                                         *)
(*                                                                         *)
(* A program is a function from the names of types to their definitions,   *)
(* the built-in types among them.  A table of a type that is empty is      *)
(* null, as the compiler writes it.  Names of properties, the serializers  *)
(* of native types and default values are left out.                        *)
(***************************************************************************)
EXTENDS Integers, Sequences, FiniteSets, SequencesExt, TLC

CONSTANTS
  Programs,        \* types by name, the orders in which the structured ones
                   \* may come, and the arrays as they are made
  ReferencePart,   \* [size, alignment] of a reference to an object,
  InterfacePart,   \* of one to an interface,
  ImplementedPart, \* of what an object holds for an interface it implements,
  EnumerantPart,   \* and of an enumerant
  TailPadding,     \* whether the ABI puts members into the padding of a parent
  LargestUInt,
  MaxDepth,        \* RDX_MAX_RECURSION_DEPTH
  BuiltIn          \* [size, sizeInSubclass, alignment, base] of the built-in types

ASSUME TailPaddingAssumption == TailPadding \in BOOLEAN
ASSUME LargestAssumption == LargestUInt \in Nat /\ MaxDepth \in Nat \ {0}

VARIABLES
  program, order,    \* the types, and the structured ones as they come
  cursor, resolvedAny, deferredAny,
  laid,              \* the layouts: m_native of the types that have one
  phase              \* "harden", "validate", "loaded", "refused", "crashed"

vars == <<program, order, cursor, resolvedAny, deferredAny, laid, phase>>

Null == "null"
Object == "Core.Object"
Array == "Core.Array"
Method == "RDX.Method"
Integer == "Core.int"      \* RDX_ENUM_INTERNAL_TYPE
Varying == "RDX.Varying"

(* What the deserializer has checked when the types are laid out: a         *)
(* reference is to an object of the type it is declared with, and a flag   *)
(* is a flag.                                                              *)
StructuredIn(types) == {t \in DOMAIN types : types[t].kind = "structured"}

References(types) == DOMAIN types \cup {Null}

PropertiesOver(types) ==
  [type : References(types), isConstant : BOOLEAN, mustBeConstant : BOOLEAN]

ParametersOver(types) ==
  [type : References(types), isConstant : BOOLEAN, isNotNull : BOOLEAN]

TypesRead(types) ==
  /\ Null \notin DOMAIN types
  /\ \A t \in StructuredIn(types) :
       /\ types[t].parent \in StructuredIn(types) \cup {Null}
       /\ types[t].properties \in Seq(PropertiesOver(types))
       /\ types[t].interfaces \in Seq([type : References(types), vftOffset : Int])
       /\ Len(types[t].methods) \in Nat
       /\ DOMAIN types[t].methods = 1..Len(types[t].methods)
       /\ \A i \in DOMAIN types[t].methods :
            types[t].methods[i].parameters \in Seq(ParametersOver(types))

(* An array type is made after the type of its elements                    *)
(* (GeneratePackageArrayDefs).                                             *)
ArraysMade(types, arrays) ==
  /\ Len(arrays) \in Nat
  /\ \A t \in DOMAIN types : types[t].kind = "array" => \E i \in 1..Len(arrays) : arrays[i] = t
  /\ \A i \in 1..Len(arrays) : \A j \in i..Len(arrays) : types[arrays[i]].of # arrays[j]

(* The built-in types; packages see nothing of what they contain.  A class *)
(* among them derives from Core.Object, or from another that does.         *)
BuiltInsFound(types) ==
  /\ DOMAIN BuiltIn \subseteq StructuredIn(types)
  /\ \A t \in DOMAIN BuiltIn :
       /\ types[t].properties = <<>> /\ types[t].methods = <<>> /\ types[t].interfaces = <<>>
       /\ types[t].storage = "class" =>
            /\ BuiltIn[t].base = BuiltIn[Object].base
            /\ BuiltIn[Object].sizeInSubclass <= BuiltIn[t].sizeInSubclass
       /\ types[t].parent # Null =>
            /\ types[t].parent \in DOMAIN BuiltIn
            /\ types[t].parent = Object \/ types[types[t].parent].parent = Object
            /\ types[types[t].parent].storage = "class" /\ ~types[types[t].parent].isFinal
            /\ BuiltIn[types[t].parent].sizeInSubclass <= BuiltIn[t].sizeInSubclass
  /\ \A t \in {Object, Array, Method} : types[t].storage = "class"
  /\ types[Object].parent = Null /\ ~types[Object].isFinal
  /\ types[Array].parent = Object /\ types[Method].parent = Object
  /\ types[Integer].storage = "val struct"

(* A class that the host declares derives from those that it declares for  *)
(* the ancestors: its base is theirs, and it goes on where they end.       *)
HostSize(types, t) ==
  IF t \in DOMAIN BuiltIn THEN BuiltIn[t].sizeInSubclass ELSE types[t].native[1].sizeInSubclass

NativesDerived(types) ==
  \A t \in StructuredIn(types) : types[t].storage = "class" /\ types[t].native # <<>> =>
    /\ types[t].native[1].sizeInSubclass \in Int
    /\ types[t].native[1].base = BuiltIn[Object].base
    /\ \A p \in {types[t].parent, Object} \ {Null} :
         p \in DOMAIN BuiltIn \/ types[p].native # <<>> =>
           HostSize(types, p) <= HostSize(types, t)

(* The types of the properties that the host has in its own types are known *)
(* to it, and so is what they take.                                        *)
StoredIn(types, t, how) == t \in StructuredIn(types) /\ types[t].storage \in how
HostDeclares(types, t) == t \in DOMAIN BuiltIn \/ types[t].native # <<>>

DeclaredSize(types, t) ==
  CASE StoredIn(types, t, {"enum"}) -> EnumerantPart.size
    [] StoredIn(types, t, {"val struct", "ref struct"}) ->
         IF t \in DOMAIN BuiltIn THEN BuiltIn[t].size ELSE types[t].native[1].size
    [] StoredIn(types, t, {"interface"}) -> InterfacePart.size
    [] OTHER -> ReferencePart.size

HostParent(types, t) == IF types[t].parent = Null THEN Object ELSE types[t].parent

(* Where the host's compiler has placed them: behind what the class derives *)
(* from, inside of the type, and apart.  No host type implements interfaces. *)
PropertiesPlaced(types, t, first, start) ==
  LET host == types[t].native[1]
      type(i) == types[t].properties[first + i].type
      end(i) == host.offsets[i] + DeclaredSize(types, type(i))
      placed == 1..Len(types[t].properties) - first
  IN \A i \in placed :
       /\ StoredIn(types, type(i), {"val struct", "ref struct"}) => HostDeclares(types, type(i))
       /\ host.offsets[i] \in Nat /\ start <= host.offsets[i] /\ end(i) <= host.sizeInSubclass
       /\ \A j \in placed \ {i} : end(i) <= host.offsets[j] \/ end(j) <= host.offsets[i]

NativesPlaced(types) ==
  \A t \in StructuredIn(types) : types[t].native # <<>> =>
    LET host == types[t].native[1]
        p == HostParent(types, t)
    IN /\ types[t].interfaces = <<>>
       /\ host.size \in Nat \ {0} /\ host.sizeInSubclass \in 0..host.size
       /\ IF types[t].storage = "class"
          THEN HostDeclares(types, p) =>
                 PropertiesPlaced(types, t, Len(types[p].properties), HostSize(types, p))
          ELSE host.base = 0 /\ PropertiesPlaced(types, t, 0, 0)

(* Alignments are powers of two: of two, the smaller divides the larger.   *)
Parts == {ReferencePart, InterfacePart, ImplementedPart, EnumerantPart}

AlignmentsIn(types) ==
  {1} \cup {part.alignment : part \in Parts} \cup {BuiltIn[t].alignment : t \in DOMAIN BuiltIn}
    \cup {types[t].native[1].alignment : t \in {u \in StructuredIn(types) : types[u].native # <<>>}}

AlignmentsNested(types) ==
  /\ AlignmentsIn(types) \subseteq Nat \ {0}
  /\ \A a, b \in AlignmentsIn(types) : a <= b => b % a = 0

ASSUME BuiltInAssumption ==
  /\ {Object, Array, Method, Integer} \subseteq DOMAIN BuiltIn
  /\ \A t \in DOMAIN BuiltIn :
       /\ BuiltIn[t].size \in Nat \ {0} /\ BuiltIn[t].sizeInSubclass \in 0..BuiltIn[t].size
       /\ BuiltIn[t].base \in Int
  /\ \A part \in Parts : part.size \in Nat \ {0}
  /\ EnumerantPart =
       [size |-> BuiltIn[Integer].size, alignment |-> BuiltIn[Integer].alignment]

ASSUME ProgramAssumption ==
  \A p \in Programs :
    /\ TypesRead(p.types) /\ ArraysMade(p.types, p.arrays)
    /\ BuiltInsFound(p.types) /\ NativesDerived(p.types)
    /\ NativesPlaced(p.types) /\ AlignmentsNested(p.types)
    /\ \A o \in p.orders :
         /\ o \in Seq(StructuredIn(p.types))
         /\ \A t \in StructuredIn(p.types) :
              t \in DOMAIN BuiltIn \/ \E i \in 1..Len(o) : o[i] = t

Types == DOMAIN program
IsStructured(t) == t \in Types /\ program[t].kind = "structured"
IsArray(t) == t \in Types /\ program[t].kind = "array"
IsDelegate(t) == t \in Types /\ program[t].kind = "delegate"
Stored(t, how) == IsStructured(t) /\ program[t].storage \in how
IsStruct(t) == Stored(t, {"val struct", "ref struct"})
TypeIsClass(t) == Stored(t, {"class"})
TypeIsInterface(t) == Stored(t, {"interface"})
TypeIsObjectReference(t) == t = Null \/ IsDelegate(t) \/ IsArray(t) \/ TypeIsClass(t)
IsEnum(t) == Stored(t, {"enum"})

-----------------------------------------------------------------------------
(* Which type can stand for which.                                         *)
Inherits(st, to, initialFrom) ==
  LET inherits[t \in StructuredIn(program) \cup {Null}] ==
        /\ t # Null /\ t # initialFrom
        /\ t = to \/ inherits[program[t].parent]
  IN inherits[st]

NonRefTypesCompatible(from, to) == from = to \/ (IsEnum(from) /\ to = Integer)

(* Faulty variant: elements of any array are converted.                    *)
ElementsAnyConstant(from, to) == TRUE

(* Elements may be converted only where nothing else is written.           *)
ElementsConvertible(from, to) == program[to].isConstant

RefTypesCompatibleRecursive(initialFrom) ==
  LET compatible[depth \in 0..MaxDepth] ==
        [from \in References(program) |-> [to \in References(program) |->
          /\ depth < MaxDepth
          /\ \/ from = Null /\ (TypeIsObjectReference(to) \/ TypeIsInterface(to))
             \/ from = to
             \/ from # Null /\ to = Object
             \/ IsArray(from) /\ to = Array
             \/ IsDelegate(from) /\ to = Method
             \/ /\ IsArray(from) /\ IsArray(to)
                /\ program[from].isConstant => program[to].isConstant
                /\ program[from].dimensions = program[to].dimensions
                /\ LET subFrom == program[from].of
                       subTo == program[to].of
                   IN /\ subFrom # initialFrom
                      /\ \/ subFrom = subTo
                         \/ /\ ElementsConvertible(from, to)
                            /\ IF TypeIsObjectReference(subFrom)
                               THEN compatible[depth + 1][subFrom][subTo]
                               ELSE NonRefTypesCompatible(subFrom, subTo)
             \/ /\ TypeIsClass(from) /\ TypeIsClass(to)
                /\ Inherits(program[from].parent, to, initialFrom)]]
  IN compatible

TypesCompatible(from, to) ==
  \/ from = to
  \/ TypeIsObjectReference(from) /\ RefTypesCompatibleRecursive(from)[0][from][to]
  \/ IsEnum(from) /\ to = Integer

TypeImplementsInterface(class, ifc) ==
  /\ TypeIsClass(class) /\ TypeIsInterface(ifc)
  /\ \E i \in DOMAIN program[class].interfaces : program[class].interfaces[i].type = ifc

(* Faulty variant: only what the class itself declares.                    *)
MayContainUnlessDeclared(class, ifc) == TypeImplementsInterface(class, ifc)

(* A class that is not final may have a subclass that implements anything. *)
MayContain(class, ifc) == ~program[class].isFinal \/ TypeImplementsInterface(class, ifc)

TypesCompatiblePolymorphic(from, to) ==
  \/ TypesCompatible(to, from)
  \/ TypeIsInterface(from) /\ TypeIsInterface(to)
  \/ TypeIsInterface(from) /\ TypeIsClass(to) /\ MayContain(to, from)
  \/ TypeIsClass(from) /\ TypeIsInterface(to) /\ MayContain(from, to)

-----------------------------------------------------------------------------
(* Validation.                                                             *)

(* An override has the signature of what it overrides, except that its     *)
(* own "this" must accept the implementing type, and is not abstract       *)
(* unless that was.                                                        *)
MethodOverrideCompatible(st, base, ov) ==
  \/ base = ov
  \/ /\ ov.isAbstract => base.isAbstract
     /\ ov.returns = base.returns /\ Null \notin ToSet(ov.returns)
     /\ ov.this = base.this
     /\ Len(ov.parameters) = Len(base.parameters)
     /\ \A i \in DOMAIN base.parameters :
          LET b == base.parameters[i]
              o == ov.parameters[i]
          IN /\ b.type # Null /\ o.type # Null
             /\ IF i = base.this THEN TypesCompatible(st, o.type) ELSE o.type = b.type
             /\ o.isConstant = b.isConstant /\ o.isNotNull = b.isNotNull

EnumValid(st) == program[st].storage = "enum" => 0 \in program[st].enumerants

(* GCOF_TransientDuplicate, which would exempt a type from the rule for     *)
(* localized parents, is set only where nothing is compiled (#if 0).       *)
Extensible(st, parent) ==
  /\ TypeIsClass(st) /\ TypeIsClass(parent) /\ ~program[parent].isFinal
  /\ program[parent].isLocalized => program[st].domain = program[parent].domain

Parent(st) == program[st].parent
ParentMethods(st) == IF Parent(st) = Null THEN <<>> ELSE program[Parent(st)].methods
ParentInterfaces(st) == IF Parent(st) = Null THEN <<>> ELSE program[Parent(st)].interfaces
ParentProperties(st) == IF Parent(st) = Null THEN <<>> ELSE program[Parent(st)].properties

ThisValid(st, i) ==
  LET m == program[st].methods[i]
      p == m.parameters[m.this]
  IN /\ m.this \in DOMAIN m.parameters
     /\ p.isNotNull /\ p.isConstant
     /\ p.type = st \/ (i <= Len(ParentMethods(st)) /\ ParentMethods(st)[i] = m)

(* Nothing of this is looked at in a type without methods.                 *)
MethodsValid(st) ==
  program[st].methods # <<>> =>
    /\ Len(ParentMethods(st)) <= Len(program[st].methods)
    /\ \A i \in DOMAIN program[st].methods : ThisValid(st, i)
    /\ \A i \in DOMAIN ParentMethods(st) :
         /\ MethodOverrideCompatible(st, ParentMethods(st)[i], program[st].methods[i])
         /\ program[st].methods[i].isAbstract => program[st].isAbstract

PropertiesMatch(st) ==
  \A i \in DOMAIN ParentProperties(st) :
    /\ program[st].properties[i].type = ParentProperties(st)[i].type
    /\ program[st].properties[i].mustBeConstant = ParentProperties(st)[i].mustBeConstant
    /\ program[st].properties[i].isConstant = ParentProperties(st)[i].isConstant

PropertiesValid(st) ==
  program[st].properties # <<>> =>
    /\ Len(ParentProperties(st)) <= Len(program[st].properties)
    /\ PropertiesMatch(st)

(* Faulty variant: the interface's methods taken to come first.            *)
SlotWithoutOffset(impl, i) == i

(* Where a method of an interface is in the table of a type.               *)
SlotOf(impl, i) == impl.vftOffset + i

ImplementationValid(st, impl) ==
  LET table == program[impl.type].methods
      methods == program[st].methods
  IN /\ TypeIsInterface(impl.type)
     /\ impl.vftOffset >= 0 /\ impl.vftOffset + Len(table) <= Len(methods)
     /\ \A i \in DOMAIN table :
          MethodOverrideCompatible(st, table[i], methods[SlotOf(impl, i)])

InterfacesValid(st) ==
  LET own == program[st].interfaces
      inherited == ParentInterfaces(st)
  IN own # <<>> =>
       /\ Len(inherited) <= Len(own)
       /\ \A i \in DOMAIN inherited : own[i] = inherited[i]
       /\ \A i \in Len(inherited) + 1..Len(own) : ImplementationValid(st, own[i])

StructureValid(st) ==
  /\ EnumValid(st)
  /\ Parent(st) # Null => Extensible(st, Parent(st))
  /\ MethodsValid(st) /\ PropertiesValid(st) /\ InterfacesValid(st)

-----------------------------------------------------------------------------
(* Layout.                                                                 *)
IsNative(st) == program[st].native # <<>>
Native(st) == program[st].native[1]
ParentClass(st) ==
  IF TypeIsClass(st) /\ Parent(st) = Null /\ st # Object THEN Object ELSE Parent(st)

(* What a value of a type takes.                                           *)
TypeValueSize(t) ==
  CASE IsEnum(t) -> EnumerantPart
    [] IsStruct(t) -> [size |-> laid[t].size, alignment |-> laid[t].alignment]
    [] TypeIsInterface(t) -> InterfacePart
    [] OTHER -> ReferencePart

Padded(size, alignment) == ((size + alignment - 1) \div alignment) * alignment

(* Parts, one after the other; the last is where they end.                 *)
Places(start, parts) ==
  LET after[i \in 0..Len(parts)] ==
        IF i = 0 THEN start ELSE Padded(after[i - 1], parts[i].alignment) + parts[i].size
  IN [i \in 1..Len(parts) + 1 |->
        IF i > Len(parts) THEN after[i - 1] ELSE Padded(after[i - 1], parts[i].alignment)]

Largest(alignment, parts) ==
  LET S == {alignment} \cup {parts[i].alignment : i \in DOMAIN parts}
  IN CHOOSE x \in S : \A y \in S : y <= x

(* Where a subclass goes on: MSVC puts it after the padding of its parent. *)
SizeInSubclass(end, padded) == IF TailPadding THEN end ELSE padded

(* A type that is not native goes on where its parent ends; of a native    *)
(* type, the host says where its properties are.                           *)
StartOf(st) ==
  CASE IsNative(st) \/ ParentClass(st) = Null -> 0
    [] OTHER -> laid[ParentClass(st)].sizeInSubclass
BaseOf(st) ==
  CASE IsNative(st) -> Native(st).base
    [] ~IsNative(st) /\ ParentClass(st) # Null -> laid[ParentClass(st)].base
    [] OTHER -> 0

NewOf(own, inherited) == SubSeq(own, Len(inherited) + 1, Len(own))
InheritedOffsets(st) == IF ParentClass(st) = Null THEN <<>> ELSE laid[ParentClass(st)].propertyOffsets
InheritedInterfaces(st) ==
  IF ParentClass(st) = Null THEN <<>> ELSE laid[ParentClass(st)].interfaceOffsets
InheritedReferences(st) ==
  IF ParentClass(st) = Null THEN <<>> ELSE laid[ParentClass(st)].references

ContainedReference(p, o) ==
  [offset |-> o, type |-> p.type, mustBeConstant |-> p.mustBeConstant,
   isInterface |-> TypeIsInterface(p.type)]

(* Faulty variant: those of a structure left at their offsets in it.       *)
ReferencesUnmoved(p, o) ==
  CASE IsStruct(p.type) -> laid[p.type].references
    [] IsEnum(p.type) -> <<>>
    [] OTHER -> <<ContainedReference(p, o)>>

(* The references in a property p at offset o.                             *)
ReferencesOf(p, o) ==
  CASE IsStruct(p.type) ->
         [i \in DOMAIN laid[p.type].references |->
            [laid[p.type].references[i] EXCEPT !.offset = @ + o]]
    [] IsEnum(p.type) -> <<>>
    [] OTHER -> <<ContainedReference(p, o)>>

(* What a type adds to its parent: interfaces first, then properties.      *)
NewInterfaces(st) == NewOf(program[st].interfaces, InheritedInterfaces(st))
NewProperties(st) == NewOf(program[st].properties, InheritedOffsets(st))
NewParts(st) ==
  [i \in DOMAIN NewInterfaces(st) |-> ImplementedPart]
    \o [i \in DOMAIN NewProperties(st) |-> TypeValueSize(NewProperties(st)[i].type)]

AlignmentOf(st) ==
  CASE IsNative(st) -> Native(st).alignment
    [] ~IsNative(st) /\ ParentClass(st) = Null -> Largest(1, NewParts(st))
    [] OTHER -> Largest(laid[ParentClass(st)].alignment, NewParts(st))

SizeOf(st, end) ==
  IF IsNative(st) THEN Native(st).size ELSE Padded(IF end = 0 THEN 1 ELSE end, AlignmentOf(st))

(* Where a new property is, from the base of the object.                   *)
OffsetOf(st, places, i) ==
  (IF IsNative(st) THEN Native(st).offsets[i] ELSE places[Len(NewInterfaces(st)) + i]) - BaseOf(st)

LayoutOf(st, places) ==
  LET end == Last(places)
      new == NewProperties(st)
  IN [propertyOffsets |-> InheritedOffsets(st)
                            \o [i \in DOMAIN new |-> OffsetOf(st, places, i)],
      interfaceOffsets |-> InheritedInterfaces(st)
                             \o SubSeq(places, 1, Len(NewInterfaces(st))),
      references |-> InheritedReferences(st)
                       \o FlattenSeq([i \in DOMAIN new |->
                            ReferencesOf(new[i], OffsetOf(st, places, i))]),
      size |-> SizeOf(st, end),
      sizeInSubclass |-> IF IsNative(st) THEN Native(st).sizeInSubclass
                         ELSE SizeInSubclass(end, SizeOf(st, end)),
      alignment |-> AlignmentOf(st),
      base |-> BaseOf(st),
      nativeSize |-> IF IsNative(st) THEN Native(st).sizeInSubclass
                     ELSE IF ParentClass(st) = Null THEN 0 ELSE laid[ParentClass(st)].nativeSize,
      nativeParts |-> IF IsNative(st) THEN Len(program[st].properties)
                      ELSE IF ParentClass(st) = Null THEN 0 ELSE laid[ParentClass(st)].nativeParts,
      inherited |-> ~IsNative(st) /\ ParentClass(st) # Null]

(* Built-in types have no properties that a package sees.                  *)
EmptyLayout ==
  [propertyOffsets |-> <<>>, interfaceOffsets |-> <<>>, references |-> <<>>,
   size |-> 0, sizeInSubclass |-> 0, alignment |-> 1, base |-> 0,
   nativeSize |-> 0, nativeParts |-> 0, inherited |-> FALSE]

HostLayout(t) ==
  [EmptyLayout EXCEPT !.size = BuiltIn[t].size, !.sizeInSubclass = BuiltIn[t].sizeInSubclass,
     !.alignment = BuiltIn[t].alignment, !.base = BuiltIn[t].base,
     !.nativeSize = BuiltIn[t].sizeInSubclass]

EnumLayout ==
  [EmptyLayout EXCEPT !.size = EnumerantPart.size, !.alignment = EnumerantPart.alignment]

(* The host's type of what a class derives from: every class that has a    *)
(* layout has one, other types only if the host declares them.             *)
HasHostType(parent) ==
  TypeIsClass(parent) \/ parent \in DOMAIN BuiltIn \/ (IsNative(parent) /\ ~IsEnum(parent))

(* Nothing looks at whether a class that is not native has a parent, nor   *)
(* at whether that has a type of the host's to derive from.                *)
Orphaned(st) ==
  /\ TypeIsClass(st) /\ ~IsNative(st)
  /\ Parent(st) # Null => ~HasHostType(Parent(st))

StructsIn(st) ==
  {t \in {program[st].properties[i].type : i \in DOMAIN program[st].properties} : IsStruct(t)}

Ready(st) ==
  /\ ParentClass(st) = Null \/ ParentClass(st) \in DOMAIN laid
  /\ Orphaned(st) \/ \A t \in StructsIn(st) : t \in DOMAIN laid

(* What ResolveStructure refuses whether or not the type must wait.        *)
HeaderValid(st) ==
  LET d == program[st] IN
  /\ TypeIsClass(st) \/ IsEnum(st) \/ d.parent = Null
  /\ st = Object => d.parent = Null
  /\ d.storage \in {"interface", "enum"} => d.properties = <<>>

(* A type repeats what it inherits.                                        *)
InheritsAll(st) ==
  /\ Len(InheritedOffsets(st)) <= Len(program[st].properties)
  /\ Len(InheritedInterfaces(st)) <= Len(program[st].interfaces)

Resolvable(st) ==
  /\ TypeIsInterface(st) => program[st].interfaces = <<>>
  /\ \A i \in DOMAIN program[st].properties :
       program[st].properties[i].type \in Types \ {Varying}
  /\ InheritsAll(st)
  /\ IsNative(st) /\ ParentClass(st) # Null => ~laid[ParentClass(st)].inherited
  /\ SizeOf(st, Last(Places(StartOf(st), NewParts(st)))) <= LargestUInt

-----------------------------------------------------------------------------
Init ==
  /\ \E p \in Programs : program = p.types /\ order \in p.orders
  /\ cursor = 1 /\ resolvedAny = FALSE /\ deferredAny = FALSE
  /\ laid = [t \in DOMAIN BuiltIn |-> HostLayout(t)]
  /\ phase = "harden"

(* The next type of the round: it gets its layout, waits for another, has  *)
(* it already, is refused, or is a class for which a null is read: its      *)
(* parent, or its parent's host type.                                      *)
Current == order[cursor]
AtType == phase = "harden" /\ cursor <= Len(order) /\ Current \notin DOMAIN laid

ResolveStructure ==
  /\ AtType /\ HeaderValid(Current) /\ Ready(Current) /\ ~Orphaned(Current)
  /\ IsEnum(Current) \/ Resolvable(Current)
  /\ \E layout \in {IF IsEnum(Current) THEN EnumLayout
                    ELSE LayoutOf(Current, Places(StartOf(Current), NewParts(Current)))} :
       laid' = [t \in DOMAIN laid \cup {Current} |-> IF t = Current THEN layout ELSE laid[t]]
  /\ cursor' = cursor + 1 /\ resolvedAny' = TRUE
  /\ UNCHANGED <<program, order, deferredAny, phase>>

DeferStructure ==
  /\ AtType /\ HeaderValid(Current) /\ ~Ready(Current)
  /\ cursor' = cursor + 1 /\ deferredAny' = TRUE
  /\ UNCHANGED <<program, order, resolvedAny, laid, phase>>

PassOver ==
  /\ phase = "harden" /\ cursor <= Len(order) /\ Current \in DOMAIN laid
  /\ cursor' = cursor + 1
  /\ UNCHANGED <<program, order, resolvedAny, deferredAny, laid, phase>>

ResolveFails ==
  /\ AtType
  /\ \/ ~HeaderValid(Current)
     \/ Ready(Current) /\ Orphaned(Current) /\ ~InheritsAll(Current)
     \/ Ready(Current) /\ ~Orphaned(Current) /\ ~IsEnum(Current) /\ ~Resolvable(Current)
  /\ phase' = "refused"
  /\ UNCHANGED <<program, order, cursor, resolvedAny, deferredAny, laid>>

ReadsNull ==
  /\ AtType /\ HeaderValid(Current) /\ Ready(Current)
  /\ Orphaned(Current) /\ InheritsAll(Current)
  /\ phase' = "crashed"
  /\ UNCHANGED <<program, order, cursor, resolvedAny, deferredAny, laid>>

(* Array types are looked at in the first round.                           *)
ArraysValid == \A t \in Types : IsArray(t) => program[t].of \in Types \ {Varying}

(* Faulty variant: what one round resolved counts for the next too.        *)
RoundKeepsProgress(next) ==
  /\ phase' = next
  /\ cursor' = 1 /\ deferredAny' = FALSE /\ UNCHANGED resolvedAny

EndRound(next) ==
  /\ phase' = next
  /\ cursor' = 1 /\ resolvedAny' = FALSE /\ deferredAny' = FALSE

FinishRound ==
  /\ phase = "harden" /\ cursor > Len(order)
  /\ EndRound(CASE ~ArraysValid \/ (deferredAny /\ ~resolvedAny) -> "refused"
                [] ArraysValid /\ ~deferredAny -> "validate"
                [] OTHER -> "harden")
  /\ UNCHANGED <<program, order, laid>>

ValidateStructures ==
  /\ phase = "validate"
  /\ phase' = IF \A i \in DOMAIN order : StructureValid(order[i]) THEN "loaded" ELSE "refused"
  /\ UNCHANGED <<program, order, cursor, resolvedAny, deferredAny, laid>>

Next ==
  \/ ResolveStructure \/ DeferStructure \/ PassOver \/ ResolveFails \/ ReadsNull
  \/ FinishRound \/ ValidateStructures

Spec == Init /\ [][Next]_vars /\ WF_vars(Next)

-----------------------------------------------------------------------------
(* Properties.                                                             *)
Classes == {t \in Types : TypeIsClass(t)}
Ancestors(t) ==
  {a \in Classes : TypeIsClass(t) /\ (a = t \/ Inherits(program[t].parent, a, t))}

(* What a value of a type consists of, besides what the host declares.     *)
PartsOf(st) ==
  {[at |-> laid[st].interfaceOffsets[i], size |-> ImplementedPart.size,
    alignment |-> ImplementedPart.alignment] : i \in DOMAIN laid[st].interfaceOffsets}
  \cup
  {[at |-> laid[st].propertyOffsets[i] + laid[st].base,
    size |-> TypeValueSize(program[st].properties[i].type).size,
    alignment |-> TypeValueSize(program[st].properties[i].type).alignment] :
      i \in laid[st].nativeParts + 1..Len(laid[st].propertyOffsets)}

NumParts(st) ==
  Len(laid[st].interfaceOffsets) + Len(laid[st].propertyOffsets) - laid[st].nativeParts

PartsFit(st) ==
  /\ Cardinality(PartsOf(st)) = NumParts(st)
  /\ \A p \in PartsOf(st) :
       /\ p.at >= laid[st].nativeSize /\ p.at + p.size <= laid[st].size
       /\ p.at % p.alignment = 0 /\ laid[st].alignment % p.alignment = 0
       /\ \A q \in PartsOf(st) : p = q \/ p.at + p.size <= q.at \/ q.at + q.size <= p.at

(* Every reference in a value, found property by property.                 *)
ReferencesIn(st) ==
  LET references[t \in StructuredIn(program)] ==
        UNION {LET p == program[t].properties[i]
                   at == laid[t].propertyOffsets[i]
               IN CASE IsStruct(p.type) -> {[r EXCEPT !.offset = @ + at] : r \in references[p.type]}
                    [] IsEnum(p.type) -> {}
                    [] OTHER -> {ContainedReference(p, at)} : i \in DOMAIN program[t].properties}
  IN references[st]

ReferencesMapped(st) ==
  /\ ToSet(laid[st].references) = ReferencesIn(st)
  /\ IsInjective(laid[st].references)

\* Of every type of a load that succeeded, no two parts of a value overlap, each
\* is aligned, behind what the host declares and inside the size; and the map
\* the collector marks from names exactly the references in a value, those in
\* structures inside structures and those that were inherited too.
LayoutSound ==
  phase = "loaded" => \A i \in DOMAIN order : PartsFit(order[i]) /\ ReferencesMapped(order[i])

(* An object of class "from" can be used at the offsets of class "to".     *)
LooksLike(from, to) ==
  /\ IsPrefix(program[to].properties, program[from].properties)
  /\ IsPrefix(program[to].interfaces, program[from].interfaces)
  /\ IsPrefix(laid[to].propertyOffsets, laid[from].propertyOffsets)
  /\ IsPrefix(laid[to].interfaceOffsets, laid[from].interfaceOffsets)
  /\ laid[to].base = laid[from].base /\ laid[to].nativeSize <= laid[from].nativeSize

(* Elements read as those of "to" are such; where elements can be written, *)
(* each type holds what the other does.                                    *)
ElementsAgree(from, to) ==
  /\ program[from].isConstant => program[to].isConstant
  /\ program[from].dimensions = program[to].dimensions
  /\ TypeValueSize(program[from].of).size = TypeValueSize(program[to].of).size
  /\ TypesCompatible(program[from].of, program[to].of)
  /\ ~program[to].isConstant => TypesCompatible(program[to].of, program[from].of)

\* Where TypesCompatible lets the verifier and the runtime use a value of one
\* type as one of another without a check, it is one: the properties and the
\* interfaces of a class are at the offsets of the other, the elements of an
\* array are what the other holds and none can be written that this one does
\* not; and a conversion in two steps is a conversion.
CompatibleIsSafe ==
  phase = "loaded" =>
    \A from, to \in Types \ {Varying} : TypesCompatible(from, to) =>
      /\ TypeIsClass(from) => TypeIsClass(to) /\ LooksLike(from, to)
      /\ IsArray(from) /\ IsArray(to) => ElementsAgree(from, to)
      /\ ~TypeIsObjectReference(from) => TypeValueSize(from) = TypeValueSize(to)
      /\ \A further \in Types \ {Varying} :
           TypesCompatible(to, further) => TypesCompatible(from, further)

(* What a call of one method may find in its slot.                         *)
Answers(class, called, found) ==
  /\ found.this = called.this /\ found.returns = called.returns
  /\ Len(found.parameters) = Len(called.parameters)
  /\ \A i \in DOMAIN called.parameters \ {called.this} :
       found.parameters[i] = called.parameters[i]
  /\ TypesCompatible(class, found.parameters[found.this].type)

(* No class has lost a table that its parent has.                          *)
KeepsTables(c) ==
  \A a \in Ancestors(c) : \A g \in Ancestors(a) :
    program[g].methods # <<>> => program[a].methods # <<>>

\* A call through the table of an object finds a method that takes what the
\* caller passes and returns what it expects, and takes the object as "this":
\* for a call to a method of any ancestor, and for one to a method of any
\* interface of the class or of an ancestor; and what it inherits from a parent
\* is abstract only in an abstract class.  A class that leaves out the table of
\* its parent is not looked at by the code, and its family not meant here.
DispatchSafe ==
  phase = "loaded" =>
    \A c \in Classes \ DOMAIN BuiltIn : program[c].methods # <<>> /\ KeepsTables(c) =>
      LET methods == program[c].methods IN
      /\ \A a \in Ancestors(c) : \A i \in DOMAIN program[a].methods :
           /\ Answers(c, program[a].methods[i], methods[i])
           /\ a # c /\ methods[i].isAbstract => program[c].isAbstract
      /\ \A a \in Ancestors(c) : \A k \in DOMAIN program[a].interfaces :
           LET impl == program[a].interfaces[k]
               table == program[impl.type].methods
           IN \A i \in DOMAIN table : Answers(c, table[i], methods[impl.vftOffset + i])

(* A reference of type t may be to an object of type c.                    *)
MayRefer(t, c) ==
  \/ TypesCompatible(c, t)
  \/ \E a \in Ancestors(c) : \E i \in DOMAIN program[a].interfaces : program[a].interfaces[i].type = t

\* A conversion that can succeed at run time is one that the compiler lets a
\* method ask for: where one object can be referred to as both types, one type
\* is compatible with the other or a checked cast between them is allowed,
\* whatever classes other packages derive.
CastsComplete ==
  phase = "loaded" =>
    \A from, to \in {t \in Types : TypeIsObjectReference(t) \/ TypeIsInterface(t)} :
      (\E c \in Types : TypeIsObjectReference(c) /\ MayRefer(from, c) /\ MayRefer(to, c))
        => TypesCompatible(from, to) \/ TypesCompatiblePolymorphic(from, to)

(* Types that must be laid before a type, however far.                     *)
NeededBy(st) == (IF ParentClass(st) = Null THEN {} ELSE {ParentClass(st)}) \cup StructsIn(st)

NeedsItself(st) ==
  LET needed[n \in 1..Len(order)] ==
        IF n = 1 THEN NeededBy(st)
        ELSE LET nearer == needed[n - 1]
             IN nearer \cup UNION {NeededBy(t) : t \in nearer \ DOMAIN BuiltIn}
  IN st \in needed[Len(order)]

\* Every load ends, in whatever order its types come: it succeeds with every
\* type laid, or it is refused, and then not because of the order: some type
\* is malformed or needs itself before it can be laid.  Only a class without a
\* host type to derive from stops the program itself.
LoadSettles ==
  <>[] \/ phase = "loaded" /\ ToSet(order) \subseteq DOMAIN laid
       \/ phase = "crashed" /\ \E i \in DOMAIN order : Orphaned(order[i])
       \/ /\ phase = "refused"
          /\ \/ ~ArraysValid
             \/ \E i \in DOMAIN order :
                  \/ NeedsItself(order[i]) \/ ~HeaderValid(order[i])
                  \/ Ready(order[i]) /\ ~InheritsAll(order[i])
                  \/ Ready(order[i]) /\ ~Orphaned(order[i])
                       /\ (~Resolvable(order[i]) \/ ~StructureValid(order[i]))
=============================================================================
