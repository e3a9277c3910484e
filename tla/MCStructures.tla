----------------------------- MODULE MCStructures -----------------------------
(***************************************************************************)
(* Instances of Structures for TLC: the programs whose types are loaded.   *)
(***************************************************************************)
EXTENDS Structures

Part(size, alignment) == [size |-> size, alignment |-> alignment]
MCReference == Part(2, 2)
MCInterface == Part(2, 2)
MCImplemented == Part(4, 2)
MCEnumerant == Part(2, 2)
Byte == "Core.byte"

Host(size, sizeInSubclass, alignment, base) ==
  [size |-> size, sizeInSubclass |-> sizeInSubclass, alignment |-> alignment, base |-> base]

\* An object starts with a pointer of the host's, which is in front of its base.
MCBuiltIn ==
  Object :> Host(2, 2, 2, 2) @@ Array :> Host(4, 4, 2, 2) @@ Method :> Host(6, 6, 2, 2) @@
  Integer :> Host(2, 2, 2, 0) @@ Byte :> Host(1, 1, 1, 0)

Define(storage) ==
  [kind |-> "structured", storage |-> storage, parent |-> Null, properties |-> <<>>,
   methods |-> <<>>, interfaces |-> <<>>, enumerants |-> {}, isFinal |-> FALSE,
   isAbstract |-> FALSE, isLocalized |-> FALSE, domain |-> "P", native |-> <<>>]

Class(parent) == [Define("class") EXCEPT !.parent = parent]
Struct(properties) == [Define("val struct") EXCEPT !.properties = properties]
Interface(methods) == [Define("interface") EXCEPT !.methods = methods]
Enum == [Define("enum") EXCEPT !.enumerants = {0, 1}]
Delegate == [kind |-> "delegate"]
ArrayOf(of, isConstant, dimensions) ==
  [kind |-> "array", of |-> of, isConstant |-> isConstant, dimensions |-> dimensions]

Property(type) == [type |-> type, isConstant |-> FALSE, mustBeConstant |-> FALSE]
Properties(types) == [i \in DOMAIN types |-> Property(types[i])]
Implement(ifc, vftOffset) == [type |-> ifc, vftOffset |-> vftOffset]

Core ==
  Object :> Class(Null) @@ Array :> Class(Object) @@ Method :> Class(Object) @@
  Integer :> Define("val struct") @@ Byte :> Define("val struct") @@
  Varying :> [kind |-> "varying"]

Program(types, orders) == [types |-> types @@ Core, orders |-> orders, arrays |-> <<>>]

BothWays(sequence) == {sequence, Reverse(sequence)}

-----------------------------------------------------------------------------
(* Layouts: a class, its subclass, and a structure in both.                *)

(* A class the host declares: the byte it has is at the place it says.     *)
Hosted ==
  [Class(Object) EXCEPT !.properties = Properties(<<Byte>>),
     !.native = <<Host(6, 5, 2, 2) @@ [offsets |-> <<4>>]>>]

StructsOf == {<<Byte>>, <<Byte, "I">>, <<"T", "T">>}

LayoutProgram(parent, implementsI, ownA, implementsJ, ownB, inS) ==
  LET inherited == IF parent = "N" THEN <<Byte>> ELSE <<>>
      ofA == IF implementsI THEN <<Implement("I", 0)>> ELSE <<>>
      ofB == ofA \o (IF implementsJ THEN <<Implement("J", 0)>> ELSE <<>>)
  IN Program(
       "N" :> Hosted @@ "I" :> Interface(<<>>) @@ "J" :> Interface(<<>>) @@ "E" :> Enum @@
       "T" :> Struct(Properties(<<Byte, "A">>)) @@ "S" :> Struct(Properties(inS)) @@
       "A" :> [Class(parent) EXCEPT !.properties = Properties(inherited \o ownA),
                 !.interfaces = ofA] @@
       "B" :> [Class("A") EXCEPT !.properties = Properties(inherited \o ownA \o ownB),
                 !.interfaces = ofB],
       {<<"N", "I", "J", "E", "T", "S", "A", "B">>, <<"B", "A", "S", "T", "N", "I", "J", "E">>})

Layouts ==
  {LayoutProgram(parent, i, ownA, j, ownB, inS) :
     parent \in {Object, "N"}, i \in BOOLEAN, j \in BOOLEAN, inS \in StructsOf,
     ownA \in {<<>>, <<Byte>>, <<"A", "S">>, <<Byte, "S">>, <<"S", Byte>>},
     ownB \in {<<>>, <<Byte>>, <<"S">>, <<"E">>}}

(* Types that are refused: a property declared anew, structures and        *)
(* parents in a circle, what cannot be laid; and those that are read as    *)
(* null: a class without a parent, or under a type that is no class.       *)
Chain(parentOfA, inA, inB) ==
  Program("A" :> [Class(parentOfA) EXCEPT !.properties = inA] @@
          "B" :> [Class("A") EXCEPT !.properties = inB] @@
          "E" :> Enum @@ "I" :> Interface(<<>>) @@
          "N" :> [Struct(Properties(<<Byte>>)) EXCEPT
                    !.native = <<Host(6, 5, 2, 0) @@ [offsets |-> <<4>>]>>] @@
          "S" :> Struct(Properties(<<"A">>)), BothWays(<<"E", "I", "N", "A", "B", "S">>))

Circle == Program("S" :> Struct(Properties(<<"T">>)) @@ "T" :> Struct(Properties(<<"S", Byte>>)) @@
                  "U" :> Struct(Properties(<<Byte>>)), BothWays(<<"S", "T", "U">>))

Refused ==
  {Chain(Object, Properties(<<Byte>>), Properties(<<"B">>)),
   Chain(Object, Properties(<<"A">>), <<[Property("A") EXCEPT !.mustBeConstant = TRUE]>>),
   Chain(Object, Properties(<<"A">>), <<>>),
   Chain(Object, Properties(<<Varying>>), Properties(<<Varying>>)),
   Chain("B", <<>>, <<>>), Chain(Null, <<>>, <<>>), Circle}
  \cup {Chain(parent, inA, <<>>) : parent \in {"S", "I", "E", "N", Byte},
                                  inA \in {<<>>, Properties(<<"A">>), Properties(<<Byte>>)}}
  \cup {[Program("A" :> ArrayOf(of, FALSE, 1) @@ "S" :> Struct(<<>>), {<<"S">>})
            EXCEPT !.arrays = <<"A">>] : of \in {Null, Varying, "S"}}
  \cup {Program("E" :> [Enum EXCEPT !.enumerants = {1}], {<<"E">>})}

-----------------------------------------------------------------------------
(* Virtual calls: a class, its child and its grandchild.                   *)
Parameter(type) == [type |-> type, isConstant |-> TRUE, isNotNull |-> TRUE]

Virtual(name, this, returns) ==
  [name |-> name, this |-> 1, parameters |-> <<Parameter(this), Parameter(Integer)>>,
   returns |-> returns, isAbstract |-> FALSE]

Abstract(m) == [m EXCEPT !.isAbstract = TRUE]

In(this) == Virtual(this, this, <<Integer>>)

TablesOfA == {<<>>, <<In("A")>>, <<Abstract(In("A"))>>}

(* What the table of a child may say for the slots of its parent, and one  *)
(* more.                                                                   *)
TablesOf(child, inherited) ==
  LET own == In(child)
      slot(i) == {inherited[i], own, Abstract(own), [own EXCEPT !.parameters[2].type = Byte]}
      kept == CASE inherited = <<>> -> {<<>>}
                [] Len(inherited) = 1 -> {<<m>> : m \in slot(1)}
                [] OTHER -> {<<m, inherited[2]>> : m \in slot(1)} \cup {<<inherited[1], m>> : m \in slot(2)}
      more == [own EXCEPT !.name = "more", !.returns = <<Byte>>]
  IN {<<>>} \cup kept \cup {Append(k, more) : k \in kept}

VirtualProgram(tableOfA, abstractA, tableOfB, offsetI, tableOfC, offsetJ) ==
  LET ofB == IF offsetI < 0 THEN <<>> ELSE <<Implement("I", offsetI)>>
      ofC == ofB \o (IF offsetJ < 0 THEN <<>> ELSE <<Implement("J", offsetJ)>>)
  IN Program(
       "I" :> Interface(<<Virtual("I", "I", <<Integer>>)>>) @@
       "J" :> Interface(<<Virtual("J", "J", <<Byte>>)>>) @@
       "A" :> [Class(Object) EXCEPT !.methods = tableOfA, !.isAbstract = abstractA] @@
       "B" :> [Class("A") EXCEPT !.methods = tableOfB, !.interfaces = ofB, !.isAbstract = abstractA] @@
       "C" :> [Class("B") EXCEPT !.methods = tableOfC, !.interfaces = ofC],
       {<<"I", "J", "A", "B", "C">>})

Virtuals ==
  UNION {UNION {{VirtualProgram(a, abstractA, b, i, c, j) :
                  i \in -1..1, abstractA \in BOOLEAN, j \in {-1, 1},
                  c \in TablesOf("C", b)} : b \in TablesOf("B", a)} : a \in TablesOfA}

-----------------------------------------------------------------------------
(* Relations: classes and arrays of everything.                            *)
ArrayName(of, isConstant, dimensions) ==
  (IF isConstant THEN "const " ELSE "") \o of \o (IF dimensions = 1 THEN "[]" ELSE "[,]")

ArraysOf(elements, dimensions) ==
  [name \in {ArrayName(t, c, dimensions) : t \in elements, c \in BOOLEAN} |->
     LET t == CHOOSE t \in elements : \E c \in BOOLEAN : name = ArrayName(t, c, dimensions)
         isConstant == name = ArrayName(t, TRUE, dimensions)
     IN ArrayOf(t, isConstant, dimensions)]

InAnyOrder(S) == FoldSet(LAMBDA t, made : Append(made, t), <<>>, S)

Flat == ArraysOf({"A", "B", "E", Integer, "I", "D"}, 1) @@ ArraysOf({"A"}, 2)
Nested == ArraysOf({"A[]", "const A[]", "B[]", "const B[]", "const E[]"}, 1)

RelationProgram(finalA, finalB, ofA, ofB) ==
  [Program("I" :> Interface(<<>>) @@ "J" :> Interface(<<>>) @@ "E" :> Enum @@ "D" :> Delegate @@
          "A" :> [Class(Object) EXCEPT !.isFinal = finalA, !.interfaces = ofA] @@
          "B" :> [Class("A") EXCEPT !.isFinal = finalB, !.interfaces = ofB] @@
          Flat @@ Nested, {<<"I", "J", "E", "A", "B">>})
   EXCEPT !.arrays = InAnyOrder(DOMAIN Flat) \o InAnyOrder(DOMAIN Nested)]

Relations ==
  LET lists == {<<>>, <<Implement("I", 0)>>, <<Implement("I", 0), Implement("J", 0)>>}
  IN {RelationProgram(finalA, finalB, ofA, ofB) :
        finalA \in BOOLEAN, finalB \in BOOLEAN, ofA \in lists, ofB \in lists}

MCPrograms == Layouts \cup Refused \cup Virtuals \cup Relations
=============================================================================
