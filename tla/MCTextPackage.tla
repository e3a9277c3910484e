---------------------------- MODULE MCTextPackage ----------------------------
(* Small programs, written in several orders, cut and with names doubled.  *)
EXTENDS Integers, Sequences, FiniteSets, TLC, SequencesExt

CONSTANTS DepthBound, ErrorBound, Flavour

VARIABLES pc, package, cursor, localResources, importedResources, arrayDefs,
          numResources, numImports, numArrayDefs, pkg, objects, last, progress, errors, clean

MCDigits == [w \in {<<"0">>, <<"1">>, <<"2">>, <<"3">>} |->
               CASE w = <<"0">> -> 0 [] w = <<"1">> -> 1 [] w = <<"2">> -> 2 [] w = <<"3">> -> 3]
MCReserved == {"def", "import", "null", "res", "string", "enum"}
MCDecimal(n) == [quoted |-> FALSE, chars |-> CHOOSE w \in DOMAIN MCDigits : MCDigits[w] = n]

E == INSTANCE TextExport WITH Decimal <- MCDecimal, Reserved <- MCReserved

CoreName(n) == <<<<"Core">>, <<n>>>>
K(g) == <<"Known", g>>
P(name, g) == [name |-> <<name>>, type |-> K(g)]

Tuple(n) == <<<<"#">>, <<"TT-(" \o n \o ")">>>>
List(n) == <<<<"#">>, <<"PL-(" \o n \o ")">>>>

-----------------------------------------------------------------------------
(* What the core package defines.                                          *)
Plain == [type |-> E!Meta("StructuredType"), form |-> "structure", byRef |-> FALSE,
          serializer |-> "none", isAbstract |-> FALSE, properties |-> <<>>, enumerants |-> {},
          of |-> <<"Null", 0>>, dimensions |-> 0, parents |-> {}, urgency |-> "later", default |-> <<"Null", 0>>]
OfClass == [Plain EXCEPT !.byRef = TRUE, !.parents = {CoreName("Object")}]
OfType == [OfClass EXCEPT !.parents = {E!Meta("Type"), CoreName("Object")}, !.urgency = "critical"]
Simple(f) == [Plain EXCEPT !.form = f]
ArrayLayout(e) ==
  [OfClass EXCEPT !.type = E!Meta("ArrayOfType"), !.form = "array", !.of = K(e), !.dimensions = 1,
    !.urgency = CASE e \in {E!Meta(n) : n \in {"Property", "Enumerant", "MethodParameter",
                                                      "InterfaceImplementation"}} -> "critical"
                  [] e = E!Meta("Method") -> "border"
                  [] OTHER -> "later"]

MetaElements == {E!Meta(n) : n \in {"Property", "Enumerant", "Method", "MethodParameter", "Type",
                                    "InterfaceImplementation"}}
              \cup {CoreName("byte"), CoreName("Object")}

MCLayouts ==
  (CoreName("int") :> Simple("number")) @@ (CoreName("byte") :> Simple("number"))
  @@ (CoreName("bool") :> Simple("bool"))
  @@ (CoreName("Object") :> [OfClass EXCEPT !.parents = {}])
  @@ (CoreName("string") :> [OfClass EXCEPT !.form = "string"])
  @@ (E!Meta("Type") :> OfClass) @@ (E!Meta("ArrayOfType") :> OfType)
  @@ (E!Meta("StorageSpecifier") :>
        [Plain EXCEPT !.form = "enum",
                      !.enumerants = {<<"SS_Class">>, <<"SS_RefStruct">>, <<"SS_ValStruct">>,
                                      <<"SS_Enum">>, <<"SS_Interface">>}])
  @@ (E!Meta("StructuredType") :>
        [OfType EXCEPT !.serializer = "type",
           !.properties = <<P("parentClass", E!Meta("StructuredType")),
             P("storageSpecifier", E!Meta("StorageSpecifier")),
             P("enumerants", E!ArrayOf(E!Meta("Enumerant"))),
             P("interfaces", E!ArrayOf(E!Meta("InterfaceImplementation"))),
             P("virtualMethods", E!ArrayOf(E!Meta("Method"))),
             P("properties", E!ArrayOf(E!Meta("Property"))), P("isFinal", CoreName("bool")),
             P("isAbstract", CoreName("bool")), P("isLocalized", CoreName("bool"))>>])
  @@ (E!Meta("DelegateType") :>
        [OfType EXCEPT !.properties = <<P("parameters", E!ArrayOf(E!Meta("MethodParameter"))),
                                        P("returnTypes", E!ArrayOf(E!Meta("Type")))>>])
  @@ (E!Meta("Property") :>
        [Plain EXCEPT !.properties = <<P("name", CoreName("string")), P("type", E!Meta("Type")),
           P("isConstant", CoreName("bool")), P("mustBeConstant", CoreName("bool"))>>])
  @@ (E!Meta("InterfaceImplementation") :>
        [Plain EXCEPT !.properties = <<P("type", E!Meta("StructuredType")), P("vftOffset", CoreName("int"))>>])
  @@ (E!Meta("Enumerant") :>
        [Plain EXCEPT !.properties = <<P("name", CoreName("string")), P("value", CoreName("int"))>>])
  @@ (E!Meta("MethodParameter") :> [Plain EXCEPT !.properties =
           <<P("type", E!Meta("Type")), P("isConstant", CoreName("bool")), P("isNotNull", CoreName("bool"))>>])
  @@ (E!Meta("Method") :>
        [OfClass EXCEPT !.properties = <<P("parameters", E!ArrayOf(E!Meta("MethodParameter"))),
           P("returnTypes", E!ArrayOf(E!Meta("Type"))), P("vftIndex", CoreName("int")),
           P("thisParameterOffset", CoreName("int")), P("bytecode", E!ArrayOf(CoreName("byte"))),
           P("numInstructions", CoreName("int")), P("isAbstract", CoreName("bool")),
           P("resArgs", E!ArrayOf(CoreName("Object")))>>])
  @@ (CoreName("Shape") :> [OfClass EXCEPT !.properties = <<P("x", CoreName("int"))>>])
  @@ (E!Sub(CoreName("Shape"), "properties") :>
        [OfClass EXCEPT !.type = E!ArrayOf(E!Meta("Property")), !.properties = <<P("x", CoreName("int"))>>])
  @@ (Tuple("int") :> [OfClass EXCEPT !.type = E!ArrayOf(E!Meta("Type"))])
  @@ [a \in {E!ArrayOf(e) : e \in MetaElements} |-> ArrayLayout(CHOOSE e \in MetaElements : E!ArrayOf(e) = a)]

-----------------------------------------------------------------------------
(* Programs.                                                               *)
App(n) == <<<<"App">>, <<n>>>>
Struct == [kind |-> "CStructuredType", declType |-> "struct", byVal |-> TRUE, baseClass |-> E!None,
           interfaces |-> <<>>, properties |-> <<>>, virtualMethods |-> <<>>, enumerants |-> <<>>,
           interfacesOwner |-> E!None, vftOwner |-> E!None, propertiesOwner |-> E!None,
           defaultValue |-> E!None, flags |-> {}]
Method == [kind |-> "CMethod", parameters |-> List(""), returnTypes |-> Tuple("int"), vftIndex |-> 0,
           thisParameterOffset |-> 0, instructions |-> <<>>, resources |-> <<>>, flags |-> {}]
Instance == [kind |-> "CStaticInstance", typeOf |-> E!None, isAnonymous |-> FALSE, isConst |-> FALSE,
             dimensions |-> <<>>, value |-> <<"Structure", <<>>>>]
N(n) == <<"Number", n>>
IntProperty(name, flags) == <<name, CoreName("int"), flags>>
Grid == <<<<"#">>, <<"Core.int[,]">>>>
Points == <<<<"#">>, <<"App.Point[]">>>>

(* Types by value and by reference, and static instances of them, named    *)
(* and anonymous, in an array, and in a grid of two dimensions.            *)
Values ==
  (App("Point") :>
     [Struct EXCEPT !.properties = <<IntProperty("x", {}), IntProperty("def", {"isConstant"})>>,
                    !.propertiesOwner = App("Point"), !.byVal = FALSE])
  @@ (App("origin") :>
        [Instance EXCEPT !.typeOf = App("Point"), !.isConst = TRUE,
                         !.value = <<"Structure", << <<"def", N(2)>>, <<"x", N(1)>> >>>>])
  @@ (App("nowhere") :> [Instance EXCEPT !.typeOf = App("Point"), !.isAnonymous = TRUE])
  @@ (Points :> [kind |-> "CArrayOfType", containedType |-> App("Point"), dimensions |-> 1,
                 isConst |-> FALSE])
  @@ (App("points") :>
        [Instance EXCEPT !.typeOf = Points, !.dimensions = <<2>>,
           !.value = <<"Array", << <<"Structure", << <<"x", N(3)>> >> >>, <<"Structure", <<>> >> >> >>])
  @@ (Grid :> [kind |-> "CArrayOfType", containedType |-> CoreName("int"), dimensions |-> 2,
               isConst |-> FALSE])
  @@ (App("grid") :>
        [Instance EXCEPT !.typeOf = Grid, !.dimensions = <<1, 3>>,
                         !.value = <<"Array", <<N(1), N(0), N(2)>> >>])

(* Classes: properties of a class elsewhere, an interface, a derived class *)
(* with the same lists, an enum, methods with code and without.            *)
Classes ==
  (App("Circle") :>
     [Struct EXCEPT !.declType = "class", !.baseClass = CoreName("Shape"), !.flags = {"isAbstract"},
        !.interfaces = << <<App("Drawable"), 1>> >>, !.interfacesOwner = App("Circle"),
        !.properties = <<IntProperty("x", {})>>, !.propertiesOwner = CoreName("Shape"),
        !.virtualMethods = <<App("draw")>>, !.vftOwner = App("Circle")])
  @@ (App("Disc") :>
        [Struct EXCEPT !.declType = "class", !.baseClass = App("Circle"),
           !.flags = {"isFinal", "isLocalized"},
           !.interfaces = << <<App("Drawable"), 1>> >>, !.interfacesOwner = App("Circle"),
           !.properties = <<IntProperty("x", {}), IntProperty("y", {"isConstant", "mustBeConstant"})>>,
           !.propertiesOwner = App("Disc"),
           !.virtualMethods = <<App("draw")>>, !.vftOwner = App("Circle")])
  @@ (App("Drawable") :>
        [Struct EXCEPT !.declType = "interface", !.virtualMethods = <<App("show")>>,
                       !.vftOwner = App("Drawable")])
  @@ (App("Colour") :>
        [Struct EXCEPT !.declType = "enum", !.enumerants = << <<"red", 0>>, <<"def", 1>> >>])
  @@ (App("show") :> [Method EXCEPT !.vftIndex = 1, !.thisParameterOffset = 1, !.flags = {"isAbstract"},
                                    !.returnTypes = Tuple("Colour")])
  @@ (App("draw") :>
        [Method EXCEPT !.parameters = List("Circle"), !.returnTypes = Tuple("Colour"), !.vftIndex = 1,
           !.thisParameterOffset = 1, !.instructions = <<2, 0>>, !.resources = <<App("Colour"), E!None>>])
  @@ (List("Circle") :>
        [kind |-> "CParameterList",
         parameters |-> << <<App("Circle"), {"isNotNull"}>>, <<App("Colour"), {"isConst"}>>,
                           <<CoreName("int"), {}>> >>])
  @@ (List("") :> [kind |-> "CParameterList", parameters |-> <<>>])
  @@ (Tuple("Colour") :> [kind |-> "CTypeTuple", types |-> <<App("Colour"), CoreName("int")>>])

(* A method, the type of its delegates, a structure with such a delegate   *)
(* and an instance of that.  The core package has one of the tuples.       *)
Sketch(results) ==
  (App("dab") :> [Method EXCEPT !.returnTypes = results])
  @@ (List("") :> [kind |-> "CParameterList", parameters |-> <<>>])
  @@ (results :> [kind |-> "CTypeTuple", types |-> <<CoreName("int")>>])
  @@ (<<<<"#">>, <<"DS">>>> :> [kind |-> "CStaticDelegateType", parameters |-> List(""),
                                returnTypes |-> results])
  @@ (App("Brush") :>
        [Struct EXCEPT !.properties = << <<"stroke", <<<<"#">>, <<"DS">>>>, {}>> >>,
                       !.propertiesOwner = App("Brush")])
  @@ (App("brush") :>
        [Instance EXCEPT !.typeOf = App("Brush"),
                         !.value = <<"Structure", << <<"stroke", <<"Resource", App("dab")>> >> >>>>])

(* A value type with a default value, whose loading never ends.            *)
Defaulted ==
  (App("Unit") :>
     [Struct EXCEPT !.properties = <<IntProperty("x", {})>>, !.propertiesOwner = App("Unit"),
                    !.defaultValue = E!Sub(App("Unit"), "default")])
  @@ (E!Sub(App("Unit"), "default") :>
        [kind |-> "CDefaultInstance", typeOf |-> App("Unit"), isAnonymous |-> FALSE,
         dimensions |-> <<>>, value |-> <<"Structure", << <<"x", N(1)>> >>>>])

(* A bound delegate type and its marshal, as TestBoundDelegates has them.  *)
Bound == <<<<"#">>, <<"DB">>>>
Delegates ==
  (App("fire") :> [Method EXCEPT !.instructions = <<1>>, !.resources = <<E!Sub(Bound, "glue")>>])
  @@ (Bound :> [kind |-> "CBoundDelegateType", invoke |-> E!Sub(Bound, "invoke"),
                parameters |-> List("DB"), returnTypes |-> Tuple("int")])
  @@ (E!Sub(Bound, "glue") :>
        [kind |-> "CBoundDelegateMarshal", owner |-> Bound, invoke |-> E!Sub(Bound, "glueInvoke"),
         thisType |-> CoreName("Shape"), parameters |-> List("glue"), returnTypes |-> Tuple("int"),
         instructions |-> <<2, 1>>, resources |-> <<CoreName("Shape")>>])
  @@ [l \in {List(""), List("DB"), List("glue")} |->
        [kind |-> "CParameterList",
         parameters |-> CASE l = List("") -> <<>>
                          [] l = List("DB") -> << <<Bound, {"isNotNull"}>> >>
                          [] l = List("glue") -> << <<E!Sub(Bound, "glue"), {"isNotNull"}>> >>]]
  @@ (Tuple("int") :> [kind |-> "CTypeTuple", types |-> <<CoreName("int")>>])

-----------------------------------------------------------------------------
(* The orders: every rotation of one order, and of that order reversed.    *)
Rotations(s) == {SubSeq(s, k, Len(s)) \o SubSeq(s, 1, k - 1) : k \in DOMAIN s}
Orders(S) == LET s == E!Listed(S) IN Rotations(s) \cup Rotations(Reverse(s))

Written(program) ==
  LET gst == program @@ E!MetaArrays
      in == E!Included(gst, "App")
  IN {[kind |-> "written", domain |-> "App", symbols |-> [g \in in |-> gst[g]],
       tokens |-> E!Export(gst, "App", order)] : order \in Orders(in)}

AFile == CHOOSE f \in Written(Values) : TRUE
Spoiled(kind, tokens) == [kind |-> kind, domain |-> "App", symbols |-> <<>>, tokens |-> tokens]
Starts(t) == {c \in DOMAIN t : t[c] \in {E!Plain(w) : w \in {"def", "import", "arraydef"}}}
Cut == {Spoiled("cut", SubSeq(AFile.tokens, 1, c - 1)) :
          c \in (2..Len(AFile.tokens)) \ Starts(AFile.tokens)}
Doubled ==
  LET t == AFile.tokens
      ends == Starts(t) \cup {Len(t) + 1}
      Definition(c) == SubSeq(t, c, (CHOOSE e \in ends : e > c /\ \A f \in ends : f > c => e <= f) - 1)
  IN {Spoiled("doubled", t \o Definition(c)) : c \in Starts(t)}

MCPackages == IF Flavour = "delegates" THEN Written(Delegates)
              ELSE Written(Values) \cup Written(Classes) \cup Written(Sketch(Tuple("int")))
                     \cup Written(Sketch(Tuple("own"))) \cup Written(Defaulted) \cup Cut \cup Doubled

INSTANCE TextRoundTrip WITH Packages <- MCPackages, Layouts <- MCLayouts, Digits <- MCDigits,
                            Stale <- {0, 1}, MaxDepth <- DepthBound, MaxErrors <- ErrorBound
=============================================================================
