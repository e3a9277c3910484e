----------------------------- MODULE TextExport -----------------------------
(***************************************************************************)
(* Writing a text package (rdxc/rdx_emit.lua).                             *)
(*                                                                         *)
(* The compiler's symbols are a table from long names to symbols.  The     *)
(* symbols of a package are those of its namespaces and what they mention, *)
(* as far as that is of the namespaces or duplicable; what is mentioned    *)
(* and is neither is imported.  They are written in three passes, each in  *)
(* the order in which the table of the included symbols happens to be      *)
(* walked.                                                                 *)
(***************************************************************************)
EXTENDS Integers, Sequences, SequencesExt

CONSTANTS
  Decimal(_),        \* a number as a word
  Reserved           \* RDXT_RESERVED_SYMBOLS

Plain(w) == [quoted |-> FALSE, chars |-> <<w>>]
Words(ws) == [i \in DOMAIN ws |-> Plain(ws[i])]
Quote(chars) == [quoted |-> TRUE, chars |-> chars]
None == <<<<>>, <<>>>>
Meta(n) == <<<<"Core">>, <<"RDX." \o n>>>>
ArrayOf(g) == <<<<"#">>, <<g[1][1], g[2][1], "[C]">>>>
Sub(g, part) == <<g[1], Append(g[2], part)>>

encodeRes(g) == <<Quote(g[1]), Quote(g[2])>>
Resource(g) == IF g = None THEN Words(<<"null">>) ELSE <<Plain("res")>> \o encodeRes(g)
Listed(S) == FoldSet(LAMBDA x, listed : Append(listed, x), <<>>, S)
All(seq, Emit(_)) == FlattenSeq([i \in DOMAIN seq |-> Emit(seq[i])])
When(condition, tokens) == IF condition THEN tokens ELSE <<>>

Field(name, tokens) == Words(<<name, ":">>) \o tokens \o Words(<<",">>)
Braces(tokens) == Words(<<"{">>) \o tokens \o Words(<<"}">>)
Def(g, type, flags, counts, body) ==
  Words(<<"def">>) \o encodeRes(g) \o Words(flags) \o encodeRes(type)
    \o [i \in DOMAIN counts |-> Decimal(counts[i])] \o body
List(g, element, items, Emit(_)) ==
  Def(g, ArrayOf(element), <<>>, <<Len(items)>>, Braces(All(items, Emit)))

-----------------------------------------------------------------------------
(* The value of an initializer, and the name of a property before it: one  *)
(* that is a keyword of the file is quoted.                                *)
Label(name) == (IF name \in Reserved THEN <<Quote(<<name>>)>> ELSE Words(<<name>>)) \o Words(<<":">>)

RECURSIVE InitializationValue(_)
InitializationValue(v) ==
  CASE v[1] = "Number" -> <<Decimal(v[2])>>
    [] v[1] \in {"String", "Enum"} -> <<Quote(v[2])>>
    [] v[1] = "Resource" -> Resource(v[2])
    [] v[1] = "Array" ->
         Braces(FlattenSeq([i \in DOMAIN v[2] |->
           InitializationValue(v[2][i]) \o When(i # Len(v[2]), Words(<<",">>))]))
    [] v[1] = "Structure" ->
         Braces(FlattenSeq([i \in DOMAIN v[2] |->
           Label(v[2][i][1]) \o InitializationValue(v[2][i][2])
             \o When(i # Len(v[2]), Words(<<",">>))]))

(* What a symbol makes AddRelevantSymbol add, beside itself.               *)
RECURSIVE Resources(_)
Resources(v) ==
  CASE v[1] = "Resource" -> {v[2]}
    [] v[1] = "Array" -> UNION {Resources(v[2][i]) : i \in DOMAIN v[2]}
    [] v[1] = "Structure" -> UNION {Resources(v[2][i][2]) : i \in DOMAIN v[2]}
    [] OTHER -> {}

Storage(st) ==
  CASE st.declType = "struct" -> IF st.byVal THEN "SS_ValStruct" ELSE "SS_RefStruct"
    [] st.declType = "interface" -> "SS_Interface"
    [] st.declType = "class" -> "SS_Class"
    [] st.declType = "enum" -> "SS_Enum"

(* The list of interfaces, methods or properties that a type refers to: its *)
(* own, or that of the type whose list it takes as it is.                  *)
PartOf(list, owner, part) == IF list = <<>> THEN None ELSE Sub(owner, part)
Own(g, list, owner) == list # <<>> /\ owner = g

Code(m) ==
  IF m.instructions = <<>> THEN {}
  ELSE {ArrayOf(<<<<"Core">>, <<"byte">>>>), ArrayOf(<<<<"Core">>, <<"Object">>>>)} \cup ToSet(m.resources)

Mentions(g, s) ==
  CASE s.kind = "CStructuredType" ->
         {Meta("StructuredType"), s.baseClass, s.defaultValue,
          PartOf(s.interfaces, s.interfacesOwner, "interfaces"),
          PartOf(s.virtualMethods, s.vftOwner, "vft"),
          PartOf(s.properties, s.propertiesOwner, "properties")}
           \cup (IF Own(g, s.interfaces, s.interfacesOwner)
                 THEN {ArrayOf(Meta("InterfaceImplementation"))} \cup {i[1] : i \in ToSet(s.interfaces)}
                 ELSE {})
           \cup (IF Own(g, s.virtualMethods, s.vftOwner)
                 THEN {ArrayOf(Meta("Method"))} \cup ToSet(s.virtualMethods) ELSE {})
           \cup (IF Own(g, s.properties, s.propertiesOwner)
                 THEN {ArrayOf(Meta("Property"))} \cup {p[2] : p \in ToSet(s.properties)} ELSE {})
           \cup (IF s.declType = "enum" THEN {ArrayOf(Meta("Enumerant"))} ELSE {})
    [] s.kind = "CMethod" -> {s.parameters, s.returnTypes, Meta("Method")} \cup Code(s)
    [] s.kind = "CParameterList" ->
         {ArrayOf(Meta("MethodParameter"))} \cup {p[1] : p \in ToSet(s.parameters)}
    [] s.kind = "CTypeTuple" -> {ArrayOf(Meta("Type"))} \cup ToSet(s.types)
    [] s.kind \in {"CDefaultInstance", "CStaticInstance"} -> {s.typeOf} \cup Resources(s.value)
    [] s.kind = "CArrayOfType" -> {s.containedType, Meta("ArrayOfType")}
    [] s.kind = "CStaticDelegateType" -> {Meta("DelegateType"), s.parameters, s.returnTypes}
    [] s.kind = "CBoundDelegateType" ->
         {Meta("StructuredType"), ArrayOf(Meta("Method")), s.parameters, s.returnTypes}
    [] s.kind = "CBoundDelegateMarshal" ->
         {Meta("StructuredType"), ArrayOf(Meta("Method")), s.owner, s.parameters, s.returnTypes}
           \cup (IF s.thisType = None THEN {} ELSE {s.thisType, ArrayOf(Meta("Property"))})
           \cup Code(s)

-----------------------------------------------------------------------------
(* A flag is written only where it is set.                                 *)
Flag(name, flags) == When(name \in flags, Field(name, Words(<<"true">>)))

EmitInterfaces(g, st) ==
  List(Sub(g, "interfaces"), Meta("InterfaceImplementation"), st.interfaces,
       LAMBDA i : Braces(Field("type", Resource(i[1])) \o Field("vftOffset", <<Decimal(i[2] - 1)>>))
                    \o Words(<<",">>))

EmitProperties(g, st) ==
  List(Sub(g, "properties"), Meta("Property"), st.properties,
       LAMBDA p : Braces(Field("name", <<Quote(<<p[1]>>)>>) \o Flag("isConstant", p[3])
                           \o Field("type", Resource(p[2])) \o Flag("mustBeConstant", p[3]))
                    \o Words(<<",">>))

(* A parameter that is not null is constant, too.                          *)
EmitParameterList(g, pl) ==
  List(g, Meta("MethodParameter"), pl.parameters,
       LAMBDA p : Braces(Field("type", Resource(p[1])) \o Flag("isNotNull", p[2])
                           \o When(p[2] # {}, Field("isConstant", Words(<<"true">>))))
                    \o Words(<<",">>))

EmitEnumerants(g, st) ==
  List(Sub(g, "enumerants"), Meta("Enumerant"), st.enumerants,
       LAMBDA e : Braces(Field("name", <<Quote(<<e[1]>>)>>) \o Field("value", <<Decimal(e[2])>>))
                    \o Words(<<",">>))

EmitVFT(g, st) ==
  List(Sub(g, "vft"), Meta("Method"), st.virtualMethods, LAMBDA m : Resource(m) \o Words(<<",">>))

EmitStructuredType(g, st, pass) ==
  When(pass = 1,
    Def(g, Meta("StructuredType"), <<>>, <<1>>,
        Words(<<"defaultValue", ":">>) \o Resource(st.defaultValue)
          \o Braces(Field("parentClass", Resource(st.baseClass))
                      \o Field("storageSpecifier", <<Quote(<<Storage(st)>>)>>)
                      \o Field("enumerants", Resource(IF st.declType = "enum"
                                                      THEN Sub(g, "enumerants") ELSE None))
                      \o Field("interfaces", Resource(PartOf(st.interfaces, st.interfacesOwner, "interfaces")))
                      \o Field("virtualMethods", Resource(PartOf(st.virtualMethods, st.vftOwner, "vft")))
                      \o Field("properties", Resource(PartOf(st.properties, st.propertiesOwner, "properties")))
                      \o Flag("isFinal", st.flags) \o Flag("isAbstract", st.flags)
                      \o Flag("isLocalized", st.flags))))
  \o When(pass = 2 /\ Own(g, st.interfaces, st.interfacesOwner), EmitInterfaces(g, st))
  \o When(pass = 2 /\ Own(g, st.virtualMethods, st.vftOwner), EmitVFT(g, st))
  \o When(pass = 1 /\ Own(g, st.properties, st.propertiesOwner), EmitProperties(g, st))
  \o When(pass = 1 /\ st.declType = "enum", EmitEnumerants(g, st))

(* The code of a method, and what its instructions refer to.  Debugging    *)
(* information is left out.                                                *)
EmitInstructions(g, m) ==
  List(Sub(g, "bytecode"), <<<<"Core">>, <<"byte">>>>, m.instructions,
       LAMBDA b : <<Decimal(b)>> \o Words(<<",">>))
  \o When(m.resources # <<>>, List(Sub(g, "resArgs"), <<<<"Core">>, <<"Object">>>>, m.resources,
                                   LAMBDA r : Resource(r) \o Words(<<",">>)))

ResArgs(g, m) ==
  When(m.instructions # <<>> /\ m.resources # <<>>, Field("resArgs", Resource(Sub(g, "resArgs"))))

EmitMethod(g, m) ==
  LET known == m.instructions # <<>>
  IN When(known, EmitInstructions(g, m))
     \o Def(g, Meta("Method"), <<>>, <<1>>,
            Braces(Field("parameters", Resource(m.parameters))
                     \o Field("returnTypes", Resource(m.returnTypes))
                     \o When(m.vftIndex # 0, Field("vftIndex", <<Decimal(m.vftIndex)>>))
                     \o When(m.thisParameterOffset # 0,
                             Field("thisParameterOffset", <<Decimal(m.thisParameterOffset)>>))
                     \o Field("bytecode", Resource(IF known THEN Sub(g, "bytecode") ELSE None))
                     \o When(known, Field("numInstructions", <<Decimal(Len(m.instructions))>>))
                     \o Flag("isAbstract", m.flags)
                     \o ResArgs(g, m)))

(* A type, its table and its method, with no default value.                *)
EmitBoundDelegateType(g, t) ==
  Def(g, Meta("StructuredType"), <<>>, <<1>>,
      Braces(Field("storageSpecifier", <<Quote(<<"SS_Class">>)>>)
               \o Field("virtualMethods", Resource(Sub(g, "vft")))
               \o Field("isAbstract", Words(<<"true">>))))
  \o List(Sub(g, "vft"), Meta("Method"), <<t.invoke>>, Resource)
  \o Def(t.invoke, Meta("Method"), <<>>, <<1>>,
         Braces(Field("parameters", Resource(t.parameters))
                  \o Field("returnTypes", Resource(t.returnTypes))
                  \o Field("vftIndex", <<Decimal(1)>>)
                  \o Field("thisParameterOffset", <<Decimal(1)>>)
                  \o Field("isAbstract", Words(<<"true">>))))

(* What makes a method, or a delegate, a bound delegate: a class of its    *)
(* own with the value it is bound to, if any, and the method that calls.   *)
EmitBoundDelegateMarshal(g, ma) ==
  Def(g, Meta("StructuredType"), <<>>, <<1>>,
      Braces(Field("parentClass", Resource(ma.owner))
               \o Field("storageSpecifier", <<Quote(<<"SS_Class">>)>>)
               \o Field("virtualMethods", Resource(Sub(g, "vft")))
               \o When(ma.thisType # None, Field("properties", Resource(Sub(g, "properties"))))
               \o Field("isFinal", Words(<<"true">>))))
  \o List(Sub(g, "vft"), Meta("Method"), <<ma.invoke>>, LAMBDA m : Resource(m) \o Words(<<",">>))
  \o When(ma.thisType # None,
          List(Sub(g, "properties"), Meta("Property"), <<ma.thisType>>,
               LAMBDA t : Braces(Field("name", <<Quote(<<".DelegateValue">>)>>)
                                   \o Field("type", Resource(t)))))
  \o EmitInstructions(ma.invoke, ma)
  \o Def(ma.invoke, Meta("Method"), <<>>, <<1>>,
         Braces(Field("parameters", Resource(ma.parameters))
                  \o Field("returnTypes", Resource(ma.returnTypes))
                  \o Field("numInstructions", <<Decimal(Len(ma.instructions))>>)
                  \o Field("bytecode", Resource(Sub(ma.invoke, "bytecode")))
                  \o Field("vftIndex", <<Decimal(1)>>)
                  \o Field("thisParameterOffset", <<Decimal(1)>>)
                  \o ResArgs(ma.invoke, ma)))

(* The number of elements, and the dimensions if there is more than one.   *)
Counts(dimensions) ==
  LET total == FoldSeq(LAMBDA d, n : d * n, 1, dimensions)
  IN When(Len(dimensions) # 1, <<total>>) \o dimensions

Anonymous(g, i) == i.isAnonymous /\ g[1] # <<"#">>

EmitDefaultInstance(g, di) ==
  Def(g, di.typeOf, When(Anonymous(g, di), <<"anonymous", "cloaked">>),
      Counts(di.dimensions), InitializationValue(di.value))

(* Without an initializer, the braces of an empty structure.               *)
EmitStaticInstance(g, si) ==
  Def(g, si.typeOf, When(Anonymous(g, si), <<"anonymous">>) \o When(si.isConst, <<"const">>),
      Counts(si.dimensions), InitializationValue(si.value))

EmitSymbol(g, s, pass) ==
  CASE s.kind = "CStructuredType" /\ pass \in {1, 2} -> EmitStructuredType(g, s, pass)
    [] s.kind = "CMethod" /\ pass = 3 -> EmitMethod(g, s)
    [] s.kind = "CParameterList" /\ pass = 3 -> EmitParameterList(g, s)
    [] s.kind = "CTypeTuple" /\ pass = 3 ->
         List(g, Meta("Type"), s.types, LAMBDA t : Resource(t) \o Words(<<",">>))
    [] s.kind = "CDefaultInstance" /\ pass = 3 -> EmitDefaultInstance(g, s)
    [] s.kind = "CStaticInstance" /\ pass = 3 -> EmitStaticInstance(g, s)
    [] s.kind = "CArrayOfType" /\ pass = 1 ->
         Words(<<"arraydef">>) \o encodeRes(g) \o encodeRes(s.containedType)
           \o When(s.isConst, Words(<<"const">>)) \o <<Decimal(s.dimensions)>>
    [] s.kind = "CStaticDelegateType" /\ pass = 1 ->
         Def(g, Meta("DelegateType"), <<>>, <<1>>,
             Braces(Field("parameters", Resource(s.parameters))
                      \o Field("returnTypes", Resource(s.returnTypes))))
    [] s.kind = "CBoundDelegateType" /\ pass = 1 -> EmitBoundDelegateType(g, s)
    [] s.kind = "CBoundDelegateMarshal" /\ pass = 1 -> EmitBoundDelegateMarshal(g, s)
    [] OTHER -> <<>>

-----------------------------------------------------------------------------
(* Parts of a symbol have names of their own that the table does not hold. *)
SymbolIsRelevant(g, namespace) == g[1] \in {<<"#">>, <<namespace>>}

(* The symbols that are marked: those of the namespace and what the        *)
(* relevant ones mention, ForceEmitArrayOfType's array types among them.   *)
Marked(gst, namespace) ==
  LET Added(S) == UNION {Mentions(g, gst[g]) : g \in {h \in S \cap DOMAIN gst :
                                                        SymbolIsRelevant(h, namespace)}} \ {None}
      marked[k \in 0..Cardinality(DOMAIN gst)] ==
        IF k = 0 THEN {g \in DOMAIN gst : g[1] = <<namespace>>}
        ELSE LET before == marked[k - 1] IN before \cup Added(before)
  IN marked[Cardinality(DOMAIN gst)]

(* ForceEmitArrayOfType: the array types of what types consist of.         *)
MetaArrays ==
  LET elements == {Meta(n) : n \in {"Property", "Enumerant", "Method", "MethodParameter", "Type",
                                     "InterfaceImplementation"}}
                    \cup {<<<<"Core">>, <<"byte">>>>, <<<<"Core">>, <<"Object">>>>}
  IN [a \in {ArrayOf(e) : e \in elements} |->
        [kind |-> "CArrayOfType", containedType |-> CHOOSE e \in elements : ArrayOf(e) = a,
         dimensions |-> 1, isConst |-> TRUE]]

Included(gst, namespace) ==
  {g \in Marked(gst, namespace) \cap DOMAIN gst : SymbolIsRelevant(g, namespace)}
Imported(gst, namespace) ==
  {g \in Marked(gst, namespace) : ~SymbolIsRelevant(g, namespace)}

Export(gst, namespace, order) ==
  All(Listed(Imported(gst, namespace)), LAMBDA g : Words(<<"import">>) \o encodeRes(g))
    \o FlattenSeq([pass \in 1..3 |-> All(order, LAMBDA g : EmitSymbol(g, gst[g], pass))])
=============================================================================
