---------------------------- MODULE TextRoundTrip ----------------------------
(***************************************************************************)
(* What the compiler writes (TextExport) and the runtime reads             *)
(* (TextPackage), and what holds of the two together.  A package carries   *)
(* the symbols it was written from, none if it is a file that was cut or   *)
(* that defines a name twice.                                              *)
(***************************************************************************)
EXTENDS TextPackage

(* A reference of the manifest by name.                                    *)
Named(v) ==
  CASE v[1] = "Local" -> pkg.locals[v[2]].guid
    [] v[1] = "Imported" -> pkg.imports[v[2]]
    [] v[1] = "Array" -> pkg.arrays[v[2]].guid
    [] OTHER -> NoGUID

(* Where a symbol is, by its name or by the one that it has as an anonymous *)
(* one.                                                                    *)
IndexOf(g) == CHOOSE i \in DOMAIN pkg.locals : pkg.locals[i].guid \in {g, GUID(<<"Runtime">>, g[2])}
Items(i, a) ==
  IF Attribute(i, a)[1] = "Local" THEN Elements(Attribute(i, a)) ELSE <<>>

FlagsRead(fields, names) == {a \in names \cap DOMAIN fields : fields[a] = Number(1)}

(* A list that the type has for its own is read as written, and one of     *)
(* another type by its name.                                               *)
ListRead(i, attribute, list, part, own, g, Read(_)) ==
  /\ Named(Attribute(i, attribute)) = part
  /\ own = g => [k \in DOMAIN Items(i, attribute) |-> Read(Items(i, attribute)[k])] = list

TypeRead(g, st) ==
  LET i == IndexOf(g)
      Part(list, owner, part) == IF list = <<>> THEN NoGUID ELSE GUID(owner[1], Append(owner[2], part))
      Enums == Items(i, "enumerants")
  IN /\ Named(Attribute(i, "parentClass")) = st.baseClass
     /\ Named(Attribute(i, "defaultValue")) = st.defaultValue
     /\ Attribute(i, "storageSpecifier")[2] =
          CASE st.declType = "class" -> "SS_Class" [] st.declType = "enum" -> "SS_Enum"
            [] st.declType = "interface" -> "SS_Interface"
            [] st.declType = "struct" -> IF st.byVal THEN "SS_ValStruct" ELSE "SS_RefStruct"
     /\ FlagsRead(objects[i][2], {"isFinal", "isAbstract", "isLocalized"}) = st.flags
     /\ ListRead(i, "interfaces", st.interfaces,
                 Part(st.interfaces, st.interfacesOwner, "interfaces"), st.interfacesOwner, g,
                 LAMBDA e : <<Named(e[2]["type"]), e[2]["vftOffset"][2] + 1>>)
     /\ ListRead(i, "virtualMethods", st.virtualMethods,
                 Part(st.virtualMethods, st.vftOwner, "vft"), st.vftOwner, g, Named)
     /\ ListRead(i, "properties", st.properties,
                 Part(st.properties, st.propertiesOwner, "properties"), st.propertiesOwner, g,
                 LAMBDA e : <<e[2]["name"][2][1], Named(e[2]["type"]),
                              FlagsRead(e[2], {"isConstant", "mustBeConstant"})>>)
     /\ [k \in DOMAIN Enums |-> <<Enums[k][2]["name"][2][1], Enums[k][2]["value"][2]>>] = st.enumerants

(* A delegate type is read before the array of its return types is there,  *)
(* unless another package has it: then they are read as null.              *)
DelegateRead(g, dt) ==
  LET i == IndexOf(g) IN
  /\ Named(Attribute(i, "parameters")) = dt.parameters
  /\ Named(Attribute(i, "returnTypes")) =
       IF dt.returnTypes \in DOMAIN Layouts THEN dt.returnTypes ELSE NoGUID

MethodRead(g, me) ==
  LET i == IndexOf(g) IN
  /\ Named(Attribute(i, "parameters")) = me.parameters
  /\ Named(Attribute(i, "returnTypes")) = me.returnTypes
  /\ Attribute(i, "vftIndex") = IF me.vftIndex = 0 THEN Null ELSE Number(me.vftIndex)
  /\ Attribute(i, "thisParameterOffset") =
       IF me.thisParameterOffset = 0 THEN Null ELSE Number(me.thisParameterOffset)
  /\ FlagsRead(objects[i][2], {"isAbstract"}) = me.flags
  /\ [k \in DOMAIN Items(i, "bytecode") |-> Items(i, "bytecode")[k][2]] = me.instructions
  /\ [k \in DOMAIN Items(i, "resArgs") |-> Named(Items(i, "resArgs")[k])] = me.resources

(* The value of an initializer as it is read: a structure by its fields.   *)
RECURSIVE Same(_, _)
Same(read, written) ==
  CASE written[1] = "Resource" -> Named(read) = written[2]
    [] written[1] = "Enum" -> read = <<"Enum", written[2][1]>>
    [] written[1] = "Array" ->
         /\ Len(read[2]) = Len(written[2])
         /\ \A k \in DOMAIN written[2] : Same(read[2][k], written[2][k])
    [] written[1] = "Structure" ->
         /\ DOMAIN read[2] = {written[2][k][1] : k \in DOMAIN written[2]}
         /\ \A k \in DOMAIN written[2] : Same(read[2][written[2][k][1]], written[2][k][2])
    [] OTHER -> read = written

SymbolRead(g, s) ==
  CASE s.kind = "CStructuredType" -> TypeRead(g, s)
    [] s.kind = "CMethod" -> MethodRead(g, s)
    [] s.kind = "CStaticDelegateType" -> DelegateRead(g, s)
    [] s.kind = "CParameterList" ->
         LET l == objects[IndexOf(g)][2]
         IN [k \in DOMAIN l |-> <<Named(l[k][2]["type"]), FlagsRead(l[k][2], {"isNotNull"}),
                                  FlagsRead(l[k][2], {"isConstant"})>>]
              = [k \in DOMAIN s.parameters |->
                   <<s.parameters[k][1], s.parameters[k][2] \cap {"isNotNull"},
                     IF s.parameters[k][2] = {} THEN {} ELSE {"isConstant"}>>]
    [] s.kind = "CTypeTuple" -> Duplicate(IndexOf(g)) \/
         LET l == objects[IndexOf(g)][2] IN [k \in DOMAIN l |-> Named(l[k])] = s.types
    [] s.kind = "CDefaultInstance" -> Same(objects[IndexOf(g)], s.value)
    [] s.kind = "CStaticInstance" ->
         /\ ("const" \in pkg.locals[IndexOf(g)].flags) = s.isConst
         /\ (pkg.locals[IndexOf(g)].guid = g) = ~s.isAnonymous
         /\ Same(objects[IndexOf(g)], s.value)
    [] s.kind = "CArrayOfType" ->
         \E i \in DOMAIN pkg.arrays :
           /\ pkg.arrays[i].guid = g /\ Named(pkg.arrays[i].of) = s.containedType
           /\ pkg.arrays[i].const = s.isConst /\ pkg.arrays[i].dimensions = s.dimensions
    [] OTHER -> IndexOf(g) \in DOMAIN objects

-----------------------------------------------------------------------------
Refused == pc \in {"failed", "unparsed", "broken"}
Whole == package.kind = "written"

RECURSIVE Delegated(_)
Delegated(v) ==
  CASE v[1] = "Resource" -> {v[2]}
    [] v[1] = "Array" -> UNION {Delegated(v[2][k]) : k \in DOMAIN v[2]}
    [] v[1] = "Structure" -> UNION {Delegated(v[2][k][2]) : k \in DOMAIN v[2]}
    [] OTHER -> {}

(* The symbol being read has a delegate of a method, and the method was    *)
(* not read yet or the delegate type has lost its return types.            *)
DelegateRefused ==
  \E g, m \in DOMAIN package.symbols :
    /\ package.symbols[g].kind \in {"CDefaultInstance", "CStaticInstance"}
    /\ package.symbols[m].kind = "CMethod" /\ m \in Delegated(package.symbols[g].value)
    /\ pc = "failed" /\ last + 1 = IndexOf(g)
    /\ \/ IndexOf(m) \notin DOMAIN objects
       \/ package.symbols[m].returnTypes \notin DOMAIN Layouts

(* A package that the compiler wrote is read, in whatever order its        *)
(* symbols came and whatever packages were read before it, if the manifest *)
(* of the last one had no error; and every type, method and value in it is *)
(* the one it was written from: the writer's names, passes, commas, counts *)
(* and quotes against the scan, the tables and the value parser.  The      *)
(* programs have no bound delegates, for which this is refuted, and their  *)
(* anonymous instances refer to no other symbol of the package, whose name *)
(* would not be found.  Two more misreadings are known and stated as       *)
(* they are (DelegateRefused, DelegateRead): the return types of a         *)
(* delegate type are null if no package before has their tuple, and where  *)
(* an initializer makes such a delegate, or one of a method that was not   *)
(* read yet, the package is refused.                                       *)
WrittenIsRead ==
  clean /\ Whole =>
    /\ Refused => DelegateRefused
    /\ pc = "done" => \A g \in DOMAIN package.symbols : SymbolRead(g, package.symbols[g])

(* Refuted by a delegate that comes before its method.                     *)
WrittenIsLoaded == clean /\ Whole => ~Refused

(* The definition at c of the file is that of a local symbol: its name and *)
(* its type, and its text begins after them.                               *)
DefinesLocal(c, l) ==
  /\ Check(c, "def") /\ Name(c + 1) = l.guid /\ l.at > c + 5
  /\ Tokens[l.at - 3].quoted /\ Name(l.at - 3) = l.typeGUID
  /\ \A d \in c + 3..l.at - 4 : ~Tokens[d].quoted
DefinesArray(c, a) ==
  Check(c, "arraydef") /\ Name(c + 1) = a.guid /\ Name(c + 3) = a.ofGUID
DefinesImport(c, g) == Check(c, "import") /\ Name(c + 1) = g

ManifestMatchesTheFile ==
  /\ pc # "broken"
  /\ pc = "resolve" =>
       /\ \A i \in DOMAIN pkg.locals :
            pkg.locals[i] # NoLocal => \E c \in DOMAIN Tokens : DefinesLocal(c, pkg.locals[i])
       /\ \A i \in DOMAIN pkg.arrays :
            pkg.arrays[i] # NoArray => \E c \in DOMAIN Tokens : DefinesArray(c, pkg.arrays[i])
       /\ \A i \in DOMAIN pkg.imports :
            pkg.imports[i] # NoGUID => \E c \in DOMAIN Tokens : DefinesImport(c, pkg.imports[i])
       /\ \A c \in DOMAIN Tokens :
            /\ Check(c, "def") => \E i \in DOMAIN pkg.locals : pkg.locals[i].guid = Name(c + 1)
            /\ Check(c, "arraydef") => \E i \in DOMAIN pkg.arrays : DefinesArray(c, pkg.arrays[i])
            /\ Check(c, "import") => \E i \in DOMAIN pkg.imports : DefinesImport(c, pkg.imports[i])

(* The tables are shared by all parses.  A manifest is of its own file     *)
(* unless the one before had an error: each of its symbols is defined in   *)
(* the file, with that type and at that place, each definition of the file *)
(* has its symbol, and nothing is written outside of the manifest's        *)
(* arrays.  After an error that holds again as soon as one manifest was    *)
(* read to its end.                                                        *)
ManifestIsOfTheFile == clean => ManifestMatchesTheFile

(* Refuted: the manifest after one with an error is read with the names    *)
(* that the last one left in the tables.                                   *)
EveryManifestIsOfItsFile == ManifestMatchesTheFile

(* A file that ends inside of a definition is never taken for a package    *)
(* that is complete, wherever it was cut.                                  *)
CutFilesRefused == clean /\ package.kind = "cut" => pc # "done"

(* A name defined twice leaves a slot of the manifest unset; the file is   *)
(* refused, if only because no type, or no import, has an empty name.      *)
DuplicatesRefused == clean /\ package.kind = "doubled" => pc # "done"
=============================================================================
