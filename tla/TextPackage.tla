----------------------------- MODULE TextPackage -----------------------------
(***************************************************************************)
(* Reading a text package (rdx_serialize.cpp, rdx_structuredtype.cpp).     *)
(*                                                                         *)
(* The file is a sequence of tokens (TextReader is about its bytes).  A    *)
(* first scan, rdxParseTextManifest, looks at every token for arraydef,    *)
(* import and def, enters what they name in three tables that the object   *)
(* manager keeps for all parses, and makes the manifest of the package     *)
(* from them.  Then the objects are read, each from the position noted in  *)
(* its definition, when the layout of its type is known: the values of a   *)
(* structure by the names of its properties, those of an array in order.   *)
(* The objects and the array types exist by then, as PackageLoad has it.   *)
(*                                                                         *)
(* A call of the parser is an operator that returns the positions and      *)
(* values it can end with: a set, for what an unassigned variable holds is *)
(* anyone's guess.  Position 0 is an exception.                            *)
(***************************************************************************)
EXTENDS Integers, Sequences, FiniteSets, TLC

CONSTANTS
  Packages,     \* the files, each with its domain and what it was written from
  Layouts,      \* what is known of the objects of other packages, by name
  Digits,       \* the words that are numbers, and their values
  Stale,        \* numbers that a variable may hold that was not assigned
  MaxDepth,     \* RDX_MAX_RECURSION_DEPTH
  MaxErrors     \* bounds how often a manifest with an error is followed by another load

(* Tokens and names.                                                       *)
Word(w) == [quoted |-> FALSE, chars |-> <<w>>]
Str(n) == [quoted |-> TRUE, chars |-> n]
GUID(d, n) == <<d, n>>
NoGUID == <<<<>>, <<>>>>
Core(n) == GUID(<<"Core">>, <<n>>)

(* References and other values, as pairs of a kind and the rest.           *)
Ref(loc, i) == <<loc, i>>
Null == Ref("Null", 0)
Known(g) == <<"Known", g>>
Number(n) == <<"Number", n>>
Text(n) == <<"String", n>>

VARIABLES
  pc, package,
  cursor,            \* the token the parser is at
  localResources, importedResources, arrayDefs,    \* the shared tables
  numResources, numImports, numArrayDefs,
  pkg,               \* the manifest
  objects,           \* the objects read: index to value
  last, progress,    \* the round of objects: how far it is, whether one was read
  errors, clean      \* how many manifests had an error, and whether the manifest
                     \* before this one had none

tables == <<localResources, importedResources, arrayDefs>>
counts == <<numResources, numImports, numArrayDefs>>
vars == <<pc, package, cursor, tables, counts, pkg, objects, last, progress, errors, clean>>

Tokens == package.tokens
EmptyTable == [g \in {} |-> 0]
NoFile == [kind |-> "none", domain |-> "", symbols |-> EmptyTable, tokens |-> <<>>]
NoPackage == [locals |-> <<>>, imports |-> <<>>, arrays |-> <<>>]

Entered(table, g, e) == [x \in DOMAIN table \cup {g} |-> IF x = g THEN e ELSE table[x]]

(* ParseToken: fails at the end of the file.  CheckToken does not.         *)
CanParse(c) == c <= Len(Tokens)
Check(c, w) == c <= Len(Tokens) /\ Tokens[c] = Word(w)
ParsedAll(c, n) == c + n - 1 <= Len(Tokens)
Name(c) == GUID(Tokens[c].chars, Tokens[c + 1].chars)

(* rdxDecodeString, whose result nobody looks at: a word that is no number *)
(* leaves the variable as it was.                                          *)
Decoded(c) == IF Tokens[c].chars \in DOMAIN Digits THEN {Digits[Tokens[c].chars]} ELSE Stale

Init ==
  /\ pc = "idle" /\ package = NoFile /\ cursor = 1
  /\ localResources = EmptyTable /\ importedResources = EmptyTable /\ arrayDefs = EmptyTable
  /\ numResources = 0 /\ numImports = 0 /\ numArrayDefs = 0
  /\ pkg = NoPackage /\ objects = EmptyTable /\ last = 0 /\ progress = FALSE
  /\ errors = 0 /\ clean = TRUE

Load(p) ==
  /\ pc \in {"idle", "done", "failed", "unparsed"}
  /\ pc = "unparsed" => errors < MaxErrors
  /\ pc' = "scan" /\ package' = p /\ cursor' = 1
  /\ numResources' = 0 /\ numImports' = 0 /\ numArrayDefs' = 0
  /\ pkg' = NoPackage /\ objects' = EmptyTable /\ last' = 0 /\ progress' = FALSE
  /\ errors' = errors + (IF pc = "unparsed" THEN 1 ELSE 0) /\ clean' = (pc # "unparsed")
  /\ UNCHANGED tables

(* The exception passes through the callers; the tables stay as they are,  *)
(* also where it comes from the parse of a manifest.                       *)
Fail ==
  /\ pc' = IF pc \in {"scan", "resolve"} THEN "unparsed" ELSE "failed"
  /\ UNCHANGED <<package, cursor, tables, counts, pkg, objects, last, progress, errors, clean>>

-----------------------------------------------------------------------------
(* The scan.                                                               *)
Keywords == {"arraydef", "import", "def"}

SkipOther ==
  /\ pc = "scan" /\ CanParse(cursor)
  /\ \A w \in Keywords : ~Check(cursor, w)
  /\ cursor' = cursor + 1
  /\ UNCHANGED <<pc, package, tables, counts, pkg, objects, last, progress, errors, clean>>

ScanArrayDef ==
  /\ pc = "scan" /\ Check(cursor, "arraydef")
  /\ LET const == ParsedAll(cursor + 5, 1) /\ Tokens[cursor + 5].chars = <<"const">>
         dims == IF const THEN cursor + 6 ELSE cursor + 5
     IN IF ~ParsedAll(cursor + 1, dims - cursor) THEN Fail
        ELSE /\ \E n \in Decoded(dims) :
                  arrayDefs' = Entered(arrayDefs, Name(cursor + 1),
                                       [of |-> Name(cursor + 3), const |-> const,
                                        dimensions |-> n, index |-> numArrayDefs])
             /\ numArrayDefs' = numArrayDefs + 1 /\ cursor' = dims + 1
             /\ UNCHANGED <<pc, package, localResources, importedResources, numResources,
                            numImports, pkg, objects, last, progress, errors, clean>>

ScanImport ==
  /\ pc = "scan" /\ Check(cursor, "import")
  /\ IF ~ParsedAll(cursor + 1, 2) THEN Fail
     ELSE /\ importedResources' = Entered(importedResources, Name(cursor + 1), [index |-> numImports])
          /\ numImports' = numImports + 1 /\ cursor' = cursor + 3
          /\ UNCHANGED <<pc, package, localResources, arrayDefs, numResources, numArrayDefs,
                         pkg, objects, last, progress, errors, clean>>

(* Flags, as many as there are, between the name and the quoted type.      *)
ScanDef ==
  /\ pc = "scan" /\ Check(cursor, "def")
  /\ LET flagged == {c \in cursor + 3..Len(Tokens) : Tokens[c].quoted}
         type == CHOOSE c \in flagged : \A d \in flagged : c <= d
         flags == {Tokens[c].chars[1] : c \in cursor + 3..type - 1}
     IN IF \/ flagged = {}
           \/ ~ flags \subseteq {"anonymous", "cloaked", "const"}
           \/ ~ParsedAll(type, 3)
        THEN Fail
        ELSE /\ \E n \in Decoded(type + 2) :
                  localResources' =
                    Entered(localResources, Name(cursor + 1),
                            [type |-> Name(type), flags |-> flags, count |-> n,
                             at |-> type + 3, index |-> numResources])
             /\ numResources' = numResources + 1 /\ cursor' = type + 3
             /\ UNCHANGED <<pc, package, importedResources, arrayDefs, numImports,
                            numArrayDefs, pkg, objects, last, progress, errors, clean>>

-----------------------------------------------------------------------------
(* The end of the scan: every entry of the tables goes to its place in the *)
(* arrays of the manifest.  A name defined twice has one entry only, and   *)
(* leaves a place unset.                                                   *)
Placed(table, n, unset, Slot(_, _)) ==
  [i \in 1..n |->
     IF \E g \in DOMAIN table : table[g].index = i - 1
     THEN LET g == CHOOSE x \in DOMAIN table : table[x].index = i - 1 IN Slot(g, table[g])
     ELSE unset]

Outside(table, n) == \E g \in DOMAIN table : table[g].index >= n

LocalSlot(g, e) ==
  [guid |-> g, typeGUID |-> e.type, flags |-> e.flags, count |-> e.count, at |-> e.at,
   type |-> Null]
NoLocal == [guid |-> NoGUID, typeGUID |-> NoGUID, flags |-> {}, count |-> 0, at |-> 0, type |-> Null]
ArraySlot(g, e) == [guid |-> g, ofGUID |-> e.of, const |-> e.const, dimensions |-> e.dimensions,
                    of |-> Null]
NoArray == [guid |-> NoGUID, ofGUID |-> NoGUID, const |-> FALSE, dimensions |-> 0, of |-> Null]

FinishScan ==
  /\ pc = "scan" /\ ~CanParse(cursor)
  /\ IF \/ Outside(localResources, numResources) \/ Outside(importedResources, numImports)
        \/ Outside(arrayDefs, numArrayDefs)
     THEN pc' = "broken" /\ UNCHANGED pkg
     ELSE /\ pc' = "resolve"
          /\ pkg' = [locals |-> Placed(localResources, numResources, NoLocal, LocalSlot),
                     imports |-> Placed(importedResources, numImports, NoGUID,
                                        LAMBDA g, e : g),
                     arrays |-> Placed(arrayDefs, numArrayDefs, NoArray, ArraySlot)]
  /\ UNCHANGED <<package, cursor, tables, counts, objects, last, progress, errors, clean>>

(* Types and element types are looked up by name in the three tables.      *)
Found(g) ==
  CASE g \in DOMAIN importedResources -> Ref("Imported", importedResources[g].index + 1)
    [] g \notin DOMAIN importedResources /\ g \in DOMAIN localResources ->
         Ref("Local", localResources[g].index + 1)
    [] g \notin DOMAIN importedResources \cup DOMAIN localResources /\ g \in DOMAIN arrayDefs ->
         Ref("Array", arrayDefs[g].index + 1)
    [] OTHER -> Null

(* Faulty variant: a name that was left unset taken for an import.         *)
FoundOrUnset(g) == IF g = NoGUID THEN Ref("Imported", 1) ELSE Found(g)

(* Where the type of a local symbol is found.                              *)
Looked(g) == Found(g)

(* A symbol that is neither anonymous nor duplicable must be of the        *)
(* package's domain; an anonymous one gets that of run time objects.       *)
DomainOK(l) ==
  "anonymous" \in l.flags \/ l.guid[1] \in {<<"#">>, <<package.domain>>}
Redomained(l) ==
  IF "anonymous" \in l.flags THEN [l EXCEPT !.guid = GUID(<<"Runtime">>, l.guid[2])] ELSE l

(* Faulty variant: the tables of symbols are kept for the next file.       *)
ClearedArraysOnly ==
  arrayDefs' = EmptyTable /\ UNCHANGED <<localResources, importedResources>>

ClearTables ==
  localResources' = EmptyTable /\ importedResources' = EmptyTable /\ arrayDefs' = EmptyTable

Resolve ==
  /\ pc = "resolve"
  /\ LET locals == [i \in DOMAIN pkg.locals |->
                      [pkg.locals[i] EXCEPT !.type = Looked(pkg.locals[i].typeGUID)]]
         arrays == [i \in DOMAIN pkg.arrays |->
                      [pkg.arrays[i] EXCEPT !.of = Looked(pkg.arrays[i].ofGUID)]]
     IN IF \/ \E i \in DOMAIN locals : locals[i].type = Null
           \/ \E i \in DOMAIN arrays : arrays[i].of = Null
        THEN Fail
        ELSE /\ ClearTables
             /\ pkg' = [pkg EXCEPT !.arrays = arrays,
                                   !.locals = [i \in DOMAIN locals |-> Redomained(locals[i])]]
             /\ pc' = IF \A i \in DOMAIN locals : DomainOK(locals[i]) THEN "imports" ELSE "failed"
             /\ UNCHANGED <<package, cursor, counts, objects, last, progress, errors, clean>>

(* The imports are loaded: each is an object of a package before this one. *)
ResolveImports ==
  /\ pc = "imports"
  /\ pc' = IF \A i \in DOMAIN pkg.imports : pkg.imports[i] \in DOMAIN Layouts
           THEN "critical" ELSE "failed"
  /\ UNCHANGED <<package, cursor, tables, counts, pkg, objects, last, progress, errors, clean>>

-----------------------------------------------------------------------------
(* Types.  An array type with a name that is known is the known one.       *)
Norm(t) ==
  CASE t[1] = "Imported" -> Known(pkg.imports[t[2]])
    [] t[1] = "Array" /\ pkg.arrays[t[2]].guid \in DOMAIN Layouts -> Known(pkg.arrays[t[2]].guid)
    [] OTHER -> t

Structured == Known(Core("RDX.StructuredType"))
Attribute(i, a) == IF a \in DOMAIN objects[i][2] THEN objects[i][2][a] ELSE Null
Elements(ref) == IF ref = Null THEN <<>> ELSE objects[ref[2]][2]

PropertiesOf(ref) ==
  IF ref[1] = "Imported" THEN Layouts[pkg.imports[ref[2]]].properties
  ELSE [k \in DOMAIN Elements(ref) |->
          [name |-> Elements(ref)[k][2]["name"][2], type |-> Elements(ref)[k][2]["type"]]]

Layout(t) ==
  LET n == Norm(t) IN
  CASE n[1] = "Known" -> Layouts[n[2]]
    [] n[1] = "Array" -> [form |-> "array", byRef |-> TRUE, of |-> pkg.arrays[n[2]].of,
                          dimensions |-> pkg.arrays[n[2]].dimensions]
    [] n[1] = "Local" /\ Norm(pkg.locals[n[2]].type) # Structured ->
         [form |-> "other", byRef |-> TRUE]
    [] OTHER ->
         LET storage == Attribute(n[2], "storageSpecifier")[2]
         IN [form |-> IF storage = "SS_Enum" THEN "enum" ELSE "structure",
             byRef |-> storage \in {"SS_Class", "SS_Interface"}, serializer |-> "none",
             isAbstract |-> Attribute(n[2], "isAbstract") = Number(1),
             properties |-> PropertiesOf(Attribute(n[2], "properties")),
             enumerants |-> {Elements(Attribute(n[2], "enumerants"))[k][2]["name"][2] :
                               k \in DOMAIN Elements(Attribute(n[2], "enumerants"))},
             default |-> Attribute(n[2], "defaultValue")]

(* A local type has a layout when it was read and its properties were, and *)
(* its properties of value types have one.                                 *)
RECURSIVE KnownWithin(_, _)
KnownWithin(t, d) ==
  LET n == Norm(t)
      Arrived(ref) == ref[1] # "Local" \/ ref[2] \in DOMAIN objects
      values == Layout(n).properties
  IN n[1] = "Local" =>
       /\ d > 0 /\ n[2] \in DOMAIN objects
       /\ Norm(pkg.locals[n[2]].type) = Structured =>
            /\ Arrived(Attribute(n[2], "properties"))
            /\ Arrived(Attribute(n[2], "enumerants"))
            /\ \A k \in DOMAIN values :
                 LET of == Norm(values[k].type)
                 IN of[1] = "Local" => /\ of[2] \in DOMAIN objects
                                       /\ Layout(of).byRef \/ KnownWithin(of, d - 1)

TypeKnown(t) == KnownWithin(t, Len(pkg.locals))

(* Objects of critical types are read first.  Meanwhile only they, the     *)
(* arrays on the border and the duplicates of known symbols exist, and a   *)
(* reference to another local is read as null.                             *)
Duplicate(i) == pkg.locals[i].guid[1] = <<"#">> /\ pkg.locals[i].guid \in DOMAIN Layouts
Urgency(i) ==
  LET t == Norm(pkg.locals[i].type) IN IF t[1] = "Known" THEN Layouts[t[2]].urgency ELSE "later"
Created(i) == pc = "objects" \/ Duplicate(i) \/ Urgency(i) \in {"critical", "border"}

(* ObjectCompatible: the type of the object or a parent of it, any for     *)
(* Object, and for a delegate type a method of the same signature.         *)
TypeOf(ref) ==
  CASE ref[1] = "Local" -> Norm(pkg.locals[ref[2]].type)
    [] ref[1] = "Imported" -> Known(Layouts[pkg.imports[ref[2]]].type)
    [] ref[1] = "Array" -> Known(Core("RDX.ArrayOfType"))
    [] ref[1] = "String" -> Known(Core("string"))

Parents(t) ==
  CASE t[1] = "Known" -> {Known(g) : g \in Layouts[t[2]].parents}
    [] t[1] = "Local" /\ t[2] \in DOMAIN objects -> {Norm(Attribute(t[2], "parentClass"))} \ {Null}
    [] OTHER -> {Known(Core("Object"))}

Ancestors(t) ==
  LET reach[k \in 0..Len(pkg.locals) + 1] ==
        IF k = 0 THEN {t}
        ELSE LET before == reach[k - 1] IN before \cup UNION {Parents(x) : x \in before}
  IN reach[Len(pkg.locals) + 1]

IsDelegateType(t) == t[1] = "Local" /\ Norm(pkg.locals[t[2]].type) = Known(Core("RDX.DelegateType"))

Compatible(ref, t) ==
  CASE Norm(t) = Known(Core("Object")) -> TRUE
    [] IsDelegateType(t) ->
         /\ TypeOf(ref) = Known(Core("RDX.Method")) /\ ref[1] = "Local"
         /\ \A a \in {"parameters", "returnTypes"} :
              Attribute(t[2], a) = IF ref[2] \in DOMAIN objects THEN Attribute(ref[2], a) ELSE Null
    [] OTHER -> Norm(t) \in Ancestors(TypeOf(ref))

-----------------------------------------------------------------------------
(* Values.                                                                 *)
At(c, v) == {[at |-> c, value |-> v]}
Fails == At(0, Null)
Then(outcomes, Rest(_)) == UNION {IF o.at = 0 THEN Fails ELSE Rest(o) : o \in outcomes}

(* A name is looked for among the imports, then the locals, then the       *)
(* arrays.                                                                 *)
Located(g) ==
  LET imports == {i \in DOMAIN pkg.imports : pkg.imports[i] = g}
      locals == {i \in DOMAIN pkg.locals : pkg.locals[i].guid = g}
      arrays == {i \in DOMAIN pkg.arrays : pkg.arrays[i].guid = g}
      First(S) == CHOOSE i \in S : \A j \in S : i <= j
  IN CASE imports # {} -> Ref("Imported", First(imports))
       [] imports = {} /\ locals # {} -> Ref("Local", First(locals))
       [] imports \cup locals = {} /\ arrays # {} -> Ref("Array", First(arrays))
       [] OTHER -> Null

Quoted(c) == CanParse(c) /\ Tokens[c].quoted

DeserializeReference(c, permitString) ==
  CASE Check(c, "null") -> At(c + 1, Null)
    [] Check(c, "res") ->
         IF Quoted(c + 1) /\ Quoted(c + 2) /\ Located(Name(c + 1)) # Null
         THEN At(c + 3, Located(Name(c + 1))) ELSE Fails
    [] ~Check(c, "null") /\ ~Check(c, "res") /\ permitString ->
         IF Quoted(c) THEN At(c + 1, Text(Tokens[c].chars)) ELSE Fails
    [] OTHER ->      \* the kind of the reference is not assigned
         {[at |-> c, value |-> Ref(k, 1)] : k \in {"Local", "Imported", "Array", "String"}}
           \cup At(c, Null)

(* The default value of a type comes before its properties; it is null or  *)
(* a symbol of the package.                                                *)
DeserializeDefault(c) ==
  IF /\ ParsedAll(c, 2) /\ Check(c, "defaultValue") /\ Check(c + 1, ":")
  THEN Then(DeserializeReference(c + 2, FALSE),
            LAMBDA o : IF o.value[1] \in {"Null", "Local"}
                       THEN At(o.at, <<"Structure", "defaultValue" :> o.value>>) ELSE Fails)
  ELSE Fails

(* Faulty variant: the end of the file closes what is open.                *)
ClosedAtEnd(c) == Check(c, "}") \/ ~CanParse(c)

(* The brace at the end of a structure or an array.                        *)
Closed(c) == Check(c, "}")

RECURSIVE Value(_, _, _), Structure(_, _, _), Properties(_, _, _, _), ArrayElements(_, _, _, _)

(* rdxDeserializeValue, rdxDeserializeStructure                            *)
Value(c, t, depth) ==
  IF Layout(t).byRef
  THEN Then(DeserializeReference(c, TRUE),
            LAMBDA o : CASE o.value = Null \/ (o.value[1] = "Local" /\ ~Created(o.value[2])) ->
                              At(o.at, Null)
                         [] OTHER -> IF Compatible(o.value, t) THEN {o} ELSE Fails)
  ELSE Structure(c, t, depth)

Structure(c, t, depth) ==
  LET l == Layout(t) IN
  CASE depth >= MaxDepth -> Fails
    [] depth < MaxDepth /\ l.form = "number" ->
         IF CanParse(c) THEN UNION {At(c + 1, Number(n)) : n \in Decoded(c)} ELSE Fails
    [] depth < MaxDepth /\ l.form = "bool" ->
         IF CanParse(c) THEN At(c + 1, Number(IF Tokens[c].chars = <<"true">> THEN 1 ELSE 0))
         ELSE Fails
    [] depth < MaxDepth /\ l.form = "string" -> Fails
    [] depth < MaxDepth /\ l.form = "enum" ->
         IF Quoted(c) /\ Tokens[c].chars \in l.enumerants
         THEN At(c + 1, <<"Enum", Tokens[c].chars[1]>>) ELSE Fails
    [] OTHER ->
         Then(IF l.serializer = "type" THEN DeserializeDefault(c)
              ELSE At(c, <<"Structure", [a \in {} |-> Null]>>),
              LAMBDA o : IF Check(o.at, "{") THEN Properties(o.at + 1, l.properties, o.value, depth)
                         ELSE Fails)

(* Faulty variant: properties taken to come in the order of the type.      *)
FoundByPosition(properties, name, value) == {Cardinality(DOMAIN value[2]) + 1} \cap DOMAIN properties

(* The properties of that name; the reader takes the first.                *)
PropertyFound(properties, name, value) == {k \in DOMAIN properties : properties[k].name = name}

Properties(c, properties, value, depth) ==
  LET found == PropertyFound(properties, Tokens[c].chars, value)
      p == properties[CHOOSE k \in found : \A j \in found : k <= j]
      name == p.name[1]
  IN CASE Closed(c) -> At(c + 1, value)
       [] ~Closed(c) /\ (~CanParse(c) \/ ~Check(c + 1, ":")) -> Fails
       [] ~Closed(c) /\ CanParse(c) /\ Check(c + 1, ":") /\ found = {} -> Fails
       [] OTHER ->
            Then(Value(c + 2, p.type, depth + 1),
                 LAMBDA o :
                   LET now == <<"Structure", (name :> o.value) @@ value[2]>>
                   IN CASE Check(o.at, ",") -> Properties(o.at + 1, properties, now, depth)
                        [] Closed(o.at) -> Properties(o.at, properties, now, depth)
                        [] OTHER -> Fails)

(* A comma is required between elements, and may follow the last one.      *)
ArrayElements(c, l, left, read) ==
  IF left = 0
  THEN IF Closed(c) THEN At(c + 1, <<"Array", read>>) ELSE Fails
  ELSE Then(Value(c, l.of, 0),
            LAMBDA o : CASE Check(o.at, ",") ->
                              ArrayElements(o.at + 1, l, left - 1, Append(read, o.value))
                         [] ~Check(o.at, ",") /\ left = 1 ->
                              ArrayElements(o.at, l, 0, Append(read, o.value))
                         [] OTHER -> Fails)

(* More than one dimension: they are written, and their product must be    *)
(* the number of elements.                                                 *)
DeserializeArray(c, l, count) ==
  LET sizes == IF l.dimensions > 1 THEN l.dimensions ELSE 0
      RECURSIVE Product(_, _)
      Product(k, n) == IF k = sizes THEN {n}
                       ELSE UNION {Product(k + 1, n * d) : d \in Decoded(c + k)}
  IN CASE l.dimensions = 0 \/ (sizes > 0 /\ ~ParsedAll(c, sizes)) -> Fails
       [] OTHER ->
            UNION {IF (sizes > 0 /\ n # count) \/ ~Check(c + sizes, "{") THEN Fails
                   ELSE ArrayElements(c + sizes + 1, l, count, <<>>) : n \in Product(0, 1)}

DeserializeObject(i) ==
  LET l == Layout(pkg.locals[i].type)
  IN IF l.form = "array" THEN DeserializeArray(pkg.locals[i].at, l, pkg.locals[i].count)
     ELSE IF pkg.locals[i].count = 1 THEN Structure(pkg.locals[i].at, pkg.locals[i].type, 0)
     ELSE Fails

-----------------------------------------------------------------------------
(* Objects are read in the order of the manifest, round by round, those    *)
(* with a type whose layout and whose default value are known.  A default  *)
(* that is a symbol of the package never gets known: its own type has none *)
(* before it was read.                                                     *)
RECURSIVE DefaultKnown(_)
DefaultKnown(t) ==
  LET n == Norm(t)
  IN n[1] = "Local" => /\ Attribute(n[2], "defaultValue") = Null
                       /\ Attribute(n[2], "parentClass") # Null => DefaultKnown(Attribute(n[2], "parentClass"))

CanDeserialize(i) ==
  LET t == pkg.locals[i].type
      isArray == Layout(t).form = "array"
      of == IF isArray THEN Layout(t).of ELSE t
  IN /\ TypeKnown(t) /\ TypeKnown(of) /\ Layout(t).form # "other"
     /\ ~isArray => ~Layout(t).isAbstract
     /\ (isArray /\ (Layout(of).byRef \/ Layout(of).form = "enum")) \/ DefaultKnown(of)

Unread ==
  {i \in DOMAIN pkg.locals :
     /\ i \notin DOMAIN objects /\ ~Duplicate(i)
     /\ (Urgency(i) = "critical") = (pc = "critical")}

(* Types that were read and still want a default value.  To look for it    *)
(* counts as progress, whether it is found or not.                         *)
Undefaulted ==
  {i \in DOMAIN objects : /\ pc = "objects" /\ Norm(pkg.locals[i].type) = Structured
                          /\ ~DefaultKnown(Ref("Local", i))}

ReadObject ==
  /\ pc \in {"critical", "objects"} /\ last < Len(pkg.locals)
  /\ LET i == last + 1 IN
     IF i \notin Unread \/ ~CanDeserialize(i)
     THEN /\ last' = i /\ progress' = (progress \/ i \in Undefaulted)
          /\ UNCHANGED <<pc, package, cursor, tables, counts, pkg, objects, errors, clean>>
     ELSE \E o \in DeserializeObject(i) :
            IF o.at = 0 THEN Fail
            ELSE /\ objects' = Entered(objects, i, o.value)
                 /\ cursor' = o.at /\ last' = i /\ progress' = TRUE
                 /\ UNCHANGED <<pc, package, tables, counts, pkg, errors, clean>>

FinishRound ==
  /\ pc \in {"critical", "objects"} /\ last = Len(pkg.locals)
  /\ pc' = CASE Unread \cup Undefaulted = {} -> IF pc = "critical" THEN "objects" ELSE "done"
             [] Unread \cup Undefaulted # {} /\ ~progress -> "failed"
             [] OTHER -> pc
  /\ last' = 0 /\ progress' = FALSE
  /\ UNCHANGED <<package, cursor, tables, counts, pkg, objects, errors, clean>>

LoadPackage == \E p \in Packages : Load(p)

Next ==
  \/ LoadPackage \/ SkipOther \/ ScanArrayDef \/ ScanImport \/ ScanDef \/ FinishScan
  \/ Resolve \/ ResolveImports \/ ReadObject \/ FinishRound

Spec == Init /\ [][Next]_vars
=============================================================================
