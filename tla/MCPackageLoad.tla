---------------------------- MODULE MCPackageLoad ----------------------------
(***************************************************************************)
(* Instances of PackageLoad for TLC: packages and what their files contain. *)
(***************************************************************************)
EXTENDS PackageLoad, TLC

CONSTANTS p1, p2, p3, p4

\* The addresses of packages are interchangeable.
MCSymmetry == Permutations(Packages)

SoundDomainOf ==
  [n \in {"Type", "Object"} |-> "core"] @@
  [n \in {"A.T", "A.x", "A.list"} |-> "A"] @@
  [n \in {"B.U", "B.y"} |-> "B"] @@
  "shared" :> "duplicable"

MCDomainOf ==
  SoundDomainOf @@ [n \in {"E", "missing"} |-> "core"] @@
  "D.U" :> "D" @@ "I.U" :> "I" @@ "lost" :> "nowhere"

local(k) == <<"local", k>>
import(k) == <<"import", k>>
array(k) == <<"array", k>>

Thing(name, type, fields) ==
  [name |-> name, type |-> type, fields |-> fields, layout |-> {}, zeroFill |-> TRUE,
   value |-> FALSE, default |-> 0, valid |-> TRUE]

\* A type, the first import of its file being Type.
Struct(name, fields) == Thing(name, import(1), fields)

\* A type with values in it that are not all zeros.
Rich(name, fields) ==
  [Struct(name, fields) EXCEPT !.layout = DOMAIN fields, !.zeroFill = FALSE]

File(locals, imports, arrays) == [locals |-> locals, imports |-> imports, arrays |-> arrays]

\* Two built-in types, and one that is not.
CoreFile == File(<<Thing("Type", local(1), <<>>), Thing("Object", local(1), <<>>),
                   [Rich("E", <<>>) EXCEPT !.type = local(1)]>>, <<>>, <<>>)

\* A file without symbols.
NoFile == File(<<>>, <<>>, <<>>)

List == ArrayType(<<BuiltIn, 2>>)

\* Lists are created with the types and read after them.
OnlyTypes == {TypeType}
OnlyLists == {List}

\* A type, an instance in front of it and a list, which may outlive its package.
FileA == File(<<Thing("A.x", local(2), <<local(3)>>),
                Rich("A.T", <<>>),
                Thing("A.list", array(1), <<import(2)>>)>>,
              <<"Type", "Object">>, <<import(2)>>)

\* Two types, one in the other, an instance that refers to the package A, and an
\* object that another package may define too.
FileB == File(<<Rich("B.U", <<local(2)>>),
                Rich(Null, <<>>),
                Thing("B.y", local(1), <<import(2)>>),
                Thing("shared", import(3), <<>>)>>,
              <<"Type", "A.x", "Object">>, <<>>)

\* A saved object, with a copy of the object that may be defined twice.
FileR == File(<<Thing(Null, import(1), <<import(2), local(2)>>), Thing("shared", import(1), <<>>)>>,
              <<"Object", "A.x">>, <<>>)

\* A type of the core package in a type of the package B.
DependentFile == File(<<Rich("B.U", <<import(2)>>)>>, <<"Type", "E">>, <<>>)

\* Two structures that contain each other.
CyclicFile == File(<<Rich(Null, <<local(2)>>), Rich(Null, <<local(1)>>)>>, <<"Type">>, <<>>)

\* A structure that ValidateStructure refuses.
InvalidFile == File(<<[Struct("I.U", <<>>) EXCEPT !.valid = FALSE]>>, <<"Type">>, <<>>)

\* An array of itself, an array of a type of the file, an array of no type.
SelfArrayFile == File(<<>>, <<>>, <<array(1)>>)
OwnArrayFile == File(<<Struct(Null, <<>>)>>, <<"Type">>, <<local(1)>>)

\* Arrays of arrays, the one in front waiting for the other.
NestedArrayFile == File(<<Thing(Null, array(1), <<local(1)>>)>>, <<"Object">>,
                        <<array(2), import(1)>>)

\* A structure with a default of its own.
DefaultFile == File(<<[Rich("D.U", <<>>) EXCEPT !.default = 2], Thing(Null, local(1), <<>>)>>,
                    <<"Type">>, <<>>)

\* A structure whose default is an object of another type.
WrongDefaultFile == File(<<Thing(Null, import(2), <<>>), [Rich(Null, <<>>) EXCEPT !.default = 1]>>,
                         <<"Type", "Object">>, <<>>)

\* An object whose type is no type, and an import from a package without a file.
NoTypeFile == File(<<Thing(Null, local(2), <<>>), Thing(Null, import(1), <<>>)>>,
                   <<"Object">>, <<>>)
\* An object whose type is imported from a package that does not define it.
MissingFile == File(<<Thing(Null, import(1), <<>>)>>, <<"missing">>, <<>>)
LostFile == File(<<>>, <<"lost">>, <<>>)

MalformedFiles ==
  "core" :> CoreFile @@ "cyclic" :> CyclicFile @@
  "I" :> InvalidFile @@ "self array" :> SelfArrayFile @@ "own array" :> OwnArrayFile @@
  "nested array" :> NestedArrayFile @@ "wrong default" :> WrongDefaultFile @@
  "B" :> DependentFile @@ "no type" :> NoTypeFile @@ "no import" :> MissingFile @@ "lost" :> LostFile @@ "run" :> NoFile

DefaultFiles == "core" :> CoreFile @@ "D" :> DefaultFile

\* The built-in types alone.
SmallCoreFile == File(<<Thing("Type", local(1), <<>>), Thing("Object", local(1), <<>>)>>, <<>>, <<>>)

SoundFiles == "core" :> SmallCoreFile @@ "A" :> FileA @@ "B" :> FileB @@ "run" :> FileR
=============================================================================
