---------------------------- MODULE MCILCompiler ----------------------------
(***************************************************************************)
(* Small instances of ILCompiler: bodies of a few operations.              *)
(***************************************************************************)
EXTENDS ILCompiler, TLC

NoProperties == [i \in {} |-> Null]

Type(kind) ==
  [kind |-> kind, element |-> Null, dims |-> 0, fixed |-> FALSE, props |-> NoProperties,
   constants |-> {}, zero |-> FALSE, interfaces |-> {}]

MCTypeInfo ==
  "Base" :> [Type("class") EXCEPT !.props = 0 :> "Pair"]
  @@ "Derived" :> [Type("class") EXCEPT !.interfaces = {"Ifc"}]
  @@ "Ifc" :> Type("interface")
  @@ "Pair" :> [Type("struct") EXCEPT !.props = (0 :> "Base" @@ 1 :> "int"), !.zero = TRUE]
  @@ "Block" :> [Type("refstruct") EXCEPT !.props = 0 :> "Base"]
  @@ "int" :> [Type("struct") EXCEPT !.zero = TRUE]
  @@ "enum" :> [Type("enum") EXCEPT !.zero = TRUE]
  @@ "largeuint" :> [Type("struct") EXCEPT !.zero = TRUE]
  @@ "bool" :> [Type("struct") EXCEPT !.zero = TRUE]
  @@ "varying" :> Type("varying")
  @@ "Bases" :> [Type("array") EXCEPT !.element = "Base", !.dims = 1]
  @@ "Ints" :> [Type("array") EXCEPT !.element = "int", !.dims = 1, !.fixed = TRUE]
  @@ "Handler" :> Type("delegate")
  @@ "Exception" :> Type("class")
  @@ "Fault" :> Type("class")

MCConversions == {<<"Derived", "Base">>, <<"Fault", "Exception">>, <<"enum", "int">>}

MCPolymorphic ==
  {<<"Base", "Derived">>, <<"Base", "Ifc">>, <<"Derived", "Ifc">>, <<"Ifc", "Base">>, <<"int", "enum">>}

Param(t) == [type |-> t, const |-> FALSE, notNull |-> FALSE]

Callable(params, returns) ==
  [params |-> params, returns |-> returns, this |-> 0, virtual |-> FALSE, intrinsic |-> FALSE,
   branching |-> FALSE, neverFails |-> FALSE, delegate |-> Null]

MCMethodInfo ==
  "make" :> Callable(<<>>, <<"Base">>)
  @@ "use" :> Callable(<<[Param("Base") EXCEPT !.const = TRUE, !.notNull = TRUE]>>, <<>>)
  @@ "accept" :> Callable(<<Param("Base")>>, <<"Base">>)
  @@ "print" :> Callable(<<Param("varying")>>, <<>>)
  @@ "fill" :> Callable(<<Param("Block")>>, <<>>)
  @@ "virtual" :> [Callable(<<Param("Base")>>, <<>>) EXCEPT !.this = 1, !.virtual = TRUE]
  @@ "check" :> [Callable(<<Param("int")>>, <<>>) EXCEPT !.intrinsic = TRUE]
  @@ "add" :> [Callable(<<Param("int"), Param("int")>>, <<"int">>) EXCEPT !.intrinsic = TRUE,
                                                                      !.neverFails = TRUE]
  @@ "less" :> [Callable(<<Param("int"), Param("int")>>, <<>>) EXCEPT !.intrinsic = TRUE,
                 !.neverFails = TRUE, !.branching = TRUE]
  @@ "Handler" :> [Callable(<<Param("Base")>>, <<>>) EXCEPT !.delegate = "Handler"]

MCObjectInfo ==
  "cases" :> [type |-> "Ints", constant |-> TRUE, count |-> 2]
  @@ "object" :> [type |-> "Base", constant |-> FALSE, count |-> 0]
  @@ "pair" :> [type |-> "Pair", constant |-> TRUE, count |-> 0]

Op(name) == [op |-> name, sint1 |-> 0, sint2 |-> 0, res |-> Null, props |-> <<>>]
OpI(name, i) == [Op(name) EXCEPT !.sint1 = i]
OpR(name, r) == [Op(name) EXCEPT !.res = r]
OpIR(name, i, r) == [OpI(name, i) EXCEPT !.res = r]

Method(ops, debug, params, returns) ==
  [ops |-> ops, debug |-> debug, params |-> params, returns |-> returns]

Body(length, debug, params, returns, ops) ==
  Method([k \in 1..length |-> ops], debug, params, returns)

\* Objects are made, kept in locals, jumped around.
Locals == Body(6, {}, <<>>, <<>>,
  {OpR("null", Null), OpR("createlocal", "Derived"), OpR("alloclocal", "Base"), Op("removelocal"),
   OpR("newinstance", "Derived"), OpR("call", "use"), OpI("return", 0), Op("pop")})

\* Jumps of all kinds.
Loops == Body(6, {1, 2}, <<>>, <<>>,
  {OpR("alloclocal", "Base"), Op("removelocal"), OpI("jump", 2), OpI("jump", -2), OpI("jump", 1),
   Op("null"), OpI("jumpifnull", 2), OpI("jumpifnull", -1)})

\* Results go into shells, behind barriers and from calls.
Barriers == Method(
  <<{OpR("pushempty", "Base")},
    {OpI("startbarrier", 1), OpR("pushempty", "Base"), OpI("jump", 1)},
    {OpR("newinstance", "Base"), Op("null"), OpI("jump", 1), OpI("jump", 4), OpI("startbarrier", 1)},
    {OpI("return", 1), Op("null"), OpI("jumpifnull", 1), OpR("newinstance", "Base")},
    {Op("endbarrier"), Op("null"), OpR("newinstance", "Base"), OpI("return", 1), OpR("call", "accept")},
    {OpI("return", 1), OpR("call", "accept"), OpR("call", "make"), Op("pop"), OpR("newinstance", "Fault")},
    {Op("endbarrier"), OpR("call", "accept"), Op("pop")},
    {OpR("call", "use"), Op("pop"), OpI("return", 0)},
    {OpI("return", 0), Op("pop")}>>,
  {}, <<>>, <<>>)

\* Exceptions are caught, cast and thrown.
Handlers == Method(
  <<{[OpI("try", 5) EXCEPT !.sint2 = k] : k \in {2, 3, 5}} \cup {OpR("alloclocal", "Base")},
    {OpR("newinstance", "Fault"), OpR("alloclocal", "Base")} \cup {[OpI("try", 4) EXCEPT !.sint2 = k] : k \in {1, 3}},
    {Op("throw"), Op("pop"), Op("removelocal")},
    {OpR("newinstance", "Fault"), OpI("return", 0)},
    {Op("pop"), OpI("return", 0), OpR("alloclocal", "Base")},
    {OpR("catch", "Exception")},
    {OpIR("trycast", 2, "Fault"), OpIR("trycast", -1, "Exception"), Op("pop"), Op("throw")},
    {Op("throw"), Op("pop"), OpR("newinstance", "Fault")},
    {OpR("catch", "Fault"), OpR("catch", "Exception"), OpI("return", 0), Op("pop")},
    {Op("pop"), Op("throw"), Op("removelocal")},
    {OpI("return", 0), Op("removelocal")}>>,
  {3}, <<>>, <<>>)

Casts == Body(5, {2}, <<Param("Base")>>, <<"Base">>,
  {OpI("localref", 0), Op("load"), OpR("cast", "Derived"), OpR("cast", "Ifc"), OpR("cast", "Base"),
   OpI("return", 1), OpI("property", 0), [OpI("clone", 0) EXCEPT !.sint2 = 1], OpR("call", "use"), Op("pop")})

Arrays == Method(
  <<{OpR("newinstance", "Base"), Op("null"), OpI("localref", 1)},
    {OpI("localref", 0), Op("null"), OpR("newinstance", "Base")},
    {Op("load"), OpR("calldelegate", "Handler")},
    {OpR("constant", "largeuint"), OpI("return", 0), Op("null")},
    {OpI("arrayindex", 1), OpI("arrayindex", 2), Op("pop"), OpI("return", 0)},
    {Op("load"), Op("move"), OpI("return", 0), [OpI("clone", 0) EXCEPT !.sint2 = 1], OpI("property", 0)},
    {OpR("call", "use"), Op("pop"), OpI("return", 0)},
    {Op("pop"), Op("move"), OpI("return", 0)},
    {Op("pop"), OpI("return", 0)}>>,
  {}, <<Param("Bases"), Param("Handler")>>, <<>>)

\* Structures behind pointers are read, written and boxed.
Structures == Method(
  <<{OpI("localref", 0), OpR("res", "pair"), OpR("res", "object")},
    {Op("pinlocal"), Op("load"), Op("tovarying"), OpI("property", 0)},
    {OpI("property", 0), OpI("property", 1), Op("tovarying"), [OpI("clone", 0) EXCEPT !.sint2 = 1]},
    {Op("load"), Op("tovarying"), Op("null"), Op("pop"), OpI("property", 0), OpR("newinstance", "Base"),
     OpR("call", "make")},
    {OpI("localref", 0), OpR("call", "print"), OpR("call", "use"), Op("pop"), OpI("property", 1)},
    {Op("pinlocal"), OpR("call", "use"), Op("load"), Op("pop")},
    {OpI("property", 0), Op("tovarying"), Op("pop"), OpI("return", 0)},
    {Op("move"), OpR("call", "print"), Op("pop"), OpI("return", 0)}>>,
  {4}, <<Param("Pair")>>, <<>>)

\* Numbers are computed and compared.
Numbers == Method(
  <<{OpR("pushempty", "int"), OpI("jump", 1), OpR("alloclocal", "int")},
    {OpI("localref", 0)}, {Op("load")},
    {OpI("localref", 0)} \cup {[OpI("clone", 0) EXCEPT !.sint2 = k] : k \in {1, 2}},
    {Op("load"), OpI("jumpifequal", 1), OpIR("jumpif", 1, "less")},
    {OpR("call", "add"), OpR("call", "check")} \cup {OpIR("jumpif", k, "less") : k \in {1, -4}}
      \cup {OpI("jumpifequal", k) : k \in {1, 2, -5}},
    {OpR("call", "check"), OpI("return", 0), Op("pop"), Op("removelocal"), OpI("jump", -5)},
    {Op("pop"), OpI("return", 0), OpI("jump", -6), Op("removelocal")}>>,
  {3}, <<Param("int")>>, <<>>)

Flags == Body(5, {}, <<Param("bool")>>, <<>>,
  {OpI("localref", 0), Op("load"), OpI("jumpiftrue", 1), OpI("jumpiftrue", -2), OpI("return", 0),
   OpR("newinstance", "Base"), OpR("callvirtual", "virtual"), OpR("alloclocal", "Block"), Op("removelocal")})

\* Locals are filled property by property while a value waits.
Sets == Method(
  <<{OpR("alloclocal", "Base"), OpR("alloclocal", "Pair"), OpR("alloclocal", "Block")},
    {OpR("newinstance", "Derived"), OpR("newinstance", "Pair"), Op("null")},
    {OpR("newinstance", "Pair"), OpR("constant", "int"), Op("null")},
    {[OpR("newinstanceset", t) EXCEPT !.props = p] : t \in {"Base", "Pair", "Block"}, p \in {<<0>>, <<0, 1>>}},
    {Op("pop"), Op("removelocal"), OpI("localref", 0), OpI("jump", 1)},
    {Op("pop"), Op("removelocal"), Op("pinlocal"), OpI("localref", 0)},
    {Op("removelocal"), OpI("return", 0), OpR("call", "fill"), Op("pop")},
    {Op("removelocal"), OpI("return", 0)}>>,
  {}, <<>>, <<>>)

\* The cases of a switch end in one place, inside or outside of a local.
Switches == Method(
  <<{OpR("constant", "int"), OpR("newinstance", "Base"), OpR("alloclocal", "Base")},
    {OpIR("switch", 2, "cases"), OpR("constant", "int"), Op("pop")},
    {OpI("jump", 1), OpI("jump", 3), OpIR("switch", 2, "cases")},
    {OpI("jump", 2), OpI("jump", 4), OpI("jump", -1)},
    {OpR("alloclocal", "Base"), OpI("jump", 1), OpR("constant", "int"), OpI("jump", -4)},
    {Op("removelocal"), OpIR("switch", 2, "cases"), OpI("return", 0), OpI("jumpifequal", 1)},
    {Op("removelocal"), OpI("return", 0), OpR("alloclocal", "Base")},
    {Op("removelocal"), OpI("return", 0), OpI("jump", -2)}>>,
  {1}, <<>>, <<>>)

\* An array is iterated over.
Iterations == Method(
  <<{OpR("alloclocal", "Bases")}, {OpR("alloclocal", "largeuint")},
    {OpR("alloclocal", "Base"), OpR("alloclocal", "Derived")},
    {OpI("localref", 2), OpI("jump", 5), OpI("jump", 1)}, {OpI("localref", k) : k \in {1, 2}},
    {OpI("localref", k) : k \in {0, 1}},
    {OpI("localref", 0), OpI("iteratearray", 2), OpI("iteratearray", -2)},
    {OpI("iteratearray", k) : k \in {1, 2, -3}} \cup {Op("removelocal"), OpR("newinstance", "Base")},
    {OpI("jump", k) : k \in {-5, -4, 1}} \cup {Op("removelocal"), OpR("createlocal", "Base"), Op("pop")},
    {Op("removelocal")}, {Op("removelocal"), OpI("return", 0)}, {Op("removelocal"), OpI("return", 0)}>>,
  {9}, <<>>, <<>>)

\* A parameter that is never null must be constant, and no result may vary.
Refused == {Body(1, {}, <<[Param("Base") EXCEPT !.notNull = TRUE]>>, <<>>, {OpI("return", 0)}),
            Body(1, {}, <<>>, <<"varying">>, {OpI("return", 0)})}

MCPrograms == {Locals, Loops, Barriers, Handlers, Casts, Arrays, Structures, Numbers, Flags, Sets,
               Switches, Iterations} \cup Refused

=============================================================================
