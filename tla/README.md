# Verification of the rdx2 runtime

rdx2 is a language runtime in C++: an object manager with a garbage collected
heap, packages of typed objects that are saved to and loaded from files, an IL
compiler that turns methods into C++, and a small scheduler for the compiled
code.  This directory holds TLA+ models of its core, TLC instances that check
them, and theorems about them that TLAPS proves.

Paths below are relative to the repository's `src/`, or to `src/rdx/` where only
a file is named; `om` stands for `rdx_objectmanager.cpp`, `ser` for
`rdx_serialize.cpp` and `ilc` for `rdx_ilcomp3.cpp`.

## 1. Inventory

### Components

| Component | State | Operations | Who uses it, and how | Status |
|---|---|---|---|---|
| Hash map (`rdx_hashmap.hpp`) | array of entries (empty, filled, deleted, and loose during a rehash), `numEntries`, `load` | `Insert`, `RemoveEntry`, `FindElementIndex`, `Balance`, `Rehash`, `EnlargeEntryArray` | every table of the object manager; `Insert` calls back into the object manager through `ConstructKey`, which may collect garbage, which removes entries from the same table | modelled, proved |
| Object heap and collector (`om` 441-1091, 2672-2940, `rdx_gcinfo.hpp`, `rdx_reftypecode_baseref.hpp`) | live list, four scan lists, flags and counts in each `rdxGCInfo`, weak tables `m_stringTable`, `m_aotTable`, `m_gst`, `m_packages` | counted and traced references, `CreateObjectContainer`, `CreateStringFromCS`, `CreateArrayType`, `CollectGarbage`, `SaveObject`, `SavePackage`, `Shutdown` | everything that allocates; the same graph walk serves the collector and the serializer | modelled, proved |
| Package loading (`om` 3119-4719, 5054-5106) | `m_packages`, `m_gst`, `m_unloadedPackages`, the manifest in each package, `GCOF_Unloaded` and the stages of types | `LoadPackage`, `LoadObject`, `LookupSymbol` | native clients; reads streams from an `rdxIPackageHost`; allocates everywhere and so may be interrupted by a collection or fail | modelled, proved |
| Package saving (`om` 4722-5045) | the serializer's scan lists, the symbol table of the file | `SavePackage`, `SaveObject` | uses the heap's graph | the graph is modelled in `ObjectHeap`, the binary format is not |
| Manifests and values in files (`rdx_serialize.cpp`) | the parser's window on the stream; tables of local, imported and array symbols; the positions of the definitions | `PeekBytes`, `ReadToken`, `CheckToken`, seeks; `rdxParseTextManifest`; `rdxDeserializeValue` and its kin | called by loading and saving; the text is what the compiler in Lua writes | text modelled, the reader proved; binary not modelled |
| Structure layout and type relations (`om` 1276-2035, 2572-2610, 3219-3620) | offsets, sizes, reference maps, interfaces and tables of virtual methods of a structured type | `ResolveStructure`, `ValidateStructure`, `HardenStructures`, `TypesCompatible`, `RefTypesCompatibleRecursive`, `EnumCompatible`, `FindInterface` | loading, compiler, marshalling, collector | modelled, proved |
| Runtime threads and PCCM (`rdx_runtime.cpp`, `rdx_interpret2.cpp`, `rdx_pccm_env.cpp`, `rdx_pccm_api.hpp`) | saved frames in a byte array, the frame to go on with, the insertion point, the active native method | `Precall`, `RunMethod`, `EnterMethod`, `ExitFunction`, `rdxExpandFrame`, `rdxResumeThread`, `Reset`, `VisitReferences`, `Trace` | native clients, compiled code and native methods that call back; the collector visits frames | modelled, proved |
| Operation context and mutexes (`rdx_longflow.hpp`, `rdx_threading.hpp`) | exception state, per-thread mutex depth | `RDX_TRY` protocol, `Acquire`, `Release` | everywhere | as failures of allocations in every model; mutexes are compiled out |
| Corelib hash table and arrays (`rdxcorelib/`) | `HashSetBase` object with key, value and element arrays | insert, find, rehash | compiled programs | not modelled |
| Compression (`rdxcompression/`) | windows, frequency models | block sort, move-to-front, run lengths, range coder | nothing; the test program includes its header | not modelled |
| Compiler services (`rdxcompilerservices/`) | lexer position, number parser | lexer, constants, file access for the compiler | self-hosted compiler | not modelled |
| IL compiler (`rdx_ilcomp3.cpp`) | operand stack, local stack, stack actions and journals of a method body, in four passes | one `case` of `CompilePass` for each operation, `SyncJournal`, `CallConvertOpstack`, `StitchJump` | after loading; its journals tell the collector what a frame holds | modelled |
| Source export, native bindings, intrinsics | - | code generation | build time | not modelled |
| Interpreter, zone policy, most of `rdx_runtime.cpp` | - | compiled out with `#if 0` | - | not modelled |
| Compilers of the language (`rdxc/*.lua`, `rdxsrc/*.rdx`) | syntax trees | parse, resolve, emit | build time | what `rdx_emit.lua` writes is modelled as the input of the text reader |
| Lua, LZ4, generated `pccm/`, project files | - | third party or generated | - | not modelled |

### How they interact

All calls are synchronous, on one thread: `RDX_ENABLE_SMP` is not defined
anywhere, and without it the mutexes of the object manager are compiled out.
What takes the place of concurrency is *reentrance through the collector*.
`CreateObjectContainer` (`om` 2672) collects garbage on every `m_gcFrequency`-th
allocation and once more if memory is short, so every function that allocates
twice is interrupted between the two allocations by code that walks the whole
heap, empties weak tables and frees objects.  A failed allocation is an
exception that leaves any function at any allocation, with what was done before
still done.  These two, at every step, are the interleavings and faults the
models explore.  There are no messages, no timers and no crashes to recover
from: nothing but package files is persistent, and these are written whole.

### What is hard here

* an object that nothing but a native frame refers to, during a collection;
* weak tables, whose entries must die with their objects and not a step later;
* tables that change under an `Insert` because constructing the key collects;
* flags and scan lists shared between the collector and the serializer;
* a load in several rounds over several packages, with deferred objects, types
  that are needed to create their own instances, and array types in between;
* loads that fail half way, leaving their packages and symbols in the tables;
* loops that go on as long as "progress" is reported;
* a reader that looks ahead over the end of its buffer and seeks back;
* tables of a parser that live across files and failures;
* stacks of frames that compiled code, native code and failures unwind, and a
  collector that must find every frame between any two of their steps;
* a compiler in four passes, each of which must take the same decisions as the
  one before, that tells the collector where references are.

`PROJECT.json` lists these as hazards, each at its line with the properties
that would notice it going wrong.

### What makes each component correct

* Hash map: at every moment it can be searched it is a map; `load` is exact;
  every entry is on its probe path; rehashing in place ends.
* Heap: nothing reachable is released and all that is not is; no weak entry
  outlives its object; equal strings and array types are one object; an
  allocation fails only when memory is full of objects in use; saved graphs are
  closed.
* Loading: a package that counts as loaded is complete and consistent with the
  tables; references mean what the file says; types are usable; every load
  returns; a sound file is refused only for a known cause.
* Text packages: the reader yields the file's bytes whatever the buffer does;
  what the compiler wrote is what is loaded, in whatever order it was written;
  a manifest is of its own file; what was cut or doubled is refused.
* Types: properties, interfaces and enclosed references do not overlap, and the
  collector's map names exactly the references; compatible types can stand in
  for one another; a virtual call finds a method of the type it is declared with.
* Threads: the areas of calls lie one below the other; whoever a call returns
  to finds the thread as it left it; the collector sees exactly the calls in
  progress, and the parameters of each once.
* IL compiler: at every instruction at which a thread may stop, the journals
  name each live value once and with its type; jumps and handlers do not leave
  lifespans; no list overflows.

## 2. Modules

| Module | Contents |
|---|---|
| `SymbolMap` | what the object manager expects of a table: a partial map with atomic stores that may fail and entries that a collection may remove |
| `HashMap` | the open-addressing table of `rdx_hashmap.hpp`, with collections inside `Insert`; its properties, and the refinement mapping to `SymbolMap` |
| `HashMapProofs` | its inductive invariant, the theorems, and the proof that it implements `SymbolMap` |
| `ObjectHeap` | heap, collector, weak tables, interning, saving |
| `ObjectHeapProofs` | its inductive invariant and the theorems |
| `PackageLoad` | `LoadPackage`, `LoadObject` and `LookupSymbol` with all phases of a load |
| `PackageLoadProofs` | its inductive invariant, the theorems about names, and that a loaded package is complete |
| `StructuresProofs` | the inductive invariant of a load of types, and the theorems about the relations between types |
| `Structures` | how the types of a package are laid out and validated, and the relations between types |
| `RuntimeThread` | a thread's stack: calls of native code, of compiled and of native methods, and what a collection sees of it |
| `RuntimeThreadProofs` | its inductive invariants and the theorems, the collector's walk among them |
| `NaturalInduction` | induction over the naturals, and that recursive functions over them exist; about no code |
| `ILCompiler` | the four passes over a method body |
| `ILCompilerProofs` | its inductive invariant, and the theorems about journals and stack actions |
| `TextTokens` | what a token is, with its escapes |
| `TextCursor` | what a reader of a file promises: a position in the text, and tokens from there |
| `TextReader` | the buffered reader of `rdx_serialize.cpp`, which implements `TextCursor` |
| `TextReaderProofs` | its inductive invariant, and that it implements the unbuffered reader |
| `TextPackage` | the text manifest and the values of all forms |
| `TextExport` | what `rdx_emit.lua` writes of a program |
| `TextRoundTrip` | the two together: what is written, cut or doubled, is read |
| `MCHashMap`, `MCObjectHeap`, `MCPackageLoad`, `MCStructures`, `MCRuntimeThread`, `MCILCompiler`, `MCTextReader`, `MCTextPackage` | instances for TLC |

Definitions called "faulty variant" stand in front of the definition they
vary.  Nothing in a specification uses them; each shows that some property
fails once the code has that mistake.

### HashMap

The state is the array of entries with `numEntries` and `load`.  `pc` says
where a call is: `place` and `construct` are the two halves of `Insert` around
`ConstructKey`, `rehash` is the loop of `Rehash`, `sweep` the loop over a table
in `DestroyUnmarkedObjects`, `balance` the end of a removal.  `BeginInsert`
covers `Insert` up to `EnlargeEntryArray`; `FillEntry` looks the slot up again
as the code does after `ConstructKey`; `SettleEntry` is one exchange of the
in-place rehash.  `caller` remembers whether a sweep interrupts an `Insert`.
`AdvanceCursor` is the step to the next slot, and `FinishRehash` the return to
`Insert` or `Balance`.  `ShrinkFloor` is the constant 8 of `Balance`.

### ObjectHeap

The model is of the time after `InitializeBuiltInTypes`, when `m_initialized`
is set and collections may happen.  An object is an address; a released address
is free to be given out again.  `flags` and `scanLink` are the fields of
`rdxGCInfo`; `pc` walks through a collection (`graph`, `strings`, `aots`,
`symbols`, `packages`, `release`) as `CollectGarbage` does, in one call that
native code does not see the middle of.  `after` says what goes on afterwards:
the second attempt of an allocation, a save, or the end of `Shutdown`.  One
action is one scanned object or one swept table.  Native code (`ClientStep`)
loads and drops counted references, assigns and clears fields, registers and
looks up names, creates plain objects, strings and array types, saves and shuts
down, in any order.  A string is created with two allocations, as in
`CreateStringFromCS` and `ConstructKey`, with a collection possible in each.

### PackageLoad

A file is a constant record of symbols, imports and array types; references are
`<<"local", k>>`, `<<"import", k>>` or `<<"array", k>>`, as `rdxSPackageReference`
has them.  `phase` and `cursor` are the position in `FinishDeserialize` and in
the loop over all symbols of all unloaded packages that most of its steps
consist of; `round` holds `needMoreRounds`, `defer` and `loadedAny`.

| Phases | Code |
|---|---|
| open, dependencies | `LoadPackage`, `LoadSinglePackage`, `rdxDeserializePackage` |
| create critical, import critical | the loop of `CreateInitialObjects(true)` and `ResolveImports` |
| arrays, create arrays | `GeneratePackageArrayDefs`, `CreateInitialObjects(true)` |
| read critical, harden | `LoadSymbolsOfCriticality(true)`, `HardenStructures` |
| create, import, read | `CreateInitialObjects(false)`, `ResolveImports`, `LoadSymbolsOfCriticality(false)` |
| validate, finish | `ValidateStructures`, `FinishPackageLoad`, and the return of the call |

One action is one symbol of a loop, except that `HardenStructures`,
`ValidateStructures`, `ResolveImports` and `FinishPackageLoad` are one step
each: of these only the last allocates, to list the objects for `OnLoad`
callbacks.  Between any two steps memory may run out (`AllocationFails`) or
a collection may happen (`CollectGarbage`), which is here a single step whose
effect `ObjectHeap` justifies: it keeps what is reachable and sweeps the tables.
`Marked` is computed, `MarkingEnds` what the loop of `ContinueGraph` has made true
when it ends: the roots are marked and nothing marked refers to what is not.
`request.disturbed` records whether a collection removed a table entry during
the load under way; no action reads it.

The built-in objects have an address of their own and no package.  The core
package is a file like any other, whose first symbols are recognised as
duplicates of the built-in ones.

### Structures

A program is a function from type names to definitions: class, structure,
interface, enum, array or delegate, with properties, interfaces and a table of
virtual methods; the built-in types have the layout the host gives them, and their
own properties, to which nothing in a package is added, are left out.
`ProgramAssumption` says what was checked before types are laid out: references are
to what they are declared with, the arrays were made one after the other
(`ArraysMade`, which `GeneratePackageArrayDefs` sees to), and a class that the host
declares goes on where those end that it declares for its ancestors.  Offsets inside
of the host's own types come from its compiler (`getPropertyOffsetFunc`) and are not
checked by the object manager: `NativesPlaced` says that they lie behind what the
class derives from, inside of the type and apart, with the sizes that the package
has for the types of these properties, and that no such type implements interfaces.
`BuiltInAssumption` says that sizes are positive and that an enumerant is stored as
`Core.int` is, `AlignmentsNested` that of two alignments the smaller divides the larger,
as powers of two do.
`cursor`, `resolvedAny` and `deferredAny` are the state of the loop of
`HardenStructures`, `laid` the `m_native` part of each type.  One action is one
type of the loop, with all of `ResolveStructure` and its callees: deferral,
inheritance of properties, offsets with the host's sizes, copying of reference
maps, interfaces.  `EndRound` decides on another round, and `Validate` is
`ValidateStructures`.  The relations between types are operators named after
their functions.  An error in a property behind one that must wait is found by
the code only when the first need not wait; the model does so.  A null
`virtualMethods` is an empty table.

### RuntimeThread

The variables are the fields of `rdxCRuntimeThread` (`frame`, `precall`,
`insertion`, `active`), the saved frames in its stack (`heads`, by address), and
what the native stack and the compiled program know (`calls`, `prepared`,
`allocating`).  Each call in progress has the area `low..high` that it may write
to.  `Overwritten` forgets the saved frames that a write to an area destroys, so
that an area that is too low, or a frame that is entered twice, shows.  `Precall`,
`RunMethod`, `Reset` and the returns are the functions of these names;
`EnterManaged` and `EnterNative` the two branches of `EnterMethod`;
`ExitInline`, `ExitReentrant` and `ExitRoot` what `ExitFunction` and the loop of
`rdxResumeThread` do with the three kinds of saved frames.  `Walk` and `Trace`
are the collector's walk.  A stack overflow in `RunMethod` and a failed
allocation of compiled code end in `rdxDebugBreak`: `broken`.  Native code keeps
the discipline that the repository's own native code keeps: a native method
that native code runs directly, the program or another native method, makes no
calls back, failures are passed on, and after one the program calls `Reset`.
Such a method stays in `activeNativeMethod` when it has returned; `named` in a
call is the native method that the call finds there.

### ILCompiler

The program is a sequence of decoded operations.  `pass`, `instrNum` and `comp`
are the position and the state of `CompilePass`: operand stack, local stack,
stack actions, instructions, journals, the counters of the lists.  There is one
action for each `case` of the switch, built from the helpers of the code
(`PopOpstack`, `PushLocal`, `SyncJournal`, `CallConvertOpstack`, `LivenShells`,
`StitchJump`); an action does in each pass what the code does in that pass, and
`Generating` is `pass > rdxPASS_CreateStacks`.  Types are those of a constant
`TypeInfo`.  Left out: the bytes of the bytecode and its decompression,
`rdxCompactJournals`, sizes and alignment of slots, call points, debug tables
and resume flags.

### TextTokens, TextCursor, TextReader

`TextTokens` is one turn of each loop of `ParseToken`: skip white space,
collect a word or a string with escapes, flush what fills the static buffer.
The text has no comments.  `TextReader` runs them on the buffered stream, `memory` to
`streamPosition` being the fields of `rdxCTextFileParser`; `TextCursor` on the
file itself.  A file is a text together with the tokens it was written from, if
it was.  Bytes of UTF-8 sequences are ordinary bytes.

### TextPackage, TextExport, TextRoundTrip

Here a file is a sequence of tokens.  `cursor` is the reader's position,
`localResources`, `importedResources` and `arrayDefs` are the tables of the
parser, which outlive the file; `pkg` is the manifest.  The scan takes one
definition per action; `Resolve` ends `rdxParseTextManifest`; `ReadObject` reads
one object, in the phases of a load, by operators that follow
`rdxDeserializeValue` and yield every outcome that uninitialised slots and the
serializers of native types allow.  An exception in `rdxParseTextManifest` ends
in `unparsed`, one after it in `failed`; `clean` says that the manifest before
this one did not end in `unparsed`.  `TextExport` follows `rdx_emit.lua`: the
passes over the global symbol table, which come in the order that a Lua table
has, and the lines it writes for each kind of symbol, marshals of bound delegates,
static instances and interfaces among them.  Debugging information, which an option
turns on, properties without a name, templates and string constants among the
operands of instructions are left out.  `TextRoundTrip` compares what was read with
what was written.

## 3. Runs

| Run | Instance | What it shows |
|---|---|---|
| `hashmap` | 4 keys, 2 values, up to 8 slots, shrinking from 8 to 4; three keys with one home, the last slot | entries are found, inserts do not collide with what a collection does; it implements `SymbolMap`; rehash ends |
| `heap` | 3 objects, one a package with its name and one external, up to 2 traced references, saves, with fairness | saves are closed, collections are exact, every call returns |
| `heap_tables` | 4 addresses for strings, characters, array types and objects | references and tables name live objects, interning is exact, failure only when full |
| `package_load` | core and three more files, 3 package addresses | complete packages, references as filed, one object per name, causes of refusals |
| `package_malformed` | files with one mistake each, and types nested across packages, with fairness | symbols without objects go no further; loaded types are usable; loads return |
| `types` | programs of four families, their types in several orders, with fairness | layouts, relations, dispatch and casts are sound; laying out ends |
| `thread` | two compiled methods and two native ones that call each other and run each other directly, a stack of 22 | areas, restored state, the collector's walk, parameters |
| `compile` | twelve families of bodies, with a choice of operations at each position | journals, jumps, handlers, capacities, agreement of the passes |
| `text_reader` | all files of up to 3 of 8 byte values, and files written from one to three tokens; buffer 1, front load 3, static buffer 2; one seek | tokens are read back, no difference from an unbuffered reader, the reader stops |
| `text_package` | five programs in every rotation of an order and its reverse, one file cut everywhere and with each definition doubled; any number of loads, one manifest with an error among them | what is written is read, manifests are of the file, damaged files are refused |
| `package_default`, `text_delegates` | as needed | *violations*, see section 6 |

Every property is also checked against a faulty variant of a definition
(`mutants` in `PROJECT.json`), under which the run finds it violated.  `TypeOK` of
each module is no part of a run: in the modules with proofs it is part of a
theorem, in the others a line `TypeOK` under `INVARIANTS` of the configuration
checks it.

### Bounds, and why they are enough

`hashmap`: eight slots let the table grow through all its sizes, become full at
four, shrink, and hold probes that collide, wrap around and pass tombstones;
the proofs cover every size.  `heap*`: with two traced references, three objects make a chain
and two a cycle, so that an object is reachable only through another, and the
saved graph goes on past its first object or ends at the external one; one object
is a package, since names of packages are released with it.  The fourth
address in `heap_tables` is for a string with its characters beside an array type
with its element type; `MaxCounted` and `MaxEdges` bound counts and fields,
and the theorems hold for every value of them.  `package_*`: three package
addresses are one for the core package, one for a package and one for a package
that imports it, and thereby also for an object of a dead package beside its
reloaded package; `MaxHeld` 1 lets native code keep one object or package alive
across calls.  A file has a handful of symbols, one of each sort that the code
distinguishes.  Addresses are interchangeable, which the symmetry sets use;
runs with liveness properties do without symmetry.

`types`: the parts have the sizes 1, 2 and 4 and alignments up to 2, which is
what paddings between and behind members take; `Layouts` nests structures two
deep behind inherited ones, `Refused` has the cycles and malformed definitions,
`Virtuals` a family of three classes with an interface and every way to override,
`Relations` arrays, delegates and interfaces over such a family.  `LargestUInt`
20 makes sizes overflow within reach, and `MaxDepth` 4 the recursion of
arrays of arrays.  `TailPadding` TRUE is the harder of the two ABIs: members of a
subclass may lie in the padding of its parent; the Visual Studio build does not
do so.

`thread`: an alignment of 2 makes paddings of odd sizes happen, and a stack of
22 holds four nested calls with their heads, enough to have a native method
between two compiled ones, and runs out in every kind of call; a second native
method is there to be run by the first.
The theorems cover every size.

`compile`: a family fixes the shape of a body and leaves a choice of operations
or operands at each position, so that each operation meets operands it
accepts and operands it refuses, and jumps lead forwards, backwards, into, out
of and to the ends of lifespans, barriers and handlers.

`text_reader`: the keyword of the instance has two bytes and the reader looks
three ahead.  Files of three bytes put every byte at every place relative to a
buffer of four; those written from tokens are longer than buffer and static
buffer.  `text_package`: the programs hold each kind of symbol that the compiler
writes but bound delegates and their marshals, which `text_delegates` has; the
orders put each symbol before and after each other.  `ErrorBound` 1 lets one
manifest with an error be followed by others, of which the first starts with the
tables that it left and the next with those that this one cleared.  `DepthBound` 3
is the depth of values.

`CHECK_DEADLOCK FALSE` stands where the system stops: after `Shutdown`, a
finished load, a compiled or rejected body, the end of a file, an `rdxDebugBreak`.

### Fairness

`FairSpec` of `HashMap`, `ObjectHeap` and `PackageLoad` asks for weak fairness of
the steps inside a call (`RehashStep`, `SystemStep`, `LoadStep`), never of
native code's choice to make one; `TextReader` of the parser's turns, never of
the choice to seek; `Structures` of its whole `Next`, which is one call.  All run on
one thread, and a function that was entered runs on until it returns; nothing it
does waits for anything else.  Under `LoadStep` fairness the collector and
memory failures remain free to happen or not.

## 4. What is proved

TLAPS checks every step of `HashMapProofs`, `ObjectHeapProofs`,
`PackageLoadProofs`, `StructuresProofs`, `TextReaderProofs`,
`RuntimeThreadProofs`, `ILCompilerProofs` and `NaturalInduction`; nothing is assumed
but the assumptions of the constants (`ConstantsAssumption`, `HeapAssumption`,
`PackageAssumption` with `FileAssumption` and `BuiltInAssumption`,
`ReaderAssumption` with `TokenAssumption`, `ThreadAssumption`, and the
`ProgramAssumption` of the compiler and that of the types with its own
`BuiltInAssumption` and `LargestAssumption`), which say what sorts of values the
parameters are and, for packages, how files name their symbols and what the built-in
types are, and for types what was checked before they are laid out, where the host's
compiler has placed the properties of its own types, and that alignments divide each
other.

### The hash map, for every size, hash function and key set

| Theorem | Statement |
|---|---|
| `Invariance` | `Spec => []Inv` |
| `TypeCorrect`, `KeysUnique`, `LoadExact` | the array is well formed; a key has one slot; `load` is the number of entries |
| `EntriesFound` | outside of a rehash, `FindElementIndex` finds every entry, from the slot its hash names |
| `InsertionSafe` | the slot that `Insert` fills after `ConstructKey` is free, whatever a collection did to the table meanwhile |
| `Implements` | the table is a map with atomic stores (`ImplementsMap`) |

`EntriesFound` is not inductive: during `Rehash` most entries are loose and
nothing is reachable.  `Inv` therefore says for each *settled* entry that the
slots its probe passes hold settled entries too (`RehashEntries`), which when no
loose entry is left (`Settled`) is what searches need (`Reachable`), and that the
array being rehashed has room for all of them (`RehashSizes`).  For
`InsertionSafe` it says that an `Insert` that waits for its key has room left
whatever is removed in the meantime (`PendingOK`) and that its key is still
absent (`PendingAbsent`): collections remove and shrink, but never add.

For `Implements` the table stands for the map of its keys to the values beside
them (`Mapping`).  `MappingKept`, `MappingStored` and `MappingRemoved` say what
moving, writing and clearing entries does to that map; each needs that no key is
in the table twice.  Every action is then a step of `SymbolMap` or none: a store
happens where its slot is filled, which is free by `InsertionSafe`, and
`RequestInv` adds that the arguments of an `Insert` are gone when it has ended.

### The heap, for every set of addresses and every bound

| Theorem | Statement |
|---|---|
| `Invariance` | `Spec => []IInv` |
| `TypeCorrect` | the heap is well formed |
| `NoDanglingReferences` | a counted reference and a field never name a released address (`ReferencesAlive`) |
| `NoDanglingEntries` | no weak table names one, whenever native code can look (`TablesAlive`) |
| `InterningExact` | the tables know every live string and array type, so no two are equal (`InternedOnce`) |
| `SavedGraphClosed` | objects that a save writes refer only to objects it writes or imports (`SaveIsClosed`) |
| `CollectionExact` | a collection releases all that cannot be reached from counted references, and nothing else (`CollectsGarbage`) |
| `FailureMeansFull` | an allocation fails only when the objects in use leave no room |

The argument is the tri-colour one, over the code's own lists: an object is
white on the list of unmarked objects, grey on that of marked ones, black once
it is scanned.

* `ListInv`: in a graph every live object is on a list, and the flags agree with
  it; when the sweep begins nothing is grey.
* `MarkInv`: no black object refers to a white one; while a collection runs
  every root is marked and only reachable objects are.
* `TableInv`, `InternInv`: the entries of a table that was swept are marked, so
  that nothing is released while a table names it, and the tables lose no object
  that is kept.
* `AliveInv`: a released object has neither flags nor references.
* `PhaseInv`, `CallInv`: what goes on after the collection, and what a call of
  native code holds across it - above all the first object of the two that make
  a string, which only its count keeps alive.
* `FullInv`: at the second attempt of an allocation all that lives is in use.

`ReferencesAlive` alone is not inductive: whether `ReleaseCondemned` leaves a
field dangling depends on all that was marked before.

### Names of symbols, for every set of packages and files

| Theorem | Statement |
|---|---|
| `Invariance` | `Spec => []Inv` |
| `NamesOnce` | no two objects that were read have the same name (`OneObjectPerName`) |
| `GlobalsAreRead` | what `LookupSymbol` finds was read and has that name (`GlobalsRead`) |
| `SymbolsCreated` | after the last round of `CreateInitialObjects` every symbol has a type and an object (`EverySymbolCreated`) |
| `NamesKept` | an entry of `m_gst` is never replaced by another object (`UnsharedKept`) |

They hold with a failed allocation or a collection between any two steps.
`FileAssumption` asks of the files that each names a symbol once and, unless the
symbol is duplicable, with a name of its own domain, as the compiler writes them.
The code checks neither; without it two files could define the same name in one
load.  `NamesOnce` and `NamesKept` leave duplicable names out, for which they fail
(section 6).

`OneObjectPerName` is not inductive.  `CreateInitialObjects` looks a name up once,
when it first comes to the symbol, and the object enters `m_gst` when it has been
read, many steps later.  `SymbolsInv` therefore says that such a name stays free
from the look-up on, until that object itself takes it.  Nothing else may define
the name meanwhile, which takes `LoadingInv`: a package under way is the one that
`m_packages` gives for its domain, so there are no two of one domain
(`NamesApart`), and no collection may drop it, since the list of unloaded packages
is a root (`MarkingEnds`).  `GlobalsInv` is then both directions of the table: it
knows every object that was read, and only those.  `SymbolsCreated` has an
invariant of its own, `CreatedInv`: the last round leaves no symbol behind the
cursor without an object, as it refuses every symbol that would have none.

### Loaded packages, for every set of packages and files

| Theorem | Statement |
|---|---|
| `LoadedPackagesReady` | each named symbol of a loaded package has an object that was read and has that name; unless other files may define the name, `m_gst` gives that object for it, and it has the type that the file says (`PackagesReady`) |
| `LoadedPackagesComplete` | loaded packages are complete (`PackagesComplete`), if no file names a duplicable symbol |

This is what `LoadPackage` promises, with failed allocations, failed loads and
collections anywhere before, during and after the load.  Two assumptions matter here.
`FileAssumption` asks that the type of a symbol is in one of the tables of its file,
which the reader of the manifest makes sure of (`ser` 632-686), and
`BuiltInAssumption` that only the core file defines the built-in types, under names
that are not duplicable, and that the critical types are built-in types and arrays of
them (`InitializeBuiltInTypes`, `om` 2095-2130 and 2244).

No step of a load checks that everything was read: the loop of
`LoadSymbolsOfCriticality` runs while an object was put off and another one was read,
and passes over symbols of the other criticality and those without an object.  That
nothing is left over is the work of the whole load:

* `PlacesInv`: the objects of symbols and imports of the packages under way have the
  name and type that the file says (`MadeInv`, `ImportsInv`), so that a duplicate of
  an object that is not duplicable can only be a built-in.
* `EarlyInv`: a symbol of a critical type has its object before the first object is
  read.  Its type is known after one round of imports and array types
  (`KnownEarly`, `ResolvedEarly`), because critical types are built-in; the objects
  that are created later are therefore of the loop that comes later.
* `ReadInv`: after the critical loop no critical object of these packages is unread,
  and after the other none is.  A loop ends when it puts off nothing, and it counts
  what it puts off (`ReadProceeds`, `ReadEnds`).
* `FinishReady`: with `CreatedInv`, every symbol has an object by then, so that the
  packages are complete when `FinishPackageLoad` lets go of them; `LoadedStep` that they
  remain so, since a package keeps what it defines alive (`CollectFrame`) and no later
  load defines its names again (`NamesApart`).

`FirstExport` uses `LeastNumber`: the loop of `ResolveImports` finds the first package
that exports a name.  `PackagesReady` leaves out what `m_gst` says of duplicable names,
because two packages of one load may define the same one, and the second object then
replaces the first (section 6); hence the condition of `LoadedPackagesComplete`.

### Types, for every program and every order of its types

| Theorem | Statement |
|---|---|
| `Invariance` | `Spec => []IInv` |
| `LayoutsMade` | `Spec => []LayoutInv(laid)` |
| `LayoutsSound` | the parts of a value lie behind what the host declares, inside, aligned and apart, and the collector's map names its references, each once (`LayoutSound`) |
| `ConversionsSafe` | what `TypesCompatible` converts without a check at run time is what it is converted to, and two conversions make one (`CompatibleIsSafe`) |
| `CallsAnswered` | a call through a table finds a method of the signature it expects, which takes the object (`DispatchSafe`) |
| `CastsAllowed` | where one object can be referred to as two types, the compiler allows the conversion or the cast between them (`CastsComplete`) |

The code never looks at more than a class and its parent, and the theorems are about
all ancestors.  What carries the one to the other is that types are laid out in an
order: `Ranked` says that the classes that have a layout have numbers that grow from
parent to child.  So there are no circles, a class is reached from `Core.Object` in
finitely many steps, and what a class has from its parent it has from every ancestor
(`ClassInduction`).  `LaidInv` says what it has of its parent's layout: the same
offsets at the same places, the same base, no less of the host's (`Follows`);
`StructureValid` says the rest once all is loaded.

`LayoutInv` says of every layout what one turn of `ResolveStructure` has to do: the
new parts are behind what the type is laid out after, inside of the type, apart
(`PartsApart`) and aligned (`PartsAligned`), which for the types of packages follows
from the running end of `Places` (`PlacesAre`) and for those of the host from
`NativesPlaced`; the reference map is the inherited one and then the references of each
new property, each once and inside of that property (`ReferencesCollected`, `Mapped`).
It also numbers the types, so that what a type was laid out from, its parent or the
structures in it, comes earlier (`Numbered`).  `NextKeepsLayouts` has one step per
action; nothing moves once it is laid out (`MadeStays`), and
what one layout needs of others only grows (`GrownKeeps`).  Of a host class whose parent
is not a class nothing is claimed before `ValidateStructure` has refused it (`Regular`).

`LayoutSound` is about whole values, so it takes the invariant from one level to all.
Inherited parts are where the parent has them, by induction over the classes
(`InheritedKeys`, `AllFit`), and the parts of a value are counted by a bijection with
those that its levels add (`PartsCounted`).  The references in a value are defined by
recursion over the types in it: by the numbers that recursion has one
solution, and the map is it (`EveryReferenceMapped`).

`Inherits` and `RefTypesCompatibleRecursive` carry the type that a search began with,
to stop at circles, and a depth.  `InheritsAbove` and `InitialFromUnmet` show that in a
program that was loaded the first makes no difference, since parents have smaller
numbers and arrays were made after their elements (`ElementsEarlier`).  So a conversion
is what `Converts` says of one level, and by induction over the depth
(`DepthInduction`) conversions compose (`RefTransitive`), and of two types that one
object can be converted to the one can be converted to the other (`RefLinear`).  The
depth never gets in the way: what two conversions reach within
`RDX_MAX_RECURSION_DEPTH`, the one does.

`CallsAnswered` composes overrides: each has the signature of what it overrides but
for the type of "this" (`Matches`), and that type is one the class can be converted to
(`ThisTaken`).  A class without a table under a parent that has one would break the
chain, hence `KeepsTables` in `DispatchSafe` (section 6).  `CastsAllowed` needs that
no class derives from a final one (`AncestorsExtensible`) and that the interfaces of a
class begin with those of its parent.

### The reader, for every file, buffer and front load

| Theorem | Statement |
|---|---|
| `WindowCorrect` | the window is the file's text at the parser's position (`WindowIsText`) |
| `LookAheadEnough` | a look ahead is only cut short by the end of the file (`LooksFarEnough`) |
| `ReadsLikePlain` | the buffered reader is a reader of the file itself (`PlainReader`, an instance of `TextCursor`) |

`ReaderAssumption` asks for what the code has in its constants: a front load
that covers the longest look ahead.  The invariant is that of the table with
`ToldInside`, that a position the parser may return to lies in the file.
`RefillBacklog` (`Refilled`) moves and loads without changing what the window
says, and every turn of the reader then sees what a turn of the unbuffered one
sees (`Sees`), which makes each step one of `TextCursor` (`Step`).

### Threads, for every stack, alignment, head size and set of methods

| Theorem | Statement |
|---|---|
| `Invariance` | `Spec => []Inv` |
| `TypeCorrect` | every address a thread keeps, computes or saves lies in its stack |
| `Areas` | the areas of the calls lie one below the other, what `Precall` prepares below them (`AreasDisjoint`) |
| `Restored` | whoever goes on after a call finds the thread as it left it, the active native method being itself or the one that it last ran directly (`StateRestored`) |
| `TraceInvariance` | `Spec => []TraceInv` |
| `CallsTraced` | the collector's walk ends and finds the calls in progress, each where it is, native methods by the name that `activeNativeMethod` had (`TraceIsTheCalls`) |
| `ParametersOnce` | a collection visits the parameters of each call once, save of a native method that another native method runs (`ParametersVisitedOnce`) |

`StateRestored` speaks of who runs; what a return restores it takes from a head
that was written when the call was made.  `CallsInv` therefore says for every
call in progress that its head still names its caller as that will go on
(`RootSaved`, `Resumes`), which needs that nobody has written to the head since,
which needs `AreasDisjoint`: the two are one induction.  `RunsInv` says what the
fields of the thread hold for whoever runs (`RunByCaller` for a native method that
native code runs directly), `PreparedInv` what `Precall` left,
and `FailedInv` that after a failure only native code is left to go on.  That
whoever receives a failure is native is `OutermostFacts`: of the calls of native
code in progress there is an innermost, and its caller is native
(`CalledByNative`).

The walk of the collector is a recursive function (`Walk`), and what it finds is
proved by induction over its steps.  `Names` relates a frame of the walk to a call;
`ParentNames` shows that `TraceParent` goes from the frame that names a call to one
that names its caller, at the instruction of the call (`AtCall`), which is what
`CallsInv` says of the heads; `WalkIs` and `TraceOf` that the walk from the `m`-th of
some calls ends after `m` steps and lists them.  That it ends within the steps that
`Trace` allows is `CallsFit`: every compiled method takes an address, and every native
one has a compiled caller.  What remains is where the walk starts.  If nothing failed,
`RunsInv` says so.  After a failure the thread has the frame of a call that is no
longer in progress, and its caller's, and so on: `GivenUpInv` says that there are calls
that extend those in progress, whose heads are all still in place, and that the walk
starts at the last of them.  A native method that native code runs directly has no
frame at all, and the walk is that of the calls under it (`Under`); `DirectInv` says
that `precall` still belongs to it.

### The IL compiler, for every program

| Theorem | Statement |
|---|---|
| `Invariance` | `Spec => []IInv` |
| `ActionsName` | the stack actions, replayed, leave what is on the stacks (`StackActionsReplay`) |
| `JournalsApart` | no two journals tell of one slot at one instruction where a thread may stop (`JournalsDisjoint`) |

Nothing is assumed of the types and their conversions, and of the operations only that
their operands are numbers: bodies that the compiler refuses are among the programs.

Neither property is inductive.  `IInv` says of the members between two operations
(`Full`), in the passes that fill the lists:

* `Matched`: the stack journal has an entry for each local and, above these, one for
  each value on the operand stack, at the same slot; `Leading` and `Descending`: the
  parameters come first, and every later entry that stands for a stored value lies
  strictly below all earlier ones.  So no two values share a slot.
* `Spans`: a closed journal lies before every open entry of its slot, and closed
  journals of one slot are apart, all counted in operations.  `PopSpan` closes the
  topmost entry: by `Descending` no other has its slot.  `SplitSpan` is
  `CallConvertOpstack`, which ends a journal *before* the current operation and begins
  the next one there.  It needs an entry that is older than the operation (`Old`),
  which holds because no call pushes before it converts (`Ready`).
* `Timed`: operations that come later begin at later instructions.  `Finish` turns
  operations into instructions by a function that never decreases, so what was apart
  stays apart (`SpansTranslated`).
* `Replay(actions) = Pushed(...)`: results, locals, stored values, in this order.

Each of the 35 operations has two lemmas: its result keeps `Full` or is refused
(`...ResultSound`), and so its action keeps `IInv` (`...Keeps`).  The first are composed
from lemmas about the helpers of the code, in the form `Onward(c, d)`: `d` is sound, and
is accepted only if `c` was.  The second follow from `OperationBegins` (what `MarkOp` and
`AddDebugInfo` leave) and `ProceedKeeps`.  Loops over arguments, results, properties and
clones are recursive functions, and are proved by `SetInduction` over their steps.

The proof found two places where the model did not say what the code does, which no run
had reached: a `clone` of more values than lie above the first one clones its own clones,
and parameters and results of forbidden types are refused before the first operation.
Both are in the model and in the programs of `MCILCompiler` now.

### Induction

The library's induction theorems take an operator as a parameter, which the provers
cannot instantiate.  `SetInduction` states induction with a set instead, and is proved
from the well-foundedness of `<`; `IterationExists` shows that a function defined by
recursion exists, so that its equation may be used (`WalkDefined`).

## 5. What is only model-checked

* Liveness (`RehashTerminates`, `CallsReturn`, `LoadReturns`, `ReaderStops`,
  `LoadSettles`) and with it all fairness: `ENABLED` is outside the prover's reach.
* Of `PackageLoad`: that loaded packages refer to what their files say
  (`ReferencesAsFiled`), that their types can be used (`LoadedTypesUsable`) and that
  refusals have a known cause (`FailureHasACause`).  The first fails for files with
  critical arrays (section 6); the others need invariants about the order in which
  `HardenStructures` lays types out and about the left-overs of failed loads, which are
  not written.  `PackagesComplete` for files with duplicable names is model-checked only;
  what is proved for these is `LoadedPackagesReady`.
* Of `ILCompiler`: that every live value is journaled (`LiveValuesJournaled`), which is
  about each instruction inside of an operation and not about the state between two,
  and whose strict form is false (section 6);
  and what compares two passes.  That the lists are large enough (`CapacitiesHold`)
  needs that each pass pushes what the pass before has counted, and that jumps and
  handlers stay inside of lifespans (`JumpsKeepStacks`, `HandlersKeepLocals`) that
  the third pass has found the lifespans which the fourth one has.  An invariant for
  these relates the state to the one that an earlier pass had at the same operation.
* `TextPackage`, `TextExport` and `TextRoundTrip`, whose recursive operators follow
  the grammar of values.

## 6. Where the code and its texts differ

Two runs end in a violation of what a text of the repository says of the code.

| Run | What the text says | What happens |
|---|---|---|
| `package_default` | `om` 4281: an instance that is a default can be loaded into the default of its type | `rdxCanDeserializeObject` refuses it for ever, and the loop goes on because progress is reported |
| `text_delegates` | `rdxsrc/Apps/RegressionTest.rdx:393` calls `TestBoundDelegates()` | the compiler writes bound delegate types without the `defaultValue` that `DeserializeTextInstance` (`rdx_structuredtype.cpp` 112) requires, and the loader refuses the package |

Ten more properties state what a comment says, or what the properties that are
checked leave out, and are refuted as soon as they are named in a configuration:

| Property, and where to name it | What the comment says | What happens |
|---|---|---|
| `AssignmentMarks`, PROPERTY of `MCObjectHeap.cfg` | `rdx_objectmanagement.hpp:95`: assigning an object that is not marked to a traced reference marks it | `AssignRef` and `ExternalGCMarkObject` (`om` 515) test the same flag in opposite senses, and nothing is ever marked.  Harmless as long as a collection runs to its end in one call |
| `TypesResolvedBeforeArrays`, INVARIANT of `MCPackageLoadMalformed.cfg` | `om` 4640: "All types should be resolved at this point" | the rounds (`om` 4636) end at the first one that finds no duplicate; a package with an array of its own type does not load |
| `ReturnedPackagesLoaded`, INVARIANT of `MCPackageLoad.cfg` | `om` 4675: "It will fully load one package and dependencies." | a failed load leaves its packages in `m_packages` (`om` 4334), and the next call returns them |
| `TracedWhereItIs`, INVARIANT of `MCRuntimeThread.cfg` | `rdx_ilcomp.hpp:240`: "The value starts existing on the NEXT instruction." | an allocation saves the number of its instruction (`rdx_pccm_env.cpp` 150) where the reader expects one more, so a collection inside it uses the journals of the instruction before |
| `ActiveIsRunning`, INVARIANT of `MCRuntimeThread.cfg` | `rdx_runtime.hpp:134`: "Currently active native method" | `RunMethod` does not restore it after a native method that it ran at once (`rdx_interpret2.cpp` 216-219): the native method that called finds the other one, and the heads of its later calls name that one |
| `AllParametersVisited`, INVARIANT of `MCRuntimeThread.cfg` | no text; the strict form of `ParametersVisitedOnce` | while a native method runs that another native method has called, nobody visits its parameters |
| `WhateverIsOnTheStackTraced`, INVARIANT of `MCILCompiler.cfg` | `ilc` 1107: "Anything on the opstack at the time of call can be traced." | a value that an operation pushes without an instruction (the copy of a constant pointer, a property of what the pointer before refers to) has its journal begin at the very instruction that stops the thread, when that one comes next, and it counts from the one after |
| `LoopsTick`, INVARIANT of `MCILCompiler.cfg` | `rdx_ilcomp.hpp:95`: "Reverse-direction jumps will also decrement the timeslice counter" | a jump to a backward jump skips its tick (`ilc` 1627); jumps that lead to one another never tick |
| `EveryManifestIsOfItsFile`, INVARIANT of `MCTextPackage.cfg` | no text; `ManifestIsOfTheFile` without its condition | after an error the tables keep their entries (`ser` 690-692 are not reached), and the next file is read with the names of the last one |
| `WrittenIsLoaded`, INVARIANT of `MCTextPackage.cfg` | no text; `WrittenIsRead` without its exception | an initializer with a delegate is refused if the method was not read before (`om` 3606), which is the order of a Lua table |

Others were met on the way and have no property of their own.

*Hash map and heap*

* `RemoveEntry` (`rdx_hashmap.hpp` 244-250) means to empty a slot that is
  followed by an empty one, but `DestroyEntry` then turns it into a tombstone
  all the same.  Probes are longer than they need be, and nothing is lost.
* An object is not released when its count falls to zero
  (`rdx_reftypecode_baseref.hpp` 106), as `rdx_objectmanagement.hpp` 92-94 says,
  but at the next collection.
* `Shutdown` releases all objects before the object manager's own counted members
  (`om` 911); the stack bytes of a collected thread are not freed (`om` 3103);
  a collection frequency of 0 divides by zero (`om` 2694).

*Loading*

* `m_forcePackagesRelevant` is set (`om` 4678) and never read.  A package that
  was loaded before, and that only the load under way needs, can be collected in
  the middle of it; its symbols are then unresolved.
* A duplicable symbol defined by two packages of one load gets two objects, and
  the second replaces the first in `m_gst` (`om` 4291).  The files of the runs
  define such symbols only in packages of different loads; without that
  restriction `GlobalsKept` fails.  Of all other names it is the theorem `NamesKept`.
* After a `LoadObject` that failed, the runtime package (`om` 4398) is still in
  `m_packages`, and a later `LoadObject` returns null.  The model does so.
* Critical objects may refer only to critical ones (`rdx_gcinfo.hpp` 65), but a
  critical array is created after the last `ResolveImports` before critical
  objects are read (`om` 4643), so another package of the same load that imports
  it reads null.  In the files of the runs only types are critical; with such an
  array `ReferencesAsFiled` fails.
* Two array definitions that name each other as element types keep
  `GeneratePackageArrayDefs` (`om` 4157) turning.
* Structures are validated (`om` 4498) after their names have been published in
  `m_gst`, where they stay when validation throws.
* `FailureHasACause` lists the causes for which a sound file is refused: memory,
  a left-over of an earlier failure, an array that outlived its package, and a
  collection in the middle of the load.

*Types*

* A class with a null table of methods under a parent with one passes
  validation (`om` 1389), and a call through it indexes nothing; the comment at
  `om` 1481 relies on the match.  `DispatchSafe` leaves such families out.
* Abstract methods that a class adds itself are not checked (`om` 1422-1435).
* A class that is not native dereferences null if it has no parent (`om` 1638), as
  bound delegate types are written, or if its parent is a struct, an interface or an
  enum that is not native (`om` 1643): before `ValidateStructure` could refuse it.
  `types` has both, and `crashed` is their outcome.
* An inherited property that is declared again with another type is refused only
  after data was read through it (`om` 1455 against the note at 4483).
* `structureIsMutable` reads a flag of the type where its parent is meant
  (`om` 1652), and the comment of the flag says the opposite
  (`rdx_programmability.hpp` 398).  Structures with non-zero defaults inside do
  not reset `zeroFill` (397; `om` 3639).  `ResolveStructureDefault` overlays from
  the first property on, inherited ones too (`om` 3738), and copies from the
  object, not its data (3753).
* Offsets of interfaces are not moved by the host's base offset (`om` 1692).

*Threads*

* If a native method that native code ran directly called back, it would overwrite
  its own parameters (`rdx_runtime.cpp` 1430); the discipline excludes it.
* A call after a failure, without `Reset`, walks to a frame without a native
  method (`rdx_runtime.cpp` 1518).
* `Invoke` of a virtual method reads `this` from above the stack
  (`rdx_method.cpp` 213); `JournalEntry` returns the first journal for 0 and for
  1 (`rdx_runtime.cpp` 1680).

*IL compiler*

* The check in `startbarrier` (about `ilc` 1367) is never true; jumps from
  outside to the operation that ends a lifespan or a barrier are accepted.
* `calldelegate` of a local that is no parameter leaves its stack action 0
  (`ilc` 2063-2076); the size of a lifespan that `LivenShell` tests first makes
  `rdxMOP_unshell` unreachable in calls.
* `rcast_otoi`, `rcast_itoi`, `rcast_itoo` and `newinstance_local` throw but are
  not among `RDX_RESUMABLE_OPCODES`, against the comment at 305.
* A cast of a value of the null type to an incompatible value type dereferences
  null; a clone of a constant pointer pushes a value no instruction makes.
* `clone` checks the wrong end of the stack (`ilc` 3203): when the count exceeds the
  offset by more than one it goes on with the copies it has just made.
* A shell that was synchronised before it came alive is journaled
  (`pushempty; newinstance; pop; pop`), against `rdx_ilcomp.hpp` 92; polymorphic
  casts get no tick, against 97-104.
* The span of a handler whose last operation emits nothing covers the next one; a
  `try` inside a lifespan that ends within its span is accepted.

*Text packages*

* `RDX.DelegateType` is critical (`om` 2244) but the array of its return types is
  not (2393, 2456), so a tuple may be read as null, against `rdx_gcinfo.hpp`
  65; then no method is compatible with the delegate type.
* An anonymous symbol is moved to the domain of run time objects (`ser` 1622) and its
  name is no longer found: a package that refers to one of its own is refused,
  against the compiler's message (`rdx_errors.lua` 163) that it "can only be accessed
  within its own package".
* The compiler's list of reserved words (`rdxc/rdx_compile.lua` 92) lacks
  `arraydef`.  A keyword is not seen after white space at the start of a file, and
  the scan looks inside bodies.
* Tokens longer than the static buffer lose the part that was flushed (`ser`
  196); `PeekBytes` at the end of a file leaves bytes uninitialised (257); the
  result of `rdxDecodeString` is not looked at.
* `SeekCurrent` seeks from where the stream is, past what was read ahead, and
  `rdxWin32FileStream::SeekCurrent` seeks from the start of the file
  (`rdx_appservices_win32.cpp` 206).
* The binary writer and reader do not agree: identifiers of strings, location
  bytes, the order of array definitions, the fields of symbols and the catalog
  offset differ, array definitions are never stored (`ser` 840-855), and
  `rdxReadBinarySymbolIndex` accepts `rdxPSL_Count`.

## 7. What is not modelled, and why

* *Hash map:* `Clear` and `SetElement`, of which the latter has no caller.
* *Heap:* the bootstrap before `m_initialized`, when nothing is collected;
  `GCObjectList`.  That threads are roots is in `RuntimeThread`, from the thread's
  side.
* *Loading:* the host's policies; `OnLoad` callbacks and `m_unprocessedObjects`,
  which run compiled code; the type checks of each value that is read;
  `VerifyDuplicates`, whose body is compiled out.
* *Binary packages:* the writer and the reader disagree as section 6 says, so
  that there is no format to model.
* *Types:* the flags `zeroFill`, `bulk` and `mutable`, and the bytes of defaults.
* *Threads:* the values in frames, and `Invoke` of delegates.
* *IL compiler:* see section 2.  `rdx_ilcomp.cpp` and `rdx_ilcomp2.cpp` are earlier
  versions of it that the build excludes.
* *Core library:* written against an earlier interface of the runtime, whose
  headers are not in the repository.
* *Compression:* encoders without a decoder or a caller.
* *Compiled out:* the interpreter's loop, the zone policy, the decompiler of IL and
  lines 153-1417 of `rdx_runtime.cpp` stand between `#if 0` and `#endif`.
* *Build-time tools:* source export, the lexers, parsers and code generators of
  `rdxc/` and `rdxsrc/` map programs to programs and keep no state between.
* *Not the program's own:* Lua, LZ4 and the generated `src/pccm/`.

Excluded, generated, compiled out and third-party code is about half of all lines, and
input and output most of the rest; the models are of what decides.

## 8. Plan

The modules planned for the core are written.  What is left, in this order:

1. `RuntimeThread` composed with `ObjectHeap`, for which the frames of a thread
   are roots, and with the journals of `ILCompiler`.
2. An abstract heap in which a collection is one step, and a proof that
   `ObjectHeap` implements it.
3. What the objects of loaded packages refer to (`ReferencesAsFiled`) as a theorem, for
   files without critical arrays, on top of `PackagesReady`.
4. The binary format, once its writer and its reader agree.
