------------------------------ MODULE ILCompiler ------------------------------
(***************************************************************************)
(* The compiler of method bodies (rdx_ilcomp3.cpp, rdxCompileMethod).      *)
(*                                                                         *)
(* A body is a sequence of operations of a stack machine.  The compiler    *)
(* checks them, gives every value a place in the frame of the method, and  *)
(* emits instructions together with journals: the spans of instructions in *)
(* which a place holds a value, which the collector, the debugger and the  *)
(* serializer of threads go by.  It runs the same pass over the body four  *)
(* times.  The first only finds how deep the stacks get, the second checks *)
(* the operations and counts what they emit, the third fills the lists and *)
(* finds from where every operation may be jumped to, the fourth stitches  *)
(* the jumps.  A list that is not allocated yet takes what is pushed as a  *)
(* count and gives zeros back.                                             *)
(*                                                                         *)
(* Every value that is stored takes one slot of the frame: sizes and       *)
(* alignments are left out, as are the operands of an instruction that do  *)
(* not name a value or a target, and the flags of moves.                   *)
(***************************************************************************)
EXTENDS Integers, Sequences, FiniteSets

CONSTANTS
  TypeInfo,     \* types -> [kind, element, constant, dims, props, fixed, interfaces]
  Null,         \* no type, no object
  Conversions,  \* the pairs of types that convert without a check
  Polymorphic,  \* the pairs that a cast checks when it is executed
  Exception,    \* the type of Core.Exception
  LargeUInt, Bool, Varying,
  MethodInfo,   \* methods and delegate types -> what a call of them needs
  ObjectInfo,   \* objects that an operation may name -> [type, constant, count]
  Programs      \* the methods: [ops, debug, params, returns]

\* The operands of an operation are signed numbers, and everything that is
\* counted has a number of elements.
ASSUME ProgramAssumption ==
  /\ \A m \in Programs :
       /\ {Len(m.ops), Len(m.params), Len(m.returns)} \subseteq Nat
       /\ \A k \in 1..Len(m.ops) : \A o \in m.ops[k] :
            o.sint1 \in Int /\ o.sint2 \in Int /\ Len(o.props) \in Nat
  /\ \A i \in DOMAIN MethodInfo :
       {Len(MethodInfo[i].params), Len(MethodInfo[i].returns)} \subseteq Nat

VARIABLES
  method,    \* the method that is compiled
  decOps,    \* the operations of its body, as far as they have been read
  pass,      \* which pass runs, or how the compilation has ended
  instrNum,  \* the operation that is compiled next
  comp,      \* the other members of the compiler
  capacity,  \* the lists that are allocated, with their sizes
  recorded,  \* the instructions in the list when the pass began
  frames     \* what the last pass has found on the stacks before each operation

vars == <<method, decOps, pass, instrNum, comp, capacity, recorded, frames>>

Passes == <<"create", "generate", "record", "stitch", "compiled">>
Generating == pass # "create"

\* Each place of the body holds one of the operations that ops has there.
Length == Len(method.ops)
NumParameters == Len(method.params)

(***************************************************************************)
(* Types.                                                                  *)
(***************************************************************************)
KindOf(t) == IF t = Null THEN "null" ELSE TypeInfo[t].kind
TypeIsObjectReference(t) == KindOf(t) \in {"null", "class", "abstract", "array", "delegate"}
TypeIsInterface(t) == KindOf(t) = "interface"
TypeIsClass(t) == KindOf(t) \in {"class", "abstract"}
TypeIsRefStruct(t) == KindOf(t) = "refstruct"
Structured(t) == KindOf(t) \in {"class", "abstract", "interface", "refstruct", "struct", "enum"}
IsType(o) == o \in DOMAIN TypeInfo

\* Stored in place, and copied from a default that is not all zeros.
ByValue(t) == KindOf(t) \in {"struct", "refstruct", "enum"}
HasDefault(t) == ByValue(t) /\ ~TypeInfo[t].zero

TypesCompatible(s, t) ==
  \/ s = t
  \/ s = Null /\ TypeIsObjectReference(t)
  \/ <<s, t>> \in Conversions

TypesCompatiblePolymorphic(s, t) == <<s, t>> \in Polymorphic

(***************************************************************************)
(* The lists.                                                              *)
(***************************************************************************)
NoValue == [vst |-> "Invalid", type |-> Null, offset |-> 0, sa |-> 0, id |-> 0,
            count |-> 0, created |-> 0, index |-> 0, notNull |-> FALSE,
            demoted |-> FALSE]
NoLocal == [type |-> Null, pointer |-> FALSE, parameter |-> FALSE, const |-> FALSE,
            notNull |-> FALSE, offset |-> 0, created |-> 0, sa |-> 0]
NoEntry == [start |-> 0, type |-> Null, offset |-> 0, vst |-> "Invalid", id |-> 0,
            record |-> FALSE]
NoInstruction == [code |-> "none", by |-> 0, uses |-> {}, makes |-> {}, target |-> -1]

Stacks == {"opstack", "localstack", "stackjournal"}
Outputs == {"il", "journal", "actions", "handlers", "recovery"}

Zeros == [opstack |-> NoValue, localstack |-> NoLocal, stackjournal |-> NoEntry,
          il |-> NoInstruction, journal |-> <<>>, actions |-> "none",
          handlers |-> <<>>, recovery |-> <<>>]

Allocated(list) == list \in DOMAIN capacity

Larger(m, n) == IF m < n THEN n ELSE m

PushList(c, list, x) ==
  [c EXCEPT ![list] = Append(@, IF Allocated(list) THEN x ELSE Zeros[list]),
            !.maximum[list] = Larger(@, Len(c[list]) + 1)]

PopList(c, list) ==
  IF c[list] = <<>> THEN [c EXCEPT !.ok = FALSE]
  ELSE [c EXCEPT ![list] = SubSeq(@, 1, Len(@) - 1)]

\* The element that lies k below the top of a stack.
Top(c, list, k) ==
  IF k < Len(c[list]) THEN c[list][Len(c[list]) - k] ELSE Zeros[list]

Bottom(c, k) ==
  IF k < Len(c.localstack) THEN c.localstack[k + 1] ELSE NoLocal

Require(c, condition) == IF condition THEN c ELSE [c EXCEPT !.ok = FALSE]

Has(c, n) == Len(c.opstack) >= n

EmptyOrBarrier(c) == c.opstack = <<>> \/ Top(c, "opstack", 0).vst = "Barrier"

PointerVST == {"Pointer", "ConstPointer"}
StoredVST == {"Value", "ValueShell", "Varying"} \cup PointerVST

OpstackUsed(vst) == IF vst \in StoredVST THEN 1 ELSE 0

OpstackBaseLocation(c) ==
  IF c.opstack # <<>> THEN Top(c, "opstack", 0).offset
  ELSE IF Top(c, "localstack", 0).parameter THEN 0
  ELSE Top(c, "localstack", 0).offset

New(vst, t) == [NoValue EXCEPT !.vst = vst, !.type = t]

\* Pushes v, which leaves the stored value in c.v.
AppendOpstack(c, v) ==
  LET placed ==
        IF ~Generating THEN v
        ELSE [v EXCEPT !.offset = OpstackBaseLocation(c) - OpstackUsed(v.vst),
                       !.sa = Len(c.actions), !.id = c.nextID]
      numbered == IF Generating THEN [c EXCEPT !.nextID = @ + 1,
                                               !.lowest = -Larger(-@, -placed.offset)]
                  ELSE c
      pushed == PushList(PushList(numbered, "opstack", placed), "stackjournal",
                  [start |-> instrNum, type |-> placed.type, offset |-> placed.offset,
                   vst |-> placed.vst, id |-> placed.id, record |-> FALSE])
      action == IF v.vst \in PointerVST THEN "PushPointer"
                ELSE IF v.vst = "Varying" THEN "PushVarying" ELSE "PushValue"
  IN  [(IF Generating /\ v.vst \in StoredVST THEN PushList(pushed, "actions", action)
        ELSE pushed) EXCEPT !.v = placed]

Journal(c, entry, v) ==
  PushList(c, "journal",
    [start |-> entry.start, end |-> instrNum, offset |-> entry.offset,
     type |-> IF v.demoted THEN v.type ELSE entry.type, parameter |-> FALSE])

PopMatches(expected, v) ==
  \/ expected = "Indeterminate" \/ v.vst = expected
  \/ expected = "ConstPointer" /\ v.vst = "Pointer"

\* A value that can be traced leaves its journal behind.
JournalPopped(c, entry, v) ==
  IF Generating /\ entry.record /\ entry.vst \notin {"Barrier", "LocalRef"}
  THEN Journal(c, entry, v) ELSE c

\* The popped value goes into c.v.
RecordPop(c, v) ==
  [(IF Generating /\ v.vst \in StoredVST THEN PushList(c, "actions", "Pop") ELSE c)
     EXCEPT !.v = v]

PopOpstack(c, expected) ==
  LET top == Top(c, "opstack", 0)
      entry == Top(c, "stackjournal", 0)
      popped == PopList(PopList(c, "opstack"), "stackjournal")
      checked == Require(popped, Generating => PopMatches(expected, top))
  IN  RecordPop(JournalPopped(checked, entry, top), top)

AppendLocal(c, t, created, param) ==
  LET top == Top(c, "localstack", 0)
      offset == IF param.parameter THEN 0 ELSE top.offset - 1
      numbered == [c EXCEPT !.nextID = @ + 1, !.lowest = -Larger(-@, -offset)]
      journaled == PushList(numbered, "stackjournal",
                     [start |-> instrNum, type |-> t, offset |-> offset, vst |-> "Value",
                      id |-> c.nextID, record |-> FALSE])
      pushed == PushList(journaled, "localstack",
                  [type |-> t, pointer |-> param.pointer, parameter |-> param.parameter,
                   const |-> param.const, notNull |-> param.notNull, offset |-> offset,
                   created |-> created, sa |-> Len(c.actions)])
  IN  PushList(Require(pushed, t # Null), "actions", IF param.parameter THEN "PushParameter"
                                                     ELSE "PushLocal")

NoParameter == [pointer |-> FALSE, parameter |-> FALSE, const |-> FALSE, notNull |-> FALSE]

\* Variants of PopLocal: the stack journal keeps the local, or the stack
\* actions do.
PopLocalKeepingEntry(c) == PushList(PopList(c, "localstack"), "actions", "Pop")

PopLocalWithoutAction(c) ==
  LET entry == Top(c, "stackjournal", 0)
      popped == PopList(PopList(c, "localstack"), "stackjournal")
  IN  IF Generating /\ entry.record THEN Journal(popped, entry, NoValue) ELSE popped

PopLocal(c) ==
  LET entry == Top(c, "stackjournal", 0)
      popped == PopList(PopList(c, "localstack"), "stackjournal")
      acted == PushList(popped, "actions", "Pop")
  IN  IF Generating /\ entry.record THEN Journal(acted, entry, NoValue) ELSE acted

\* A variant of SyncJournal that forgets the locals.
SyncOpstack(c) ==
  LET first == Len(c.stackjournal) - Len(c.opstack) + 1
  IN  [c EXCEPT !.stackjournal =
         [k \in DOMAIN @ |-> IF k >= first THEN [@[k] EXCEPT !.record = TRUE] ELSE @[k]]]

\* Everything that is on the stacks can be traced from here on.
SyncJournal(c) ==
  IF Allocated("stackjournal")
  THEN [c EXCEPT !.stackjournal = [k \in DOMAIN @ |-> [@[k] EXCEPT !.record = TRUE]]]
  ELSE c

\* The shells whose ids are given hold a value from the current operation on.
LivenJournal(c, ids) ==
  [c EXCEPT !.stackjournal =
     [k \in DOMAIN @ |-> IF @[k].id \in ids THEN [@[k] EXCEPT !.start = instrNum] ELSE @[k]]]

\* Turns the shells among the topmost n values into values.
LivenShells(c, n) ==
  LET top == {k \in DOMAIN c.opstack : k > Len(c.opstack) - n}
      shells == {k \in top : c.opstack[k].vst = "ValueShell"}
  IN  LivenJournal([c EXCEPT !.opstack =
                      [k \in DOMAIN @ |-> IF k \in shells THEN [@[k] EXCEPT !.vst = "Value"]
                                          ELSE @[k]]],
                   {c.opstack[k].id : k \in shells})

\* A variant of CallConvertOpstack whose old journal goes on.
ConvertKeepingStart(c, k, t) ==
  LET v == Top(c, "opstack", k)
      entry == Top(c, "stackjournal", k)
      at == Len(c.opstack) - k
  IN  [(IF entry.start # instrNum - 1 THEN Journal(c, entry, v) ELSE c) EXCEPT
         !.opstack[at].demoted = TRUE, !.opstack[at].type = t]

\* The argument that lies k below the top becomes a value of type t.  Its
\* journal ends before the current operation and a new one begins there.
CallConvertOpstack(c, k, t) ==
  LET v == Top(c, "opstack", k)
      entry == Top(c, "stackjournal", k)
      split == PushList(c, "journal",
                 [start |-> entry.start, end |-> instrNum - 1, offset |-> entry.offset,
                  type |-> IF v.demoted THEN v.type ELSE entry.type, parameter |-> FALSE])
      at == Len(c.opstack) - k
      journalAt == Len(c.stackjournal) - k
  IN  [(IF entry.start # instrNum - 1 THEN split ELSE c) EXCEPT
         !.stackjournal[journalAt].start = instrNum - 1,
         !.opstack[at].demoted = TRUE,
         !.opstack[at].type = t]

(***************************************************************************)
(* Instructions.                                                           *)
(***************************************************************************)
Emit(c, code, uses, makes, target) ==
  PushList(c, "il", [code |-> code, by |-> instrNum, uses |-> uses, makes |-> makes,
                     target |-> target])

EmitSimple(c, code) == Emit(c, code, {}, {}, -1)

\* An instruction that jumps to the operation skip it.
Tick(c) == [EmitSimple(c, "tick") EXCEPT !.meta[instrNum].translated = @ + 1]

TickIfBackwards(c, o) == IF o.sint1 <= 0 THEN Tick(c) ELSE c

Labels == 0..Length - 1

\* A variant of MayJump without the lifespans.
MayJumpAnywhere(c, dest) == pass = "stitch" => dest \in Labels /\ c.meta[dest].valid

MayJump(c, dest) ==
  \/ pass # "stitch"
  \/ /\ dest \in Labels
     /\ instrNum \in c.meta[dest].min..c.meta[dest].max
     /\ c.meta[dest].valid

\* Debug information is skipped.
FindJumpTarget(at) ==
  IF pass \notin {"stitch", "compiled"} THEN at
  ELSE CHOOSE j \in at..Len(recorded) - 1 :
         /\ recorded[j + 1].code # "debuginfo"
         /\ \A k \in at..j - 1 : recorded[k + 1].code = "debuginfo"

StitchJump(c, dest) ==
  IF pass = "stitch" /\ dest \in Labels THEN FindJumpTarget(c.meta[dest].translated) ELSE 0

EmitJump(c, code, uses, dest) ==
  Emit(Require(c, dest \in Labels /\ MayJump(c, dest)), code, uses, {}, StitchJump(c, dest))

\* A variant of NarrowJumps that lets what follows a lifespan jump back in.
NarrowFromBelow(c, first, min) ==
  [c EXCEPT !.meta =
     [i \in Labels |-> IF i \in first..instrNum - 1 THEN [@[i] EXCEPT !.min = Larger(@, min)]
                       ELSE @[i]]]

\* An operation that can be jumped to only from within min..instrNum.
Narrowed(label, min) ==
  [label EXCEPT !.min = Larger(@, min), !.max = -Larger(-@, -instrNum)]

NarrowJumps(c, first, min) ==
  [c EXCEPT !.meta =
     [i \in Labels |-> IF i \in first..instrNum - 1 THEN Narrowed(@[i], min) ELSE @[i]]]

(***************************************************************************)
(* What each operation does to the compiler.  o is the operation, c the    *)
(* members before it.                                                      *)
(***************************************************************************)
\* A value of type t is pushed, and made by one instruction.
Make(c, v, code, uses) ==
  LET d == AppendOpstack(c, v) IN Emit(d, code, uses, {d.v.sa}, -1)

StartBarrierResult(c, o) ==
  LET checked == Require(c, Generating => o.sint1 >= 1 /\ Has(c, o.sint1))
  IN  AppendOpstack(checked, [New("Barrier", Null) EXCEPT !.count = o.sint1,
                                                         !.created = instrNum])

EndBarrierResult(c, o) ==
  LET popped == PopOpstack(c, "Barrier")
      barrier == popped.v
      narrowed == NarrowJumps(popped, barrier.created, barrier.created)
      flushed == EmitSimple(Require(narrowed, /\ instrNum > 0 /\ decOps[instrNum].op = "return"
                                              /\ Has(popped, barrier.count)), "hardenstack")
  IN  IF Generating THEN LivenShells(flushed, barrier.count) ELSE popped

ThrowResult(c, o) ==
  LET popped == PopOpstack(SyncJournal(Require(c, Len(c.opstack) = 1)), "Value")
      v == popped.v
  IN  IF ~Generating THEN popped
      ELSE Emit(Require(popped, v.type # Null /\ TypesCompatible(v.type, Exception)),
                "throw", {v.sa}, {}, -1)

\* The catch of the given type that o names.
Catches(dest, t) == decOps[dest + 1].op = "catch" /\ decOps[dest + 1].res = t

TryResult(c, o) ==
  LET last == instrNum + o.sint2
      catch == instrNum + o.sint1
      placed == /\ c.opstack = <<>> /\ o.sint2 >= 1
                /\ last \in Labels /\ catch \in Labels /\ catch # Length - 1
  IN  PushList(Require(c, /\ placed
                          /\ Generating => Catches(catch, Exception)
                          /\ MayJump(c, last) /\ MayJump(c, catch)), "handlers",
        [start |-> instrNum + 1, end |-> last - 1, handler |-> catch + 1, slot |-> 0])

CatchResult(c, o) ==
  LET caught == IsType(o.res) /\ TypesCompatible(o.res, Exception)
      pushed == AppendOpstack(Require(c, c.opstack = <<>> /\ caught), New("Value", o.res))
  IN  PushList(Emit(pushed, "catch", {}, {pushed.v.sa}, -1), "recovery",
               [by |-> instrNum, slot |-> pushed.v.offset])

TryCastResult(c, o) ==
  LET catch == instrNum + o.sint1
      v == Top(c, "opstack", 0)
      placed == /\ Len(c.opstack) = 1 /\ catch \in Labels /\ catch # Length - 1
                /\ IsType(o.res) /\ TypesCompatible(o.res, Exception)
      checked == Require(SyncJournal(c), placed /\
                   (Generating => /\ Catches(catch, o.res) /\ v.vst = "Value"
                                  /\ v.type = Exception /\ MayJump(c, catch)))
      target == IF pass = "stitch" THEN FindJumpTarget(c.meta[catch + 1].translated) ELSE 0
  IN  IF ~Generating \/ ~checked.ok THEN checked
      ELSE IF o.res = Exception THEN Emit(checked, "jump", {}, {}, target)
      ELSE Emit(checked, "jinherits", {v.sa}, {}, target)

JumpResult(c, o) ==
  IF ~Generating THEN c
  ELSE EmitJump(TickIfBackwards(SyncJournal(Require(c, EmptyOrBarrier(c))), o),
                "jump", {}, instrNum + o.sint1)

ExpectedVST(p) ==
  IF p.type = Varying THEN "Varying"
  ELSE IF ~TypeIsRefStruct(p.type) THEN "Value"
  ELSE IF p.const THEN "ConstPointer" ELSE "Pointer"

Exact(s, t) == s = t \/ t = Varying

PopArgument(c, p, exact) ==
  LET popped == PopOpstack(c, ExpectedVST(p))
      suits == IF exact THEN Exact(popped.v.type, p.type)
               ELSE TypesCompatible(popped.v.type, p.type)
  IN  Require(popped, Generating => suits)

\* Pops the arguments for params, the last first.  Each must have the type of
\* its parameter, or one that is compatible with it.
PopArguments(c, params, exact) ==
  LET pops[k \in 0..Len(params)] ==
        IF k = 0 THEN c ELSE PopArgument(pops[k - 1], params[Len(params) - k + 1], exact)
  IN  pops[Len(params)]

\* Pops n values.
PopValues(c, n, expected) ==
  LET pops[k \in 0..n] == IF k = 0 THEN c ELSE PopOpstack(pops[k - 1], expected)
  IN  pops[n]

JumpIfResult(c, o) ==
  LET info == MethodInfo[o.res]
      isMethod == o.res \in DOMAIN MethodInfo /\ info.branching
      synced == SyncJournal(TickIfBackwards(c, o))
      popped == PopArguments(synced, info.params, FALSE)
  IN  IF ~isMethod THEN Require(c, FALSE)
      ELSE EmitJump(Require(popped, Generating => EmptyOrBarrier(popped)), "jcompare",
                    IF info.params = <<>> THEN {} ELSE {Top(c, "opstack", 0).sa},
                    instrNum + o.sint1)

JumpIfTrueResult(c, o) ==
  LET popped == PopOpstack(TickIfBackwards(SyncJournal(c), o), "Value")
      v == popped.v
      tested == IF o.op = "jumpiftrue" THEN v.type = Bool
                ELSE TypeIsObjectReference(v.type) \/ TypeIsInterface(v.type)
  IN  IF ~Generating THEN popped
      ELSE EmitJump(Require(popped, EmptyOrBarrier(popped) /\ tested), "jtest", {v.sa},
                    instrNum + o.sint1)

JumpIfEqualResult(c, o) ==
  LET first == PopOpstack(SyncJournal(c), "Indeterminate")
      popped == PopOpstack(first, "Indeterminate")
      v == first.v
      w == popped.v
      kinds == IF TypeIsRefStruct(v.type) THEN PointerVST ELSE {"Value"}
  IN  IF ~Generating THEN popped
      ELSE EmitJump(Require(popped, /\ TypesCompatible(v.type, w.type) \/ TypesCompatible(w.type, v.type)
                                    /\ {v.vst, w.vst} \subseteq kinds),
                    "jequal", {v.sa, w.sa}, instrNum + o.sint1)

(***************************************************************************)
(* Calls.                                                                  *)
(***************************************************************************)
\* The k-th argument is verified not to be null, and converted.
PrepareArgument(c, params, k) ==
  LET p == params[k]
      at == Len(c.opstack) - (Len(params) - k)
      v == c.opstack[at]
      verify == p.notNull /\ ~v.notNull
      verified ==
        IF ~verify THEN c
        ELSE [Emit(c, "verifynotnull", {v.sa}, {}, -1) EXCEPT
                !.opstack[at].notNull = TRUE, !.meta[instrNum].validation = @ + 1,
                !.ok = @ /\ (TypeIsObjectReference(p.type) \/ TypeIsInterface(p.type))]
  IN  IF p.type \in {v.type, Varying} THEN verified
      ELSE CallConvertOpstack(Require(verified, TypesCompatible(v.type, p.type)),
                              Len(params) - k, p.type)

PrepareArguments(c, params) ==
  LET prepared[k \in 0..Len(params)] ==
        IF k = 0 THEN c ELSE PrepareArgument(prepared[k - 1], params, k)
  IN  IF Has(c, Len(params)) THEN prepared[Len(params)] ELSE Require(c, FALSE)

\* The results go into shells, or through pointers, that lie below the
\* arguments.
MakeReturns(c, returns) ==
  LET Fits(k) == LET v == Top(c, "opstack", k)
                     t == returns[Len(returns) - k]
                 IN  /\ v.type # Null /\ TypesCompatible(v.type, t)
                     /\ v.vst = IF TypeIsRefStruct(v.type) THEN "Pointer" ELSE "ValueShell"
      below == Len(c.opstack) - Len(returns)
      constant == [c EXCEPT !.opstack =
                     [k \in DOMAIN @ |-> IF k > below /\ @[k].vst = "Pointer"
                                         THEN [@[k] EXCEPT !.vst = "ConstPointer"] ELSE @[k]]]
  IN  IF Has(c, Len(returns)) /\ \A k \in 0..Len(returns) - 1 : Fits(k)
      THEN LivenShells(constant, Len(returns))
      ELSE Require(c, FALSE)

\* What calls of all kinds have in common: the arguments are prepared and
\* popped before the instruction, the results are made after it.
TakeArguments(c, info) ==
  PopArguments(IF Generating THEN PrepareArguments(c, info.params) ELSE c, info.params, TRUE)

GiveResults(c, info) == IF Generating THEN MakeReturns(c, info.returns) ELSE c

ArgumentsOf(c, n) == {Top(c, "opstack", k).sa : k \in 0..n - 1}

CallResult(c, o) ==
  LET info == MethodInfo[o.res]
      synced == IF info.neverFails THEN c ELSE SyncJournal(c)
      taken == TakeArguments(IF info.intrinsic THEN synced ELSE Tick(synced), info)
      code == IF ~info.intrinsic THEN "call"
              ELSE IF info.neverFails THEN "compute" ELSE "intrinsic"
      called == Emit(Require(taken, ~(info.intrinsic /\ info.branching)), code,
                     ArgumentsOf(c, Len(info.params)), {}, -1)
  IN  IF o.res \notin DOMAIN MethodInfo \/ KindOf(info.delegate) # "null" THEN Require(c, FALSE)
      ELSE GiveResults(called, info)

CallVirtualResult(c, o) ==
  LET info == MethodInfo[o.res]
      this == info.params[info.this].type
      taken == TakeArguments(Tick(IF info.neverFails THEN c ELSE SyncJournal(c)), info)
      fits == info.virtual /\ KindOf(this) \in {"class", "abstract", "interface"}
      called == IF ~Generating THEN EmitSimple(taken, "xnullref")
                ELSE Emit(SyncJournal(Require(taken, fits)), "callvirtual",
                          ArgumentsOf(c, Len(info.params)), {}, -1)
  IN  IF o.res \notin DOMAIN MethodInfo \/ KindOf(info.delegate) # "null" \/ info.this = 0
      THEN Require(c, FALSE)
      ELSE GiveResults(called, info)

CallDelegateResult(c, o) ==
  LET info == MethodInfo[o.res]
      popped == PopOpstack(TakeArguments(Tick(SyncJournal(c)), info), "LocalRef")
      local == Bottom(popped, popped.v.index)
      fits == /\ popped.v.index < Len(popped.localstack)
              /\ ~(local.parameter /\ local.pointer)
              /\ Generating => local.type = o.res
      called == Emit(Require(popped, fits), "calldelegate",
                     ArgumentsOf(c, Len(info.params))
                       \cup {IF local.parameter THEN local.sa ELSE 0}, {}, -1)
  IN  IF o.res \notin DOMAIN MethodInfo \/ KindOf(info.delegate) # "delegate" THEN Require(c, FALSE)
      ELSE GiveResults(called, info)

(***************************************************************************)
(* Locals and instances.                                                   *)
(***************************************************************************)
AllocLocalResult(c, o) ==
  LET pushed == AppendLocal(Require(c, c.opstack = <<>> /\ IsType(o.res)), o.res, instrNum,
                            NoParameter)
  IN  EmitSimple(pushed, IF HasDefault(o.res) THEN "pushdefault" ELSE "zero_local")

CreateLocalResult(c, o) ==
  LET popped == PopOpstack(Require(c, IsType(o.res)), "Value")
      v == popped.v
      pushed == Require(AppendLocal(popped, o.res, instrNum, NoParameter),
                        popped.opstack = <<>>)
  IN  IF ~Generating THEN pushed
      ELSE Emit(Require(pushed, v.type = o.res), "move", {v.sa},
                {Top(pushed, "localstack", 0).sa}, -1)

RemoveLocalResult(c, o) ==
  LET local == Top(c, "localstack", 0)
      popped == PopLocal(Require(c, c.opstack = <<>> /\ Len(c.localstack) # NumParameters))
  IN  IF Generating THEN NarrowJumps(popped, local.created + 1, local.created) ELSE popped

PushEmptyResult(c, o) ==
  AppendOpstack(Require(c, IsType(o.res) /\ ~TypeIsRefStruct(o.res)), New("ValueShell", o.res))

\* Pops n values of type LargeUInt.
PopDimensions(c, n) ==
  PopArguments(c, [k \in 1..n |-> [type |-> LargeUInt, const |-> FALSE, notNull |-> FALSE]], TRUE)

DimensionsOf(t) == IF KindOf(t) = "array" THEN TypeInfo[t].dims ELSE 0

NewInstanceResult(c, o) ==
  LET uses == ArgumentsOf(c, o.sint1)
      popped == PopDimensions(Require(SyncJournal(c), o.sint1 >= 0), o.sint1)
      code == IF ~ByValue(o.res) THEN "newinstance"
              ELSE IF HasDefault(o.res) THEN "pushdefault" ELSE "zero_op"
      creatable == /\ o.sint1 = DimensionsOf(o.res)
                   /\ \/ KindOf(o.res) \in {"class", "array", "struct"}
                      \/ ByValue(o.res) /\ ~HasDefault(o.res)
  IN  IF ~IsType(o.res) THEN Require(c, FALSE)
      ELSE IF ~Generating THEN AppendOpstack(popped, New("Value", o.res))
      ELSE Make(Require(popped, creatable), New("Value", o.res), code, uses)

\* A property gets the value that lies k below the top.
SetProperty(c, d, k, code) ==
  Emit(IF code = "none" THEN d ELSE EmitSimple(d, code), "move", {Top(c, "opstack", k).sa}, {}, -1)

\* The values on top are moved to the properties that the instructions find.
SetProperties(c, created, finding) ==
  LET count == Len(finding)
      sets[k \in 0..count] ==
        IF k = 0 THEN created ELSE SetProperty(c, sets[k - 1], count - k, finding[k])
  IN  sets[count]

\* The pointer to the new object is pushed and popped at once.
NewInstanceSetResult(c, o) ==
  LET isClass == KindOf(o.res) = "class"
      local == Bottom(c, o.sint1)
      count == Len(o.props)
      synced == IF TypeIsObjectReference(o.res) THEN SyncJournal(c) ELSE c
      pointed == IF isClass
                 THEN PopOpstack(AppendOpstack(synced, New("Pointer", Null)), "Pointer")
                 ELSE synced
      Value(k) == Top(c, "opstack", count - k)
      Property(k) == TypeInfo[o.res].props[o.props[k]]
      Fits(k) == /\ o.props[k] \in DOMAIN TypeInfo[o.res].props
                 /\ Value(k).vst \in IF TypeIsRefStruct(Property(k)) THEN PointerVST ELSE {"Value"}
                 /\ TypesCompatible(Value(k).type, Property(k))
      created == IF isClass THEN Emit(pointed, "newinstance_local", {}, {local.sa}, -1)
                 ELSE EmitSimple(pointed, "hardenstack")
      finding == [k \in 1..count |-> IF ~isClass THEN "none"
                                     ELSE IF k = 1 THEN "objproperty_notnull_persist"
                                     ELSE "changeproperty"]
      set == SetProperties(c, created, finding)
      filled == IF isClass THEN set ELSE EmitSimple(set, "hardenstack")
      fits == /\ Has(c, count) /\ TypesCompatible(o.res, local.type)
              /\ \A k \in 1..count : Fits(k)
      placed == /\ KindOf(o.res) \in {"class", "refstruct", "struct"}
                /\ o.sint1 \in 0..Len(c.localstack) - 1
      made == IF ~Generating THEN Require(pointed, placed)
              ELSE IF placed /\ fits THEN filled ELSE Require(c, FALSE)
  IN  PopValues(made, count, "Indeterminate")

(***************************************************************************)
(* Values.                                                                 *)
(***************************************************************************)
NullResult(c, o) == Make(c, New("Value", Null), "zero_op", {})

PinLocalResult(c, o) ==
  LET popped == PopOpstack(c, "LocalRef")
      local == Bottom(popped, popped.v.index)
      known == Require(popped, popped.v.index < Len(popped.localstack))
      pointer == New(IF local.const THEN "ConstPointer" ELSE "Pointer", local.type)
  IN  IF ~Generating THEN AppendOpstack(known, pointer)
      ELSE Make(Require(known, ~local.pointer), pointer, "pinl", {local.sa})

\* The test of the code only ever turns constant pointers away.
ToVaryingResult(c, o) ==
  LET popped == PopOpstack(c, "Indeterminate")
      v == popped.v
  IN  IF ~Generating THEN AppendOpstack(popped, [v EXCEPT !.vst = "Varying"])
      ELSE Make(Require(popped, v.vst # "ConstPointer"), [v EXCEPT !.vst = "Varying"],
                "tovarying", {v.sa})

ArrayIndexResult(c, o) ==
  LET synced == SyncJournal(Require(c, o.sint1 >= 1 /\ Has(c, 1)))
      popped == PopOpstack(PopDimensions(synced, o.sint1), "Value")
      array == popped.v
      isArray == KindOf(array.type) = "array" /\ TypeInfo[array.type].dims = o.sint1
      pointer == New(IF TypeInfo[array.type].fixed THEN "ConstPointer" ELSE "Pointer",
                     TypeInfo[array.type].element)
  IN  IF ~Generating THEN Make(popped, NoValue, "arrayindex", {})
      ELSE IF ~isArray THEN Require(popped, FALSE)
      ELSE Make(popped, pointer, "arrayindex", ArgumentsOf(c, o.sint1 + 1))

\* The property of an object is found by an instruction, that of a structure
\* behind the pointer that the operation before has made by none.
PropertyResult(c, o) ==
  LET v == Top(c, "opstack", 0)
      isValue == v.vst = "Value"
      popped == PopOpstack(IF isValue THEN SyncJournal(c) ELSE c, v.vst)
      fits == /\ Has(c, 1) /\ v.vst \in {"Value"} \cup PointerVST
              /\ Structured(v.type) /\ o.sint1 \in DOMAIN TypeInfo[v.type].props
              /\ IF isValue THEN KindOf(v.type) = "class" ELSE ByValue(v.type)
      property == [v EXCEPT !.type = TypeInfo[v.type].props[o.sint1],
                            !.vst = IF o.sint1 \in TypeInfo[v.type].constants THEN "ConstPointer"
                                    ELSE IF isValue THEN "Pointer" ELSE @]
      follows == instrNum > 0 /\ decOps[instrNum].op \in {"property", "pinlocal", "arrayindex"}
  IN  IF ~Generating THEN c
      ELSE IF ~fits THEN Require(c, FALSE)
      ELSE IF isValue THEN Make(SyncJournal(popped), property,
                                IF v.notNull THEN "objproperty_notnull" ELSE "objproperty", {v.sa})
      ELSE IF follows THEN AppendOpstack(popped, property)
      ELSE Make(popped, property, "ptrprop", {v.sa})

MoveResult(c, o) ==
  LET first == PopOpstack(c, "Indeterminate")
      popped == PopOpstack(first, "Indeterminate")
      dest == first.v
      source == popped.v
      Referred(v) == Bottom(popped, v.index)
      NoPointer(v) == v.vst = "LocalRef" => ~Referred(v).pointer
      Place(v) == IF v.vst = "LocalRef" THEN Referred(v).sa ELSE v.sa
      fits == /\ TypesCompatible(source.type, dest.type)
              /\ dest.vst \in {"Pointer", "LocalRef"} /\ NoPointer(dest)
              /\ source.vst \in {"Value", "LocalRef"} \cup PointerVST /\ NoPointer(source)
  IN  IF ~Generating THEN popped
      ELSE Emit(Require(popped, fits), "move", {Place(source), Place(dest)}, {}, -1)

\* No instruction copies a constant pointer.
CloneValue(c, v) ==
  IF Generating /\ v.vst \in {"Value", "Pointer", "Varying"} THEN Make(c, v, "clone", {v.sa})
  ELSE AppendOpstack(c, v)

\* Clones n values from the first on.  When they are more than there are on
\* the stack, the clones are cloned.
CloneValues(c, first, n) ==
  LET copies[k \in 0..n] ==
        IF k = 0 THEN c ELSE CloneValue(copies[k - 1], copies[k - 1].opstack[first + k - 1])
  IN  copies[n]

CloneResult(c, o) ==
  LET first == Len(c.opstack) - o.sint1
      inside == o.sint1 >= 0 /\ o.sint2 >= 1 /\ o.sint1 < Len(c.opstack)
                /\ Len(c.opstack) - o.sint1 >= o.sint2
      plain == /\ \A k \in first..Len(c.opstack) : c.opstack[k].vst # "Barrier"
               /\ \A k \in first..Len(c.opstack) :
                    k < first + o.sint2 => c.opstack[k].vst # "ValueShell"
  IN  IF ~inside \/ (Generating /\ ~plain) THEN Require(c, FALSE)
      ELSE CloneValues(c, first, o.sint2)

LoadResult(c, o) ==
  LET popped == PopOpstack(c, "Indeterminate")
      v == popped.v
      local == Bottom(popped, v.index)
      referred == IF local.parameter /\ local.pointer
                  THEN New(IF local.const THEN "ConstPointer" ELSE "Pointer", local.type)
                  ELSE [New("Value", local.type) EXCEPT !.notNull = local.notNull]
  IN  IF ~Generating THEN AppendOpstack(popped, NoValue)
      ELSE IF v.vst = "LocalRef" THEN Make(popped, referred, "move", {local.sa})
      ELSE Make(Require(popped, v.vst \in PointerVST /\ ~TypeIsRefStruct(v.type)),
                New("Value", v.type), "move", {v.sa})

PopResult(c, o) ==
  LET popped == PopOpstack(c, "Indeterminate")
  IN  Require(popped, Generating => popped.v.vst \in StoredVST \cup {"LocalRef"})

\* A conversion that needs no check emits no instruction.
CastResult(c, o) ==
  LET popped == PopOpstack(SyncJournal(c), "Value")
      v == popped.v
      cast == [v EXCEPT !.type = o.res]
      implemented ==
        \/ TypeIsInterface(v.type) /\ (TypeIsClass(o.res) \/ TypeIsInterface(o.res))
        \/ KindOf(o.res) = "enum"
        \/ TypeIsClass(v.type) /\ (TypeIsInterface(o.res) \/ TypeIsClass(o.res) \/ KindOf(o.res) = "array")
      code == IF TypeIsInterface(v.type) THEN "rcast_i"
              ELSE IF KindOf(o.res) = "enum" THEN "assertenum"
              ELSE IF ~TypeIsInterface(o.res) THEN "assertinherits"
              ELSE IF o.res \in TypeInfo[v.type].interfaces THEN "rcast_otoi_direct"
              ELSE "rcast_otoi"
  IN  IF ~Generating THEN AppendOpstack(popped, v)
      ELSE IF ~IsType(o.res) THEN Require(c, FALSE)
      ELSE IF TypesCompatible(v.type, o.res) THEN AppendOpstack(popped, cast)
      ELSE Make(Require(popped, TypesCompatiblePolymorphic(v.type, o.res) /\ implemented), cast,
                code, {v.sa})

LocalRefResult(c, o) ==
  AppendOpstack(Require(c, o.sint1 \in 0..Len(c.localstack) - 1),
                [New("LocalRef", Bottom(c, o.sint1).type) EXCEPT !.index = o.sint1])

\* An object of a structure or an enum is known by a pointer.
ResResult(c, o) ==
  LET known == o.res \in DOMAIN ObjectInfo
      object == ObjectInfo[o.res]
      vst == IF TypeIsObjectReference(object.type) THEN "Value"
             ELSE IF object.constant THEN "ConstPointer" ELSE "Pointer"
  IN  IF ~known \/ KindOf(object.type) \notin {"class", "array", "refstruct", "struct", "enum"}
      THEN Require(c, FALSE)
      ELSE Make(c, New(vst, object.type), "immediate", {})

ConstantResult(c, o) ==
  LET pushed == AppendOpstack(Require(c, IsType(o.res)), New("Value", o.res))
  IN  IF Generating THEN Emit(pushed, "immediate", {}, {pushed.v.sa}, -1) ELSE pushed

(***************************************************************************)
(* Leaving, switching and iterating.                                       *)
(***************************************************************************)
Returnable(v) == v.vst \in {"LocalRef", "Value"} \cup PointerVST

PlaceOf(c, v) == IF v.vst = "LocalRef" THEN Bottom(c, v.index).sa ELSE v.sa

\* The value on top goes to the caller, as a result of type t.
MoveToParent(c, t) ==
  LET popped == PopOpstack(c, "Indeterminate")
      v == popped.v
  IN  Emit(Require(popped, Returnable(v) /\ TypesCompatible(v.type, t)), "move",
           {PlaceOf(popped, v)}, {}, -1)

ReturnToParent(c, n) ==
  LET returns == method.returns
      moves[k \in 0..n] == IF k = 0 THEN c ELSE MoveToParent(moves[k - 1], returns[n - k + 1])
  IN  IF n # Len(returns) THEN Require(c, FALSE) ELSE EmitSimple(moves[n], "exit")

\* The end of the innermost barrier that is open at the current operation.
BarrierEnds ==
  LET Count(name, k) == Cardinality({j \in instrNum..k : decOps[j + 1].op = name})
  IN  {k \in instrNum..Length - 1 : Count("endbarrier", k) = 1 + Count("startbarrier", k)}

\* The value on top goes into what lies n below it.
MovePastBarrier(c, n) ==
  LET popped == PopOpstack(c, "Indeterminate")
      v == popped.v
      dest == Top(popped, "opstack", n)
      into == IF TypeIsRefStruct(v.type) THEN "Pointer" ELSE "ValueShell"
      livened == IF dest.vst = "ValueShell" THEN LivenJournal(popped, {dest.id}) ELSE popped
  IN  Emit(Require(livened, /\ Returnable(v) /\ dest.vst = into
                            /\ TypesCompatible(v.type, dest.type)),
           "move", {PlaceOf(popped, v)}, {dest.sa}, -1)

ReturnPastBarrier(c, n) ==
  LET barrier == Top(c, "opstack", n)
      moves[k \in 0..n] == IF k = 0 THEN c ELSE MovePastBarrier(moves[k - 1], n)
  IN  IF n \in 1..Len(c.opstack) /\ BarrierEnds # {} /\ barrier.vst = "Barrier" /\ barrier.count = n
      THEN EmitJump(moves[n], "jump", {}, CHOOSE e \in BarrierEnds : \A k \in BarrierEnds : e <= k)
      ELSE Require(c, FALSE)

ReturnResult(c, o) ==
  IF o.sint1 < 0 THEN Require(c, FALSE)
  ELSE IF ~Generating THEN PopValues(c, o.sint1, "Value")
  ELSE IF o.sint1 = Len(c.opstack) THEN ReturnToParent(c, o.sint1)
  ELSE ReturnPastBarrier(c, o.sint1)

\* The cases are the jumps that follow.  The target of the instruction is
\* their number, which it counts from where it is.
SwitchResult(c, o) ==
  LET popped == PopOpstack(c, "Indeterminate")
      v == popped.v
      cases == ObjectInfo[o.res]
      fits == /\ v.vst \in {"Value"} \cup PointerVST /\ EmptyOrBarrier(popped) /\ v.type # Null
              /\ o.res \in DOMAIN ObjectInfo /\ cases.constant /\ KindOf(cases.type) = "array"
              /\ cases.count = o.sint1 /\ TypesCompatible(v.type, TypeInfo[cases.type].element)
              /\ o.sint1 > 0 /\ Length - instrNum - 2 >= o.sint1
              /\ \A k \in instrNum + 2..instrNum + 1 + o.sint1 :
                   decOps[k].op = "jump" /\ decOps[k].sint1 > 0
  IN  IF ~Generating THEN popped
      ELSE Emit(Require(popped, fits), "switch", {v.sa}, {}, o.sint1)

IterateArrayResult(c, o) ==
  LET array == PopOpstack(TickIfBackwards(SyncJournal(c), o), "LocalRef")
      index == PopOpstack(array, "LocalRef")
      dest == PopOpstack(index, "LocalRef")
      popped == IF o.sint2 # 0 THEN PopOpstack(dest, "LocalRef") ELSE dest
      Local(d) == Bottom(popped, d.v.index)
      Counter(k) == LET local == Bottom(popped, k)
                    IN  k < Len(popped.localstack) /\ ~local.parameter /\ local.type = LargeUInt
      arrayType == Local(array).type
      isArray == ~Local(array).parameter /\ KindOf(arrayType) = "array"
      subs == IF o.sint2 = 0 THEN {} ELSE popped.v.index..popped.v.index + o.sint2 - 1
      fits == /\ EmptyOrBarrier(popped) /\ isArray /\ Counter(index.v.index)
              /\ o.sint2 = 0 \/ TypeInfo[arrayType].dims = o.sint2
              /\ \A k \in subs : Counter(k)
              /\ ~Local(dest).parameter /\ Local(dest).type = TypeInfo[arrayType].element
  IN  IF ~Generating THEN popped
      ELSE EmitJump(Require(popped, fits), "iteratearray",
                    {Local(array).sa, Local(index).sa, Local(dest).sa}
                      \cup {Bottom(popped, k).sa : k \in subs},
                    instrNum + o.sint1)

(***************************************************************************)
(* The passes.                                                             *)
(***************************************************************************)
NoCompiler ==
  [opstack |-> <<>>, localstack |-> <<>>, stackjournal |-> <<>>, il |-> <<>>,
   journal |-> <<>>, actions |-> <<>>, handlers |-> <<>>, recovery |-> <<>>,
   maximum |-> [list \in Stacks \cup Outputs |-> 0],
   meta |-> <<>>, nextID |-> 0, lowest |-> 0, lastDebug |-> -1, v |-> NoValue, ok |-> TRUE]

\* The body is read before the first pass.  Here an operation is chosen when
\* the first pass comes to it, which looks at no other.
Init ==
  /\ method \in Programs
  /\ decOps = <<>> /\ pass = "create" /\ instrNum = -1
  /\ comp = [NoCompiler EXCEPT !.meta =
               [i \in Labels |-> [translated |-> 0, validation |-> 0, min |-> 0, max |-> 0,
                                  valid |-> FALSE]]]
  /\ capacity = <<>> /\ recorded = <<>> /\ frames = <<>>

Running == pass \in {"create", "generate", "record", "stitch"}

Parameter(c, p) ==
  LET d == AppendLocal(c, p.type, 0, [pointer |-> TypeIsRefStruct(p.type), parameter |-> TRUE,
                                      const |-> p.const, notNull |-> p.notNull])
      fits == p.type \notin {Null, Varying} /\ (p.notNull => p.const)
  IN  PushList(Require(d, fits), "journal",
        [start |-> 0, end |-> 0, offset |-> 0, type |-> p.type, parameter |-> TRUE])

PushReturns(c, n) ==
  LET returned[k \in 0..n] ==
        IF k = 0 THEN c ELSE PushList(returned[k - 1], "actions", "PushReturn")
  IN  returned[n]

Parameters(c, params) ==
  LET begun[k \in 0..Len(params)] == IF k = 0 THEN c ELSE Parameter(begun[k - 1], params[k])
  IN  begun[Len(params)]

Reject ==
  /\ pass' = "rejected"
  /\ decOps' = <<>> /\ instrNum' = 0 /\ comp' = NoCompiler
  /\ capacity' = <<>> /\ recorded' = <<>> /\ frames' = <<>>
  /\ UNCHANGED method

\* The results and the parameters of the method come first on the stacks.
BeginPass ==
  /\ Running /\ instrNum = -1
  /\ LET c == Parameters(PushReturns(comp, Len(method.returns)), method.params)
         typed == \A k \in DOMAIN method.returns : method.returns[k] \notin {Null, Varying}
     IN  IF c.ok /\ typed
         THEN /\ comp' = c /\ instrNum' = 0
              /\ UNCHANGED <<method, decOps, pass, capacity, recorded, frames>>
         ELSE Reject

MarkOp(c) ==
  [c EXCEPT !.meta[instrNum] =
     [translated |-> Len(c.il), validation |-> 0,
      min |-> IF pass = "stitch" THEN @.min ELSE 0,
      max |-> IF pass = "stitch" THEN @.max ELSE Length - 1,
      valid |-> Generating /\ EmptyOrBarrier(c)]]

\* Of two pieces of debug information with nothing in between, one remains.
AddDebugInfo(c) ==
  IF instrNum \notin method.debug THEN c
  ELSE LET d == IF Len(c.il) = c.lastDebug THEN c
                ELSE [EmitSimple(c, "debuginfo") EXCEPT !.meta[instrNum].translated = @ + 1]
       IN  [d EXCEPT !.lastDebug = Len(d.il)]

Fetched == IF pass = "create" THEN method.ops[instrNum + 1] ELSE {decOps[instrNum + 1]}

\* The pass goes on with c when the operation o has been accepted.
Proceed(o, c) ==
  /\ comp' = c /\ instrNum' = instrNum + 1
  /\ decOps' = IF pass = "create" THEN Append(decOps, o) ELSE decOps
  /\ frames' = IF pass = "stitch"
               THEN Append(frames, [opstack |-> comp.opstack, locals |-> comp.localstack,
                                    entries |-> comp.stackjournal])
               ELSE frames
  /\ UNCHANGED <<method, pass, capacity, recorded>>

\* Compiles an operation with one of the given names.
Compile(names, Result(_, _)) ==
  /\ Running /\ instrNum \in Labels
  /\ \E o \in Fetched :
       /\ o.op \in names
       /\ LET c == Result(AddDebugInfo(MarkOp(comp)), o)
          IN  IF c.ok THEN Proceed(o, c) ELSE Reject

Balanced ==
  /\ comp.opstack = <<>> /\ Len(comp.localstack) = NumParameters
  /\ Len(comp.stackjournal) = NumParameters

\* A variant of NowAllocated that counts in the first pass alone.
AllocatedAtOnce == Stacks \cup Outputs

\* The lists that are allocated when a pass has ended.
NowAllocated ==
  IF pass = "create" THEN Stacks
  ELSE IF pass = "generate" THEN Stacks \cup Outputs
  ELSE DOMAIN capacity

EndPass ==
  /\ Running /\ instrNum = Length
  /\ pass # "stitch" /\ Balanced
  /\ LET ended == EmitSimple(comp, "fatal")
         next == [create |-> "generate", generate |-> "record", record |-> "stitch"]
     IN  /\ comp' = [NoCompiler EXCEPT !.maximum = ended.maximum, !.meta = ended.meta,
                                       !.nextID = ended.nextID, !.lowest = ended.lowest]
         /\ capacity' = [list \in NowAllocated |->
                           IF list \in DOMAIN capacity THEN capacity[list] ELSE ended.maximum[list]]
         /\ recorded' = IF pass = "record" THEN ended.il ELSE <<>>
         /\ pass' = next[pass] /\ instrNum' = -1
  /\ UNCHANGED <<method, decOps, frames>>

Start(c, i) == c.meta[i].translated + c.meta[i].validation

TranslateJournal(c, entry) ==
  [entry EXCEPT !.start = Start(c, @), !.end = Start(c, @)]

HandlerSlots(c, h) == {r \in DOMAIN c.recovery : c.recovery[r].by = h.handler - 1}

TranslateHandler(c, h) ==
  [start |-> c.meta[h.start].translated, end |-> Start(c, h.end),
   handler |-> FindJumpTarget(c.meta[h.handler].translated),
   slot |-> c.recovery[CHOOSE r \in HandlerSlots(c, h) : TRUE].slot]

\* The spans of journals and handlers are turned from operations into
\* instructions.
Finish ==
  /\ pass = "stitch" /\ instrNum = Length /\ Balanced
  /\ \A k \in DOMAIN comp.handlers : HandlerSlots(comp, comp.handlers[k]) # {}
  /\ LET ended == EmitSimple(comp, "fatal")
     IN  comp' = [ended EXCEPT
                    !.journal = [k \in DOMAIN @ |-> TranslateJournal(ended, @[k])],
                    !.handlers = [k \in DOMAIN @ |-> TranslateHandler(ended, @[k])],
                    !.localstack = <<>>]
  /\ pass' = "compiled"
  /\ UNCHANGED <<method, decOps, instrNum, capacity, recorded, frames>>

Unbalanced ==
  /\ Running /\ instrNum = Length
  /\ \/ ~Balanced
     \/ /\ pass = "stitch"
        /\ \E k \in DOMAIN comp.handlers : HandlerSlots(comp, comp.handlers[k]) = {}
  /\ Reject

StartBarrier == Compile({"startbarrier"}, StartBarrierResult)
EndBarrier == Compile({"endbarrier"}, EndBarrierResult)
Throw == Compile({"throw"}, ThrowResult)
Try == Compile({"try"}, TryResult)
Catch == Compile({"catch"}, CatchResult)
TryCast == Compile({"trycast"}, TryCastResult)
Jump == Compile({"jump"}, JumpResult)
JumpIf == Compile({"jumpif"}, JumpIfResult)
JumpIfTrue == Compile({"jumpiftrue", "jumpifnull"}, JumpIfTrueResult)
JumpIfEqual == Compile({"jumpifequal"}, JumpIfEqualResult)
Call == Compile({"call"}, CallResult)
CallVirtual == Compile({"callvirtual"}, CallVirtualResult)
CallDelegate == Compile({"calldelegate"}, CallDelegateResult)
AllocLocal == Compile({"alloclocal"}, AllocLocalResult)
CreateLocal == Compile({"createlocal"}, CreateLocalResult)
RemoveLocal == Compile({"removelocal"}, RemoveLocalResult)
PushEmpty == Compile({"pushempty"}, PushEmptyResult)
NewInstance == Compile({"newinstance"}, NewInstanceResult)
NewInstanceSet == Compile({"newinstanceset"}, NewInstanceSetResult)
PushNull == Compile({"null"}, NullResult)
PinLocal == Compile({"pinlocal"}, PinLocalResult)
ToVarying == Compile({"tovarying"}, ToVaryingResult)
ArrayIndex == Compile({"arrayindex"}, ArrayIndexResult)
Property == Compile({"property"}, PropertyResult)
Move == Compile({"move"}, MoveResult)
Clone == Compile({"clone"}, CloneResult)
Load == Compile({"load"}, LoadResult)
PopValue == Compile({"pop"}, PopResult)
Cast == Compile({"cast"}, CastResult)
LocalRef == Compile({"localref"}, LocalRefResult)
Return == Compile({"return"}, ReturnResult)
Res == Compile({"res"}, ResResult)
Constant == Compile({"constant"}, ConstantResult)
Switch == Compile({"switch"}, SwitchResult)
IterateArray == Compile({"iteratearray"}, IterateArrayResult)

Next ==
  \/ BeginPass \/ EndPass \/ Finish \/ Unbalanced
  \/ StartBarrier \/ EndBarrier \/ Throw \/ Try \/ Catch \/ TryCast
  \/ Jump \/ JumpIf \/ JumpIfTrue \/ JumpIfEqual
  \/ Call \/ CallVirtual \/ CallDelegate
  \/ AllocLocal \/ CreateLocal \/ RemoveLocal \/ PushEmpty
  \/ NewInstance \/ NewInstanceSet \/ PushNull \/ PinLocal \/ ToVarying \/ ArrayIndex
  \/ Property \/ Move \/ Clone \/ Load \/ PopValue \/ Cast \/ LocalRef
  \/ Return \/ Res \/ Constant \/ Switch \/ IterateArray

Spec == Init /\ [][Next]_vars

(***************************************************************************)
(* Properties.                                                             *)
(***************************************************************************)
\* The stacks hold what their kind of element is made of, the operations
\* are ones of the body, and the compilation is in one of its passes.
TypeOK ==
  /\ method \in Programs
  /\ Len(decOps) <= Length /\ \A k \in DOMAIN decOps : decOps[k] \in method.ops[k]
  /\ pass \in {"create", "generate", "record", "stitch", "compiled", "rejected"}
  /\ instrNum \in -1..Length
  /\ \A v \in {comp.opstack[k] : k \in DOMAIN comp.opstack} :
       /\ v.vst \in StoredVST \cup {"Invalid", "LocalRef", "Barrier"}
       /\ v.type \in DOMAIN TypeInfo \cup {Null}
       /\ v.offset \in comp.lowest..0
  /\ \A l \in {comp.localstack[k] : k \in DOMAIN comp.localstack} :
       l.type \in DOMAIN TypeInfo \cup {Null} /\ l.offset \in comp.lowest..0
  /\ Len(comp.stackjournal) = Len(comp.opstack) + Len(comp.localstack) \/ pass = "compiled"
  /\ comp.maximum \in [Stacks \cup Outputs -> Nat]
  /\ DOMAIN capacity \subseteq Stacks \cup Outputs

Compiled == pass = "compiled"

Instructions == {j \in 0..Len(comp.il) - 1 : comp.il[j + 1].code # "fatal"}
At(j) == comp.il[j + 1]
Before(i) == frames[i + 1]
After(i) == IF i + 1 < Length THEN Before(i + 1).entries ELSE comp.stackjournal

\* The instructions at which a thread may stop: it is suspended, an
\* exception is raised, or another method or the collector runs.
Stopping == {"tick", "call", "callvirtual", "calldelegate", "intrinsic", "newinstance",
             "newinstance_local", "verifynotnull", "arrayindex", "objproperty", "throw",
             "rcast_i", "rcast_otoi", "assertenum", "assertinherits"}

Stops == {j \in Instructions : At(j).code \in Stopping}

Holds(v) == v.vst \in StoredVST \ {"ValueShell"}

Elements(s) == {s[k] : k \in DOMAIN s}

\* The places in the stack journal of what is stored when the operation i
\* begins.  The parameters belong to the caller.
Live(i) ==
  {k \in NumParameters + 1..Len(Before(i).entries) :
     k > Len(Before(i).locals) => Holds(Before(i).opstack[k - Len(Before(i).locals)])}

\* What an operation emits ahead of the instruction that does its work.
Preludes == {"debuginfo", "tick", "verifynotnull"}

\* An instruction has worked on the frame since the entry was made.
Settled(entry, j) ==
  \E k \in Instructions : k < j /\ \/ At(k).by > entry.start
                                   \/ At(k).by = entry.start /\ At(k).code \notin Preludes

Covers(q, j) == q.start < j /\ j <= q.end

Told(entry, j) ==
  \E q \in Elements(comp.journal) : ~q.parameter /\ q.offset = entry.offset /\ Covers(q, j)

\* Wherever a thread may stop, a journal tells of every value that has begun
\* to exist: the collector would miss what is not told (rdx_runtime.cpp,
\* NextJournal).
LiveValuesJournaled ==
  Compiled => \A j \in Stops : \A k \in Live(At(j).by) :
    LET entry == Before(At(j).by).entries[k] IN Settled(entry, j) => Told(entry, j)

\* What the comment above SyncJournal says (rdx_ilcomp3.cpp 1107): "Anything on
\* the opstack at the time of call can be traced."  It is not so for what an
\* operation pushes without an instruction, when the next one stops the thread.
WhateverIsOnTheStackTraced ==
  Compiled => \A j \in Stops : \A k \in Live(At(j).by) : Told(Before(At(j).by).entries[k], j)

\* No two journals tell of one slot at one instruction: the types they give
\* it could differ (rdx_ilcomp3.cpp, the comment at CallConvertOpstack).
JournalsDisjoint ==
  Compiled =>
    \A k, l \in DOMAIN comp.journal :
      LET p == comp.journal[k]
          q == comp.journal[l]
      IN  k < l /\ ~p.parameter /\ ~q.parameter /\ p.offset = q.offset =>
            \A j \in Stops : ~(Covers(p, j) /\ Covers(q, j))

\* What the later passes push fits the lists that the earlier ones have
\* counted for, which nothing checks, and the journals that are compacted are
\* all of those that the last pass has filled.
CapacitiesHold ==
  /\ \A list \in DOMAIN capacity : comp.maximum[list] <= capacity[list]
  /\ Compiled => Len(comp.journal) = capacity["journal"]

\* The jumps, from operation to operation.
Jumps ==
  {<<i, i + decOps[i + 1].sint1>> : i \in
     {k \in Labels : decOps[k + 1].op \in {"jump", "jumpif", "jumpiftrue", "jumpifnull",
                                          "jumpifequal", "iteratearray"}}}

IDs(entries) == [k \in DOMAIN entries |-> entries[k].id]
IsPrefixOf(s, t) == Len(s) <= Len(t) /\ SubSeq(t, 1, Len(s)) = s

\* What lies on the stacks where a jump leads lay there when it was made: no
\* jump enters the lifespan of a value.  The operations that end a lifespan
\* are left out, which can be jumped to from outside.
JumpsKeepStacks ==
  Compiled => \A e \in Jumps :
    decOps[e[2] + 1].op \notin {"removelocal", "endbarrier"} =>
      IsPrefixOf(IDs(Before(e[2]).entries), IDs(After(e[1])))

\* What is on the stacks after the given actions: the number of the action
\* that has pushed it.
Replay(actions) ==
  LET stack[k \in 0..Len(actions)] ==
        IF k = 0 THEN <<>>
        ELSE IF actions[k] = "Pop" THEN SubSeq(stack[k - 1], 1, Len(stack[k - 1]) - 1)
        ELSE Append(stack[k - 1], k - 1)
  IN  stack[Len(actions)]

\* The actions that have pushed those of the values that are stored.
StoredActions(values) ==
  LET stored[k \in 0..Len(values)] ==
        IF k = 0 THEN <<>>
        ELSE IF values[k].vst \in StoredVST THEN Append(stored[k - 1], values[k].sa)
        ELSE stored[k - 1]
  IN  stored[Len(values)]

\* The list of stack actions, replayed, leaves what the stacks hold: the
\* operands of instructions are numbers of actions, and the source exporter
\* finds the values by replaying them (rdx_sourceexport.cpp).
StackActionsReplay ==
  Running /\ Allocated("actions") /\ instrNum >= 0 =>
    Replay(comp.actions) =
      [k \in 1..Len(method.returns) |-> k - 1]
        \o [k \in DOMAIN comp.localstack |-> comp.localstack[k].sa]
        \o StoredActions(comp.opstack)

Tries == {i \in Labels : decOps[i + 1].op = "try"}
HandlerOf(i) == comp.handlers[Cardinality({k \in Tries : k <= i})]

LocalIDs(i) == IDs(SubSeq(Before(i).entries, 1, Len(Before(i).locals)))

\* The locals of a catch are alive wherever an exception can be caught by it,
\* if they are alive where its try ends (rdx_ilcomp3.cpp, "The catch and end
\* both need to be reachable from here even if not used").
HandlersKeepLocals ==
  Compiled => \A i \in Tries :
    LET o == decOps[i + 1]
        kept == LocalIDs(i + o.sint1)
    IN  IsPrefixOf(kept, LocalIDs(i + o.sint2)) =>
          \A j \in Stops : j \in HandlerOf(i).start..HandlerOf(i).end =>
            IsPrefixOf(kept, LocalIDs(At(j).by))

Successors(j) ==
  LET code == At(j).code
      next == IF code \in {"jump", "exit", "throw"} THEN {} ELSE {j + 1}
  IN  IF code = "switch" THEN j + 1..j + 1 + At(j).target
      ELSE IF At(j).target >= 0 THEN next \cup {At(j).target} ELSE next

\* "Reverse-direction jumps will also decrement the timeslice counter"
\* (rdx_ilcomp.hpp): no loop goes around without a tick.
LoopsTick ==
  Compiled =>
    LET untimed == {j \in Instructions : At(j).code # "tick"}
        reach[k \in 0..Len(comp.il)] ==
          IF k = 0 THEN [j \in untimed |-> Successors(j) \cap untimed]
          ELSE [j \in untimed |-> reach[k - 1][j] \cup UNION {reach[k - 1][i] : i \in reach[k - 1][j]}]
    IN  \A j \in untimed : j \notin reach[Len(comp.il)][j]

=============================================================================
