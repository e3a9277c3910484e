---------------------------- MODULE RuntimeThread ----------------------------
(***************************************************************************)
(* A runtime thread (rdx_runtime.cpp, rdx_interpret2.cpp, rdx_pccm_env.cpp)*)
(*                                                                         *)
(* A thread owns a block of memory, its stack, that grows towards lower    *)
(* addresses.  Native code calls into it in two steps: Precall reserves    *)
(* room for parameters and results below the insertion point, RunMethod    *)
(* enters the method.  Compiled methods call each other without growing    *)
(* the native stack: EnterMethod saves the caller's frame in the head of   *)
(* the callee's, and the loop of rdxResumeThread goes on with whatever     *)
(* method the thread's frame names.  A method may also be native: it runs  *)
(* on the native stack, above the loop, and may call back into the thread. *)
(*                                                                         *)
(* A collection finds the references of a thread by walking the saved      *)
(* frames, so that the heads have to tell who called whom and where every  *)
(* method is, at any instant at which somebody may allocate.               *)
(***************************************************************************)
EXTENDS Integers, Sequences, FiniteSets

CONSTANTS
  Managed,        \* the compiled methods
  Native,         \* the native methods
  Null,           \* no method
  Parameters,     \* the size of the parameters of each method
  Results,        \* the size of its results
  FrameCapacity,  \* the size of locals and operands of each compiled method
  Instructions,   \* the number of instructions of each compiled method
  Alignment,      \* RDX_MAX_ALIGNMENT
  HeadSize,       \* the padded size of a saved frame
  RootSize,       \* that of a saved frame with an insertion point
  ReentrantSize,  \* and that of one that also names a native method
  StackCapacity   \* the size of the stack

Methods == Managed \cup Native

ASSUME ThreadAssumption ==
  /\ Null \notin Methods /\ Managed \cap Native = {}
  /\ Parameters \in [Methods -> Nat] /\ Results \in [Methods -> Nat]
  /\ FrameCapacity \in [Managed -> Nat] /\ Instructions \in [Managed -> Nat]
  /\ Alignment \in Nat \ {0} /\ StackCapacity \in Nat
  /\ HeadSize \in Nat \ {0} /\ RootSize \in Nat \ {0} /\ ReentrantSize \in Nat \ {0}

VARIABLES
  frame,       \* the frame of the method that the loop goes on with
  precall,     \* precallFrame: what Precall has prepared
  insertion,   \* insertionPoint: where the next call of native code goes
  active,      \* activeNativeMethod
  heads,       \* the saved frames in the memory of the stack
  calls,       \* the calls in progress, the outermost first: what the native
               \* stack and the program that is compiled know
  prepared,    \* the method that native code has called Precall for
  allocating,  \* is the compiled method inside an allocation?
  failed,      \* has the last call that native code made returned a failure?
  broken       \* has the program stopped at an rdxDebugBreak?

vars == <<frame, precall, insertion, active, heads, calls, prepared, allocating,
          failed, broken>>

NoFrame == [method |-> Null, ip |-> 0, prv |-> 0, bp |-> 0]

\* Memory that holds no saved frame.
NoHead == [frame |-> NoFrame, insertion |-> 0, aboveNative |-> FALSE,
           native |-> Null, sub |-> NoFrame, size |-> 0]

Idle == calls = <<>>

\* named is the method that activeNativeMethod names while the call runs, if
\* it is one of a native method.
Call(m, via, prv, bp, low, high) ==
  [method |-> m, via |-> via, prv |-> prv, bp |-> bp, low |-> low, high |-> high,
   at |-> 0, caller |-> NoFrame, named |-> m]

\* The program itself, outside of any call.
Program == Call(Null, "program", 0, 0, StackCapacity, StackCapacity)

\* Who runs.
Top == IF Idle THEN Program ELSE calls[Len(calls)]

InManaged == Top.method \in Managed /\ ~allocating /\ ~broken

\* Native code runs: a native method, or the program outside of any call.
InNative == Top.method \notin Managed /\ ~broken

-----------------------------------------------------------------------------
(***************************************************************************)
(* The layout of the stack.                                                *)
(***************************************************************************)

\* rdxPaddedSize
Padded(size) == ((size + Alignment - 1) \div Alignment) * Alignment

\* Parameters and results of a call, as Precall and as a compiled caller lay
\* them out.
CallSpace(m) == Padded(Parameters[m] + Results[m])

\* Writing to the addresses from low up to high destroys the heads there.
Overwritten(low, high) ==
  [a \in DOMAIN heads |->
     IF a < high /\ a + heads[a].size > low THEN NoHead ELSE heads[a]]

\* rdxExpandFrame: where the frame goes, if there is room for head and frame.
HeadRoom(hasInsertionPoint, hasNativeFrame) ==
  IF ~hasInsertionPoint THEN HeadSize
  ELSE IF hasNativeFrame THEN ReentrantSize ELSE RootSize

\* Faulty variant: the head is left out of the account.
FitsWithoutHead(base, head, capacity) == base >= head /\ base >= capacity

Fits(base, head, capacity) == base >= head /\ base - head >= capacity

\* The head is written, and the method is free to write to its whole frame.
Entered(head, bp, capacity) ==
  [Overwritten(bp - capacity, bp + head.size) EXCEPT ![bp] = head]

-----------------------------------------------------------------------------
(***************************************************************************)
(* Calls of native code into the thread.                                   *)
(***************************************************************************)

\* CreateThread, and Reset, leave the thread like this.
Init ==
  /\ frame = NoFrame /\ precall = NoFrame
  /\ insertion = StackCapacity /\ active = Null
  /\ heads = [a \in 0..StackCapacity |-> NoHead]
  /\ calls = <<>> /\ prepared = Null
  /\ allocating = FALSE /\ failed = FALSE /\ broken = FALSE

\* A native method that native code has run directly has its parameters where
\* the next call would be prepared: only one that a compiled method has called
\* may call back.
MayCall == InNative /\ ~failed /\ Top.via # "api"

\* Precall, and native code writes the parameters.  It throws if there is no
\* room, and nothing has changed.
Precall(m) ==
  /\ MayCall
  /\ insertion >= CallSpace(m)
  /\ precall' = [method |-> Null, ip |-> 0, prv |-> insertion - Results[m],
                 bp |-> insertion - CallSpace(m)]
  /\ heads' = Overwritten(insertion - CallSpace(m), insertion)
  /\ prepared' = m
  /\ UNCHANGED <<frame, insertion, active, calls, allocating, failed, broken>>

\* The calls, the last of which finds m as the active native method.
Named(m) == [i \in DOMAIN calls |->
               IF i = Len(calls) THEN [calls[i] EXCEPT !.named = m] ELSE calls[i]]

\* RunMethod of a native method: it is called at once, and activeNativeMethod
\* still names it when it has returned.
RunNativeMethod(m) ==
  /\ MayCall /\ prepared = m /\ m \in Native
  /\ active' = m
  /\ calls' = Append(Named(m), Call(m, "api", precall.prv, 0, precall.bp, insertion))
  /\ prepared' = Null
  /\ UNCHANGED <<frame, precall, insertion, heads, allocating, failed, broken>>

\* Is native code somewhere below the call?
ThroughNative == insertion # StackCapacity

\* Faulty variant: the head does not say where the insertion point was.
RootHeadAtBottom(through) ==
  [frame |-> precall, insertion |-> StackCapacity, aboveNative |-> through,
   native |-> IF through THEN active ELSE Null,
   sub |-> IF through THEN frame ELSE NoFrame, size |-> HeadRoom(TRUE, through)]

\* The head of a frame that native code enters: rdxEnterMethodRoot.
RootHead(through) ==
  [frame |-> precall, insertion |-> insertion, aboveNative |-> through,
   native |-> IF through THEN active ELSE Null,
   sub |-> IF through THEN frame ELSE NoFrame, size |-> HeadRoom(TRUE, through)]

\* RunMethod of a compiled method, up to the loop of rdxResumeThread.
RunMethod(m) ==
  /\ MayCall /\ prepared = m /\ m \in Managed
  /\ Fits(precall.bp, HeadRoom(TRUE, ThroughNative), FrameCapacity[m])
  /\ LET head == RootHead(ThroughNative)
         bp == precall.bp - HeadRoom(TRUE, ThroughNative)
     IN /\ heads' = Entered(head, bp, FrameCapacity[m])
        /\ frame' = [method |-> m, ip |-> 0, prv |-> precall.prv, bp |-> bp]
        /\ calls' = Append(calls, Call(m, "api", precall.prv, bp,
                                       bp - FrameCapacity[m], insertion))
  /\ active' = Null
  /\ prepared' = Null
  /\ UNCHANGED <<precall, insertion, allocating, failed, broken>>

\* A stack overflow is not handled: the code stops.
RunMethodOverflow(m) ==
  /\ MayCall /\ prepared = m /\ m \in Managed
  /\ ~Fits(precall.bp, HeadRoom(TRUE, ThroughNative), FrameCapacity[m])
  /\ broken' = TRUE
  /\ UNCHANGED <<frame, precall, insertion, active, heads, calls, prepared,
                 allocating, failed>>

\* After a call that failed the program starts over.
Reset ==
  /\ Idle /\ failed /\ ~broken
  /\ frame' = NoFrame /\ precall' = NoFrame
  /\ active' = Null /\ insertion' = StackCapacity
  /\ failed' = FALSE
  /\ UNCHANGED <<heads, calls, prepared, allocating, broken>>

-----------------------------------------------------------------------------
(***************************************************************************)
(* Compiled methods.                                                       *)
(***************************************************************************)

\* The instruction that the innermost compiled method executes.
At(i) == [calls EXCEPT ![Len(calls)].at = i]

\* An instruction that neither calls nor allocates, or a jump.
Execute ==
  /\ InManaged /\ Top.at < Instructions[Top.method] - 1
  /\ calls' = At(Top.at + 1)
  /\ UNCHANGED <<frame, precall, insertion, active, heads, prepared, allocating,
                 failed, broken>>

\* Faulty variant: the caller resumes with the call.
CallerFrameAtCall ==
  [method |-> Top.method, ip |-> Top.at, prv |-> frame.prv, bp |-> frame.bp]

\* The frame that EnterMethod saves: the caller resumes after the call.
CallerFrame ==
  [method |-> Top.method, ip |-> Top.at + 1, prv |-> frame.prv, bp |-> frame.bp]

\* The caller has pushed parameters and room for the results, and what it has
\* in use ends at base.
CallSite(m, base) ==
  /\ InManaged /\ Top.at < Instructions[Top.method] - 1
  /\ base % Alignment = frame.bp % Alignment
  /\ base >= frame.bp - FrameCapacity[Top.method]
  /\ base + CallSpace(m) <= frame.bp

\* While a call is in progress, the caller uses its frame down to base.
Called(callee, base) == Append([calls EXCEPT ![Len(calls)].low = base], callee)

\* EnterMethod of a compiled method: rdxEnterMethodInline.
EnterManaged(m, base) ==
  /\ m \in Managed /\ CallSite(m, base)
  /\ Fits(base, HeadRoom(FALSE, FALSE), FrameCapacity[m])
  /\ LET bp == base - HeadRoom(FALSE, FALSE)
         prv == base + CallSpace(m) - Results[m]
     IN /\ heads' = Entered([NoHead EXCEPT !.frame = CallerFrame,
                                           !.size = HeadRoom(FALSE, FALSE)],
                            bp, FrameCapacity[m])
        /\ frame' = [method |-> m, ip |-> 0, prv |-> prv, bp |-> bp]
        /\ calls' = Called(Call(m, "inline", prv, bp, bp - FrameCapacity[m], base),
                           base)
  /\ UNCHANGED <<precall, insertion, active, prepared, allocating, failed, broken>>

EnterOverflow(m, base) ==
  /\ m \in Managed /\ CallSite(m, base)
  /\ ~Fits(base, HeadRoom(FALSE, FALSE), FrameCapacity[m])
  /\ broken' = TRUE
  /\ UNCHANGED <<frame, precall, insertion, active, heads, calls, prepared,
                 allocating, failed>>

\* Faulty variant: the insertion point stays where the last call left it.
NativeBaseKept(base) == insertion

\* Where calls of the native method go.
NativeBase(base) == base

\* EnterMethod of a native method, which keeps the frame of its caller in a
\* variable.
EnterNative(m, base) ==
  /\ m \in Native /\ CallSite(m, base)
  /\ frame' = CallerFrame
  /\ insertion' = NativeBase(base)
  /\ active' = m
  /\ calls' = Called([Call(m, "inline", base + CallSpace(m) - Results[m], 0, base, base)
                        EXCEPT !.caller = CallerFrame], base)
  /\ UNCHANGED <<precall, heads, prepared, allocating, failed, broken>>

\* CreateInstanceFromRes, up to the allocation and after it.
BeginAllocation ==
  /\ InManaged /\ Top.at < Instructions[Top.method] - 1
  /\ frame' = [frame EXCEPT !.ip = Top.at]
  /\ allocating' = TRUE
  /\ UNCHANGED <<precall, insertion, active, heads, calls, prepared, failed, broken>>

EndAllocation ==
  /\ allocating
  /\ allocating' = FALSE
  /\ calls' = At(Top.at + 1)
  /\ UNCHANGED <<frame, precall, insertion, active, heads, prepared, failed, broken>>

\* SetStandardException after an allocation that failed is not implemented.
FailAllocation ==
  /\ allocating
  /\ allocating' = FALSE /\ broken' = TRUE
  /\ UNCHANGED <<frame, precall, insertion, active, heads, calls, prepared, failed>>

-----------------------------------------------------------------------------
(***************************************************************************)
(* Returns.                                                                *)
(***************************************************************************)

\* The calls without the innermost; a compiled method that goes on has its
\* whole frame again and is at the instruction it resumes with.
Returned(resumed) ==
  LET rest == SubSeq(calls, 1, Len(calls) - 1)
  IN IF rest # <<>> /\ rest[Len(rest)].method \in Managed
     THEN [rest EXCEPT
             ![Len(rest)].at = resumed.ip,
             ![Len(rest)].low = resumed.bp - FrameCapacity[rest[Len(rest)].method]]
     ELSE rest

Returning == InManaged /\ Top.at = Instructions[Top.method] - 1

\* ExitFunction, if a compiled method called: its frame is taken back.
ExitInline ==
  /\ Returning /\ heads[frame.bp].frame.method # Null
  /\ frame' = heads[frame.bp].frame
  /\ calls' = Returned(heads[frame.bp].frame)
  /\ UNCHANGED <<precall, insertion, active, heads, prepared, allocating, failed, broken>>

\* ExitFunction and the end of the loop, if a native method called.
ExitReentrant ==
  /\ Returning /\ heads[frame.bp].frame.method = Null /\ heads[frame.bp].aboveNative
  /\ insertion' = heads[frame.bp].insertion
  /\ active' = heads[frame.bp].native
  /\ frame' = heads[frame.bp].sub
  /\ calls' = Returned(heads[frame.bp].sub)
  /\ UNCHANGED <<precall, heads, prepared, allocating, failed, broken>>

\* The same, if the program called: the thread is reset.
ExitRoot ==
  /\ Returning /\ heads[frame.bp].frame.method = Null /\ ~heads[frame.bp].aboveNative
  /\ insertion' = StackCapacity /\ active' = Null
  /\ frame' = NoFrame /\ precall' = NoFrame
  /\ calls' = Returned(NoFrame)
  /\ UNCHANGED <<heads, prepared, allocating, failed, broken>>

\* A native method that a compiled method called has done its work.  The loop
\* goes on with the thread's frame.
ReturnNative ==
  /\ InNative /\ Top.via = "inline" /\ ~failed
  /\ active' = Null
  /\ calls' = Returned(frame)
  /\ prepared' = Null
  /\ UNCHANGED <<frame, precall, insertion, heads, allocating, failed, broken>>

\* A native method that native code called returns to it.  activeNativeMethod
\* is left as it is.
ReturnDirect ==
  /\ InNative /\ Top.via = "api"
  /\ calls' = Returned(NoFrame)
  /\ UNCHANGED <<frame, precall, insertion, active, heads, prepared, allocating,
                 failed, broken>>

\* The place of the call of native code that the innermost call belongs to.
Outermost ==
  CHOOSE i \in DOMAIN calls :
    /\ calls[i].via = "api"
    /\ \A j \in i + 1..Len(calls) : calls[j].via = "inline"

\* A native method returns a status that is not positive: the caller is to
\* resume after it, and the loop ends.  Native code passes on the failure of a
\* call it made.
FailNative ==
  /\ InNative /\ Top.via = "inline"
  /\ frame' = Top.caller
  /\ active' = Null
  /\ calls' = SubSeq(calls, 1, Outermost - 1)
  /\ failed' = TRUE
  /\ prepared' = Null
  /\ UNCHANGED <<precall, insertion, heads, allocating, broken>>

-----------------------------------------------------------------------------
Next ==
  \/ \E m \in Methods : Precall(m)
  \/ \E m \in Native : RunNativeMethod(m)
  \/ \E m \in Managed : RunMethod(m) \/ RunMethodOverflow(m)
  \/ Reset
  \/ Execute
  \/ \E m \in Methods, base \in 0..StackCapacity :
       EnterManaged(m, base) \/ EnterOverflow(m, base) \/ EnterNative(m, base)
  \/ BeginAllocation \/ EndAllocation \/ FailAllocation
  \/ ExitInline \/ ExitReentrant \/ ExitRoot
  \/ ReturnNative \/ ReturnDirect \/ FailNative

Spec == Init /\ [][Next]_vars

-----------------------------------------------------------------------------
(***************************************************************************)
(* What a collection sees: Trace, TraceParent and VisitReferences.         *)
(***************************************************************************)

\* rdxSRuntimeStackFrame::Trace.  A frame without a method has the frame of a
\* native method above it, or none.
CanTrace(head) == head.frame.method # Null \/ head.aboveNative

\* TraceParent: the frame that the next step of the walk looks at.
Parent(head) ==
  IF head.frame.method # Null THEN heads[head.frame.bp]
  ELSE [NoHead EXCEPT !.frame = head.sub]

\* One more step, if there is one.
WalkOn(walk) ==
  LET last == walk[Len(walk)]
  IN IF CanTrace(last) THEN Append(walk, Parent(last)) ELSE walk

\* The frames a walk of n steps looks at, the innermost first.  What follows
\* the thread's own frame in memory is precallFrame, whose ip is always null
\* and stands where a saved frame has aboveNative.
Walk[n \in Nat] ==
  IF n = 0 THEN <<[NoHead EXCEPT !.frame = frame]>> ELSE WalkOn(Walk[n - 1])

\* The entries of the trace: a native method is at no instruction, a compiled
\* one at the one before the address it resumes at.  The frame that ends the
\* walk is not one of them.  A frame takes at least one byte, and a native
\* method none, but its caller does.
Trace ==
  LET walk == Walk[2 * StackCapacity]
  IN [i \in 1..Len(walk) - 1 |->
        IF walk[i].frame.method # Null
        THEN [method |-> walk[i].frame.method, prv |-> walk[i].frame.prv,
              bp |-> walk[i].frame.bp, instruction |-> walk[i].frame.ip - 1]
        ELSE [method |-> walk[i].native, prv |-> walk[i].frame.prv,
              bp |-> 0, instruction |-> 0]]

\* Somebody may allocate, so that a collection may run.
MayCollect == (InNative \/ allocating) /\ ~broken

\* Native code runs a native method directly.
Direct == Top.via = "api" /\ Top.method \in Native

\* How many of the calls have entries: a native method that runs has none, it
\* is activeNativeMethod, and the one that has run it directly has none either.
Traced ==
  IF Top.method \notin Native THEN Len(calls)
  ELSE IF Direct /\ Len(calls) > 1 THEN Len(calls) - 2 ELSE Len(calls) - 1

\* The entry of the i-th call of the thread in the trace.
EntryOf(i) == Trace[Len(Trace) - i + 1]

\* Is the call one of a native method, by native code?
RunDirectly(i) == calls[i].via = "api" /\ calls[i].method \in Native

\* Faulty variant: parameters are always left to the caller.
VisitedByCalleeAlone(i) ==
  IF RunDirectly(i) THEN Trace = <<>> /\ active = calls[i].method /\ precall.prv = calls[i].prv
  ELSE i = 1

\* A collection visits the parameters of an entry if nobody called it or a
\* native method did; if there are no entries, those of activeNativeMethod, at
\* the address that Precall computed.
VisitedByCallee(i) ==
  IF RunDirectly(i) THEN Trace = <<>> /\ active = calls[i].method /\ precall.prv = calls[i].prv
  ELSE i = 1 \/ EntryOf(i - 1).method \in Native

\* They are also among the operands of a compiled caller, from the instruction
\* after the one that pushed them up to the call.
VisitedByCaller(i) ==
  i \in 2..Len(Trace) + 1 /\ EntryOf(i - 1).method \in Managed /\ EntryOf(i - 1).instruction = calls[i - 1].at

-----------------------------------------------------------------------------
(***************************************************************************)
(* Properties.                                                             *)
(***************************************************************************)

Address == 0..StackCapacity

Frame == [method : Methods \cup {Null}, ip : Nat, prv : Address, bp : Address]

SavedFrame == [frame : Frame, insertion : Address, aboveNative : BOOLEAN,
               native : Methods \cup {Null}, sub : Frame,
               size : {0, HeadSize, RootSize, ReentrantSize}]

Activation == [method : Methods, via : {"api", "inline"}, prv : Address, bp : Address,
               low : Address, high : Address, at : Nat, caller : Frame,
               named : Methods]

\* Type correctness.  Every address the thread keeps, computes or saves lies
\* in its stack: nothing is ever written below or above it.
TypeOK ==
  /\ frame \in Frame /\ precall \in Frame
  /\ insertion \in Address /\ active \in Methods \cup {Null}
  /\ heads \in [Address -> SavedFrame]
  /\ calls \in Seq(Activation)
  /\ prepared \in Methods \cup {Null}
  /\ allocating \in BOOLEAN /\ failed \in BOOLEAN /\ broken \in BOOLEAN

\* The areas of the calls in progress lie one below the other, and what Precall
\* has prepared, and native code writes to, lies below all of them.
AreasDisjoint ==
  /\ \A i \in DOMAIN calls :
       /\ calls[i].low <= calls[i].high
       /\ \A j \in 1..i - 1 : calls[i].high <= calls[j].low
  /\ prepared # Null => insertion <= Top.low

\* Whoever runs finds the thread as it left it, whatever the calls it made in
\* between did: a compiled method its frame, a native method the insertion
\* point, its caller's frame and the active native method, the program the
\* whole stack.  The active native method is the one that runs, or the last one
\* that it ran directly, see ActiveIsRunning.
StateRestored ==
  ~failed /\ ~broken =>
    /\ Top.method \in Managed =>
         frame.method = Top.method /\ frame.bp = Top.bp /\ frame.prv = Top.prv
    /\ Top.method \in Native /\ Top.via = "inline" =>
         frame = Top.caller /\ insertion = Top.low /\ active = Top.named
    /\ Direct => active = Top.method
    /\ Idle => frame = NoFrame /\ insertion = StackCapacity

\* Whenever somebody allocates, the walk of the collector finds the calls in
\* progress, each at the instruction it executes, save the native methods at
\* the end; after a failure it finds them below the frames that were given up.
\* A native method has the name that activeNativeMethod had when it called.
\* The instruction of the compiled method that allocates is left out, see
\* TracedWhereItIs.
TraceIsTheCalls ==
  MayCollect =>
    /\ Len(Trace) >= Traced
    /\ ~failed => Len(Trace) = Traced
    /\ \A i \in 1..Traced :
         /\ EntryOf(i).method = calls[i].named
         /\ calls[i].method \in Managed =>
              /\ EntryOf(i).bp = calls[i].bp /\ EntryOf(i).prv = calls[i].prv
              /\ ~allocating \/ i < Len(calls) => EntryOf(i).instruction = calls[i].at

\* A collection visits the parameters of a call in progress, and visits them
\* once: as the callee's own if native code called, and otherwise as operands
\* of the caller.  A native method that another native method runs is left out,
\* see AllParametersVisited.
ParametersVisitedOnce ==
  MayCollect /\ ~failed =>
    \A i \in DOMAIN calls :
      ~(i > 1 /\ RunDirectly(i)) => VisitedByCallee(i) # VisitedByCaller(i)

\* The strict form of the last property, which the code does not have: nobody
\* visits the parameters of a native method that another native method runs.
AllParametersVisited ==
  MayCollect /\ ~failed =>
    \A i \in DOMAIN calls : VisitedByCallee(i) \/ VisitedByCaller(i)

\* "Currently active native method" (rdx_runtime.hpp:134), which the code does
\* not keep: once a native method has run another one, it finds that one there.
ActiveIsRunning ==
  InNative /\ ~Idle /\ ~failed => active = Top.method

\* "Instruction that creates this value.  The value starts existing on the NEXT
\* instruction" (rdx_ilcomp.hpp:240): a collection inside an allocation has to
\* see the values that exist on the instruction that allocates.
TracedWhereItIs ==
  allocating => EntryOf(Len(calls)).instruction = Top.at

=============================================================================
