------------------------- MODULE RuntimeThreadProofs -------------------------
(***************************************************************************)
(* Proofs about RuntimeThread, for every stack, alignment and size of a    *)
(* saved frame, and for every set of methods with any parameters, results, *)
(* frames and bodies.                                                      *)
(***************************************************************************)
EXTENDS RuntimeThread, TLAPS, NaturalInduction, FiniteSetTheorems

-----------------------------------------------------------------------------
(***************************************************************************)
(* The inductive invariant.                                                *)
(***************************************************************************)

\* The frame that a compiled method resumes with.
Resumes(c) == [method |-> c.method, ip |-> c.at + 1, prv |-> c.prv, bp |-> c.bp]

\* Native code called: the program, or a native method that a compiled method
\* called.
CalledByNative(cs, i) ==
  IF i = 1 THEN cs[i].high = StackCapacity
  ELSE /\ cs[i - 1].method \in Native /\ cs[i - 1].via = "inline"
       /\ cs[i].high = cs[i - 1].low

\* The head of a method that native code called.
RootSaved(cs, hs, i) ==
  /\ hs[cs[i].bp].frame.method = Null
  /\ hs[cs[i].bp].aboveNative <=> i > 1
  /\ hs[cs[i].bp].size > 0
  /\ i > 1 => /\ hs[cs[i].bp].insertion = cs[i - 1].low
              /\ hs[cs[i].bp].native = cs[i - 1].named
              /\ hs[cs[i].bp].sub = cs[i - 1].caller

CalledByManaged(cs, i) ==
  i > 1 /\ cs[i - 1].method \in Managed /\ cs[i].high = cs[i - 1].low

\* The frame of a compiled method is in its area, below the saved frame of
\* whoever called it.
FrameInPlace(cs, hs, i) ==
  /\ cs[i].named = cs[i].method
  /\ cs[i].bp - FrameCapacity[cs[i].method] >= 0
  /\ cs[i].bp - FrameCapacity[cs[i].method] <= cs[i].low
  /\ cs[i].low <= cs[i].bp
  /\ cs[i].bp + hs[cs[i].bp].size <= cs[i].high
  /\ cs[i].via = "api" => RootSaved(cs, hs, i)
  /\ cs[i].via = "inline" => /\ hs[cs[i].bp].frame = Resumes(cs[i - 1])
                             /\ hs[cs[i].bp].size > 0

NativeInPlace(cs, i) ==
  /\ cs[i].named \in Native
  /\ cs[i].via = "api" => i = Len(cs)
  /\ cs[i].via = "inline" => /\ cs[i].low = cs[i].high
                             /\ cs[i].caller = Resumes(cs[i - 1])

\* What holds of the i-th of the calls cs if the memory holds the heads hs.
InPlace(cs, hs, i) ==
  /\ cs[i].low <= cs[i].high
  /\ \A j \in 1..i - 1 : cs[i].high <= cs[j].low
  /\ cs[i].via = "api" => CalledByNative(cs, i)
  /\ cs[i].via = "inline" => CalledByManaged(cs, i)
  /\ cs[i].method \in Managed => FrameInPlace(cs, hs, i)
  /\ cs[i].method \in Native => NativeInPlace(cs, i)

CallsInv == \A i \in DOMAIN calls : InPlace(calls, heads, i)

\* A native method that native code runs directly has left it all its fields
\* but activeNativeMethod.
RunByCaller(caller) ==
  /\ active = Top.method
  /\ Len(calls) = 1 => frame = NoFrame /\ insertion = StackCapacity
  /\ Len(calls) > 1 =>
       frame = caller.caller /\ insertion = caller.low /\ active = caller.named

\* The fields of the thread belong to whoever runs.
RunsInv ==
  ~failed =>
    /\ Idle => frame = NoFrame /\ insertion = StackCapacity
    /\ Top.method \in Managed =>
         /\ frame.method = Top.method /\ frame.bp = Top.bp /\ frame.prv = Top.prv
         /\ Top.low = Top.bp - FrameCapacity[Top.method]
    /\ Top.method \in Native /\ Top.via = "inline" =>
         frame = Top.caller /\ insertion = Top.low /\ active = Top.named
    /\ Top.method \in Native /\ Top.via = "api" =>
         RunByCaller(calls[Len(calls) - 1])

\* After a failure only native code is left, and it can only give up.
FailedInv == failed => Top.method \notin Managed /\ prepared = Null

PreparedInv ==
  prepared # Null =>
    /\ Top.method \notin Managed /\ Top.via # "api"
    /\ precall.method = Null
    /\ precall.prv = insertion - Results[prepared]
    /\ precall.bp = insertion - CallSpace(prepared)

AllocatingInv == allocating => Top.method \in Managed /\ ~broken

Inv == TypeOK /\ CallsInv /\ RunsInv /\ FailedInv /\ PreparedInv /\ AllocatingInv

-----------------------------------------------------------------------------
(***************************************************************************)
(* Sizes and types.                                                        *)
(***************************************************************************)

\* Padding rounds up.
LEMMA PaddedFits ==
  ASSUME NEW size \in Nat
  PROVE  Padded(size) \in Nat /\ size <= Padded(size)
<1> DEFINE q == (size + Alignment - 1) \div Alignment
<1>1. Alignment \in Nat /\ Alignment > 0
  BY ThreadAssumption
<1>2. q \in Nat
  BY <1>1
<1>3. size + Alignment - 1 < q * Alignment + Alignment
  BY <1>1
<1>4. q * Alignment \in Nat
  BY <1>1, <1>2
<1>5. Padded(size) = q * Alignment
  BY DEF Padded
<1> QED
  BY <1>1, <1>3, <1>4, <1>5

\* Parameters and results fit in what a call takes.
LEMMA CallSpaceFits ==
  ASSUME NEW m \in Methods
  PROVE  /\ CallSpace(m) \in Nat /\ Results[m] \in Nat
         /\ Results[m] <= CallSpace(m)
<1>1. Parameters[m] \in Nat /\ Results[m] \in Nat
  BY ThreadAssumption DEF Methods
<1>2. Parameters[m] + Results[m] \in Nat
  BY <1>1
<1> QED
  BY <1>1, <1>2, PaddedFits DEF CallSpace

LEMMA HeadRoomType ==
  ASSUME NEW hasInsertionPoint \in BOOLEAN, NEW hasNativeFrame \in BOOLEAN
  PROVE  /\ HeadRoom(hasInsertionPoint, hasNativeFrame) \in Nat
         /\ HeadRoom(hasInsertionPoint, hasNativeFrame) > 0
         /\ HeadRoom(hasInsertionPoint, hasNativeFrame) \in {HeadSize, RootSize, ReentrantSize}
  BY ThreadAssumption DEF HeadRoom

LEMMA NoFrameType == NoFrame \in Frame /\ NoHead \in SavedFrame
<1>1. 0 \in Address
  BY ThreadAssumption DEF Address
<1> QED
  BY <1>1 DEF NoFrame, NoHead, Frame, SavedFrame

\* Writing destroys no head above.
LEMMA OverwrittenAbove ==
  ASSUME TypeOK, NEW low \in Int, NEW high \in Int
  PROVE  /\ Overwritten(low, high) \in [Address -> SavedFrame]
         /\ \A a \in Address : a >= high => Overwritten(low, high)[a] = heads[a]
<1>1. heads \in [Address -> SavedFrame] /\ DOMAIN heads = Address
  BY DEF TypeOK
<1>2. \A a \in Address : a \in Int
  BY ThreadAssumption DEF Address
<1> QED
  BY <1>1, <1>2, NoFrameType DEF Overwritten

LEMMA EnteredAbove ==
  ASSUME TypeOK, NEW head \in SavedFrame, NEW bp \in Address, NEW capacity \in Nat,
         head.size > 0
  PROVE  /\ Entered(head, bp, capacity) \in [Address -> SavedFrame]
         /\ Entered(head, bp, capacity)[bp] = head
         /\ \A a \in Address : a >= bp + head.size =>
              Entered(head, bp, capacity)[a] = heads[a]
<1>1. bp \in Int /\ head.size \in Int
  BY ThreadAssumption DEF Address, SavedFrame
<1> DEFINE o == Overwritten(bp - capacity, bp + head.size)
<1>2. /\ o \in [Address -> SavedFrame]
      /\ \A a \in Address : a >= bp + head.size => o[a] = heads[a]
  BY <1>1, OverwrittenAbove
<1>3. \A a \in Address : a \in Int
  BY ThreadAssumption DEF Address
<1>4. Entered(head, bp, capacity) = [o EXCEPT ![bp] = head]
  BY DEF Entered
<1> HIDE DEF o
<1> QED
  BY <1>1, <1>2, <1>3, <1>4

-----------------------------------------------------------------------------
(***************************************************************************)
(* Sequences of calls.                                                     *)
(***************************************************************************)

\* Calls stay in place if their own heads are kept.
LEMMA HeadsKept ==
  ASSUME NEW cs \in Seq(Activation), NEW hs, NEW hs2,
         \A i \in DOMAIN cs : InPlace(cs, hs, i),
         \A i \in DOMAIN cs : cs[i].method \in Managed => hs2[cs[i].bp] = hs[cs[i].bp]
  PROVE  \A i \in DOMAIN cs : InPlace(cs, hs2, i)
<1> SUFFICES ASSUME NEW i \in DOMAIN cs
             PROVE  InPlace(cs, hs2, i)
  OBVIOUS
<1>1. InPlace(cs, hs, i)
  OBVIOUS
<1>2. cs[i].method \in Managed => FrameInPlace(cs, hs2, i)
  BY <1>1 DEF InPlace, FrameInPlace, RootSaved
<1> QED
  BY <1>1, <1>2 DEF InPlace

\* So do the outer calls when the inner ones have returned.
LEMMA PrefixInPlace ==
  ASSUME NEW cs \in Seq(Activation), NEW hs, NEW k \in 0..Len(cs),
         \A i \in DOMAIN cs : InPlace(cs, hs, i)
  PROVE  /\ SubSeq(cs, 1, k) \in Seq(Activation)
         /\ Len(SubSeq(cs, 1, k)) = k
         /\ \A i \in 1..k : SubSeq(cs, 1, k)[i] = cs[i]
         /\ \A i \in DOMAIN SubSeq(cs, 1, k) : InPlace(SubSeq(cs, 1, k), hs, i)
<1> DEFINE p == SubSeq(cs, 1, k)
<1>1. p \in Seq(Activation) /\ Len(p) = k /\ \A i \in 1..k : p[i] = cs[i]
  OBVIOUS
<1> HIDE DEF p
<1>2. ASSUME NEW i \in DOMAIN p
      PROVE  InPlace(p, hs, i)
  <2>1. i \in 1..k /\ i \in DOMAIN cs
    BY <1>1
  <2>2. InPlace(cs, hs, i) /\ p[i] = cs[i]
    BY <1>1, <2>1
  <2>3. \A j \in 1..i - 1 : j \in 1..k /\ p[j] = cs[j]
    BY <1>1, <2>1
  <2>4. i > 1 => p[i - 1] = cs[i - 1]
    BY <1>1, <2>1
  <2>5. CalledByNative(cs, i) => CalledByNative(p, i)
    BY <2>1, <2>2, <2>4 DEF CalledByNative
  <2>6. CalledByManaged(cs, i) => CalledByManaged(p, i)
    BY <2>2, <2>4 DEF CalledByManaged
  <2>7. cs[i].via = "inline" => i > 1
    BY <2>2 DEF InPlace, CalledByManaged
  <2>8. FrameInPlace(cs, hs, i) => FrameInPlace(p, hs, i)
    BY <2>2, <2>4, <2>7 DEF FrameInPlace, RootSaved
  <2>9. NativeInPlace(cs, i) => NativeInPlace(p, i)
    BY <1>1, <2>1, <2>2, <2>4, <2>7 DEF NativeInPlace
  <2> QED
    BY <2>2, <2>3, <2>5, <2>6, <2>8, <2>9 DEF InPlace
<1> QED
  BY <1>1, <1>2 DEF p

\* A compiled method may go on, and use its frame down to any address.
LEMMA ResumedInPlace ==
  ASSUME NEW cs \in Seq(Activation), NEW n, n = Len(cs), n > 0,
         NEW hs \in [Address -> SavedFrame],
         cs[n].method \in Managed,
         NEW r \in Activation,
         r.method = cs[n].method, r.via = cs[n].via, r.prv = cs[n].prv, r.bp = cs[n].bp,
         r.high = cs[n].high, r.caller = cs[n].caller, r.named = cs[n].named,
         r.bp - FrameCapacity[r.method] <= r.low, r.low <= r.bp,
         \A i \in DOMAIN cs : InPlace(cs, hs, i)
  PROVE  /\ [cs EXCEPT ![n] = r] \in Seq(Activation) /\ Len([cs EXCEPT ![n] = r]) = n
         /\ \A i \in 1..n : InPlace([cs EXCEPT ![n] = r], hs, i)
<1> DEFINE rs == [cs EXCEPT ![n] = r]
           low == r.low
<1>1. n \in DOMAIN cs /\ n \in Nat /\ n > 0 /\ DOMAIN cs = 1..n
  OBVIOUS
<1>2. rs \in Seq(Activation) /\ Len(rs) = n /\ DOMAIN rs = 1..n
  BY <1>1
<1>3. \A i \in 1..n - 1 : rs[i] = cs[i]
  BY <1>1
<1>4. rs[n] = r /\ cs[n] \in Activation
  BY <1>1
<1>5. /\ rs[n].method = cs[n].method /\ rs[n].via = cs[n].via /\ rs[n].prv = cs[n].prv
      /\ rs[n].bp = cs[n].bp /\ rs[n].high = cs[n].high /\ rs[n].low = low
      /\ rs[n].caller = cs[n].caller /\ rs[n].named = cs[n].named
  BY <1>4
<1>6. cs[n].bp \in Int /\ cs[n].high \in Int /\ low \in Int /\ hs[cs[n].bp].size \in Int
  <2>1. cs[n].bp \in Address /\ cs[n].high \in Address /\ low \in Address
    BY <1>4 DEF Activation
  <2>2. hs[cs[n].bp] \in SavedFrame
    BY <2>1
  <2>3. hs[cs[n].bp].size \in Int
    BY <2>2, ThreadAssumption DEF SavedFrame
  <2> QED
    BY <2>1, <2>3, ThreadAssumption DEF Address
<1>7. cs[n].via \in {"api", "inline"} /\ InPlace(cs, hs, n)
  BY <1>1, <1>4 DEF Activation
<1>8. FrameInPlace(cs, hs, n)
  BY <1>7 DEF InPlace
<1>9. low <= rs[n].high /\ cs[n].bp - FrameCapacity[cs[n].method] <= low /\ low <= cs[n].bp
  BY <1>5, <1>6, <1>7, <1>8 DEF FrameInPlace, RootSaved
<1> HIDE DEF rs, low
<1>10. ASSUME NEW i \in 1..n
       PROVE  InPlace(rs, hs, i)
  <2>1. i \in DOMAIN cs /\ InPlace(cs, hs, i)
    BY <1>1
  <2>2. \A j \in 1..i - 1 : rs[j] = cs[j]
    BY <1>1, <1>3
  <2>3. i > 1 => rs[i - 1] = cs[i - 1]
    BY <1>1, <1>3
  <2>4. /\ rs[i].method = cs[i].method /\ rs[i].via = cs[i].via /\ rs[i].bp = cs[i].bp
        /\ rs[i].high = cs[i].high /\ rs[i].caller = cs[i].caller
    BY <1>1, <1>3, <1>5
  <2>5. i < n => rs[i] = cs[i]
    BY <1>1, <1>3
  <2>6. CalledByNative(cs, i) => CalledByNative(rs, i)
    BY <1>1, <2>3, <2>4 DEF CalledByNative
  <2>7. CalledByManaged(cs, i) => CalledByManaged(rs, i)
    BY <2>3, <2>4 DEF CalledByManaged
  <2>8. cs[i].via = "inline" => i > 1
    BY <2>1 DEF InPlace, CalledByManaged
  <2>9. CASE i < n
    <3>1. FrameInPlace(cs, hs, i) => FrameInPlace(rs, hs, i)
      BY <2>3, <2>5, <2>8, <2>9 DEF FrameInPlace, RootSaved
    <3>2. NativeInPlace(cs, i) => NativeInPlace(rs, i)
      BY <1>1, <1>2, <2>3, <2>5, <2>8, <2>9 DEF NativeInPlace
    <3> QED
      BY <2>1, <2>2, <2>5, <2>6, <2>7, <2>9, <3>1, <3>2 DEF InPlace
  <2>10. CASE i = n
    <3>1. FrameInPlace(rs, hs, n)
      BY <1>5, <1>8, <1>9, <2>3, <2>8, <2>10 DEF FrameInPlace, RootSaved
    <3>2. rs[n].method \in Managed /\ rs[n].method \notin Native
      BY <1>5, ThreadAssumption
    <3> QED
      BY <1>5, <1>9, <2>1, <2>2, <2>4, <2>6, <2>7, <2>10, <3>1, <3>2 DEF InPlace
  <2> QED
    BY <1>1, <2>9, <2>10
<1> QED
  BY <1>2, <1>10 DEF rs

\* A call is added to calls in place, below them.
LEMMA AppendInPlace ==
  ASSUME NEW cs \in Seq(Activation), NEW hs, NEW c \in Activation,
         \A i \in DOMAIN cs : InPlace(cs, hs, i),
         cs # <<>> => ~(cs[Len(cs)].method \in Native /\ cs[Len(cs)].via = "api"),
         InPlace(Append(cs, c), hs, Len(cs) + 1)
  PROVE  /\ Append(cs, c) \in Seq(Activation)
         /\ \A i \in DOMAIN Append(cs, c) : InPlace(Append(cs, c), hs, i)
<1> DEFINE n == Len(cs)
           as == Append(cs, c)
<1>1. /\ as \in Seq(Activation) /\ Len(as) = n + 1 /\ n \in Nat /\ DOMAIN as = 1..n + 1
      /\ DOMAIN cs = 1..n /\ \A i \in 1..n : as[i] = cs[i]
  OBVIOUS
<1> HIDE DEF n, as
<1>2. ASSUME NEW i \in 1..n
      PROVE  InPlace(as, hs, i)
  <2>1. InPlace(cs, hs, i) /\ as[i] = cs[i]
    BY <1>1
  <2>2. \A j \in 1..i - 1 : as[j] = cs[j]
    <3>1. \A j \in 1..i - 1 : j \in 1..n
      BY <1>1
    <3> QED
      BY <1>1, <3>1
  <2>3. i > 1 => as[i - 1] = cs[i - 1]
    <3>1. i > 1 => i - 1 \in 1..n
      BY <1>1
    <3> QED
      BY <1>1, <3>1
  <2>4. cs[i].via = "inline" => i > 1
    BY <2>1 DEF InPlace, CalledByManaged
  <2>5. CalledByNative(cs, i) => CalledByNative(as, i)
    <3>1. i = 1 \/ i > 1
      BY <1>1
    <3> QED
      BY <2>1, <2>3, <3>1 DEF CalledByNative
  <2>6. CalledByManaged(cs, i) => CalledByManaged(as, i)
    BY <2>1, <2>3 DEF CalledByManaged
  <2>7. FrameInPlace(cs, hs, i) => FrameInPlace(as, hs, i)
    BY <2>1, <2>3, <2>4 DEF FrameInPlace, RootSaved
  <2>8. cs[i].method \in Native => cs[i].via # "api"
    <3> SUFFICES ASSUME cs[i].method \in Native, cs[i].via = "api" PROVE FALSE
      OBVIOUS
    <3>1. i = Len(cs) /\ cs # <<>>
      BY <2>1 DEF InPlace, NativeInPlace
    <3> QED
      BY <3>1
  <2>9. cs[i].method \in Native => NativeInPlace(as, i)
    BY <2>1, <2>3, <2>4, <2>8 DEF NativeInPlace, InPlace
  <2> QED
    BY <2>1, <2>2, <2>5, <2>6, <2>7, <2>9 DEF InPlace
<1> QED
  BY <1>1, <1>2 DEF n, as

\* The caller of the last call.
LEMMA LastByNative ==
  ASSUME NEW cs, NEW n \in Nat,
         n = 0 => cs[n + 1].high = StackCapacity,
         n # 0 => /\ cs[n].method \in Native /\ cs[n].via = "inline"
                  /\ cs[n + 1].high = cs[n].low
  PROVE  CalledByNative(cs, n + 1)
<1>1. n + 1 - 1 = n /\ (n = 0 <=> n + 1 = 1)
  OBVIOUS
<1> QED
  BY <1>1 DEF CalledByNative

LEMMA NotBelow ==
  ASSUME NEW a \in Nat, NEW b \in Nat, NEW d \in Nat, a <= b, b <= d
  PROVE  d >= a
OBVIOUS

\* A compiled method is entered below the calls in progress.
LEMMA EnteredInPlace ==
  ASSUME TypeOK, NEW cs \in Seq(Activation), NEW c \in Activation, NEW head \in SavedFrame,
         \A i \in DOMAIN cs : InPlace(cs, heads, i),
         cs # <<>> => ~(cs[Len(cs)].method \in Native /\ cs[Len(cs)].via = "api"),
         c.method \in Managed, c.named = c.method,
         c.low = c.bp - FrameCapacity[c.method],
         head.size > 0, c.bp + head.size <= c.high,
         \A i \in DOMAIN cs : c.high <= cs[i].low,
         \A i \in DOMAIN cs : cs[i].method \in Managed => c.high <= cs[i].bp,
         c.via = "api" =>
           /\ CalledByNative(Append(cs, c), Len(cs) + 1)
           /\ head.frame.method = Null
           /\ head.aboveNative <=> Len(cs) + 1 > 1
           /\ Len(cs) + 1 > 1 => /\ head.insertion = cs[Len(cs)].low
                                 /\ head.native = cs[Len(cs)].named
                                 /\ head.sub = cs[Len(cs)].caller,
         c.via = "inline" => /\ CalledByManaged(Append(cs, c), Len(cs) + 1)
                             /\ head.frame = Resumes(cs[Len(cs)]),
         NEW hs, hs = Entered(head, c.bp, FrameCapacity[c.method])
  PROVE  /\ hs \in [Address -> SavedFrame]
         /\ Append(cs, c) \in Seq(Activation)
         /\ \A i \in DOMAIN Append(cs, c) : InPlace(Append(cs, c), hs, i)
<1> DEFINE n == Len(cs)
           as == Append(cs, c)
<1>1. /\ n \in Nat /\ DOMAIN cs = 1..n /\ as[n + 1] = c /\ \A i \in 1..n : as[i] = cs[i]
      /\ n >= 1 => as[n] = cs[n]
  OBVIOUS
<1>2. /\ c.bp \in Address /\ c.low \in Address /\ c.high \in Address
      /\ \A a \in Address : a \in Nat
      /\ FrameCapacity[c.method] \in Nat /\ c.method \notin Native
      /\ c.via \in {"api", "inline"}
  BY ThreadAssumption DEF Activation, Address
<1>3. head.size \in Nat
  BY ThreadAssumption DEF SavedFrame
<1>4. /\ hs \in [Address -> SavedFrame] /\ hs[c.bp] = head
      /\ \A a \in Address : a >= c.bp + head.size => hs[a] = heads[a]
  BY <1>2, EnteredAbove, SMTT(30)
<1>5. \A i \in DOMAIN cs : InPlace(cs, hs, i)
  <2>1. ASSUME NEW i \in DOMAIN cs, cs[i].method \in Managed
        PROVE  hs[cs[i].bp] = heads[cs[i].bp]
    <3>1. cs[i] \in Activation
      OBVIOUS
    <3>2. cs[i].bp \in Address /\ c.high <= cs[i].bp
      BY <2>1, <3>1 DEF Activation
    <3>3. cs[i].bp \in Nat /\ c.high \in Nat /\ c.bp + head.size \in Nat
      BY <1>2, <1>3, <3>2
    <3>4. cs[i].bp >= c.bp + head.size
      BY <3>2, <3>3, NotBelow
    <3> QED
      BY <1>4, <3>2, <3>4
  <2> QED
    BY <2>1, HeadsKept
<1> HIDE DEF n, as
<1>6. n + 1 - 1 = n /\ (n + 1 > 1 => n >= 1) /\ (n + 1 = 1 \/ n + 1 > 1)
  BY <1>1
<1> DEFINE k == n + 1
<1>7. /\ k - 1 = n /\ as[k] = c /\ hs[as[k].bp] = head /\ (k = 1 \/ k > 1)
      /\ k > 1 => as[n] = cs[n]
      /\ 1..k - 1 = 1..n
  <2>1. k - 1 = n /\ (k = 1 \/ k > 1) /\ (k > 1 => n >= 1)
    <3>1. n \in Nat
      BY <1>1
    <3> QED
      BY <3>1
  <2>2. as[k] = c
    BY <1>1
  <2> HIDE DEF k
  <2> QED
    BY <1>1, <1>4, <2>1, <2>2
<1>8. c.via = "api" =>
        /\ CalledByNative(as, k)
        /\ head.frame.method = Null
        /\ head.aboveNative <=> k > 1
        /\ k > 1 => /\ head.insertion = cs[n].low
                    /\ head.native = cs[n].named
                    /\ head.sub = cs[n].caller
  BY DEF n, as
<1>9. c.via = "inline" => CalledByManaged(as, k) /\ head.frame = Resumes(cs[n])
  BY DEF n, as
<1> HIDE DEF k
<1>10. c.via = "api" => RootSaved(as, hs, k)
  BY <1>7, <1>8 DEF RootSaved
<1>11. c.via = "inline" => hs[as[k].bp].frame = Resumes(as[k - 1])
  BY <1>7, <1>9 DEF CalledByManaged
<1>12. /\ c.low <= c.bp /\ c.bp - FrameCapacity[c.method] >= 0
       /\ c.bp - FrameCapacity[c.method] <= c.low /\ c.low <= c.high
  BY <1>2, <1>3
<1>13. FrameInPlace(as, hs, k)
  BY <1>7, <1>10, <1>11, <1>12 DEF FrameInPlace
<1>14. \A j \in 1..k - 1 : c.high <= as[j].low
  BY <1>1, <1>7
<1>15. InPlace(as, hs, k)
  BY <1>2, <1>7, <1>8, <1>9, <1>12, <1>13, <1>14 DEF InPlace
<1> QED
  BY <1>4, <1>5, <1>15, AppendInPlace DEF k, n, as

-----------------------------------------------------------------------------
(***************************************************************************)
(* Who runs.                                                               *)
(***************************************************************************)

LEMMA ProgramFacts ==
  /\ Program.method = Null /\ Program.via = "program" /\ Program.low = StackCapacity
  /\ Program.method \notin Methods
  BY ThreadAssumption DEF Program, Call

LEMMA TopFacts ==
  ASSUME TypeOK
  PROVE  /\ Idle => Top = Program
         /\ ~Idle => /\ Len(calls) \in Nat /\ Len(calls) > 0
                     /\ Len(calls) \in DOMAIN calls
                     /\ Top = calls[Len(calls)] /\ Top \in Activation
         /\ Top.method \in Methods \/ Top.via \in {"api", "inline"} => ~Idle
         /\ ~Idle => Top.method \in Methods /\ Top.via \in {"api", "inline"}
         /\ Top.low \in Address
<1>1. calls \in Seq(Activation)
  BY DEF TypeOK
<1>2. Idle => Top = Program
  BY DEF Top
<1>3. ~Idle => /\ Len(calls) \in Nat /\ Len(calls) > 0
               /\ Len(calls) \in DOMAIN calls
               /\ Top = calls[Len(calls)] /\ Top \in Activation
  BY <1>1 DEF Top, Idle
<1>4. StackCapacity \in Address
  BY ThreadAssumption DEF Address
<1> QED
  BY <1>2, <1>3, <1>4, ProgramFacts DEF Activation

\* Native code that may call knows where: everything above is in use.
LEMMA CallerFacts ==
  ASSUME Inv, MayCall
  PROVE  /\ insertion = Top.low /\ insertion \in Nat /\ insertion <= StackCapacity
         /\ \A i \in DOMAIN calls : insertion <= calls[i].low /\ calls[i].low \in Address
         /\ \A i \in DOMAIN calls : calls[i].method \in Managed =>
              insertion <= calls[i].bp /\ calls[i].bp \in Address
         /\ ~Idle => Top.method \in Native /\ Top.via = "inline"
         /\ Idle => insertion = StackCapacity
<1>1. TypeOK /\ CallsInv /\ RunsInv
  BY DEF Inv
<1>2. ~Idle => Top.method \in Native /\ Top.via = "inline"
  BY <1>1, TopFacts DEF MayCall, InNative, Methods
<1>3. insertion = Top.low
  BY <1>1, <1>2, TopFacts, ProgramFacts DEF RunsInv, MayCall
<1>4. insertion \in Nat /\ insertion <= StackCapacity
  BY <1>1, ThreadAssumption DEF TypeOK, Address
<1>5. ASSUME NEW i \in DOMAIN calls
      PROVE  insertion <= calls[i].low /\ calls[i].low \in Address /\ calls[i].bp \in Address
  <2>1. calls \in Seq(Activation)
    BY <1>1 DEF TypeOK
  <2>2. calls[i] \in Activation
    BY <2>1
  <2>3. calls[i].low \in Address /\ calls[i].bp \in Address
    BY <2>2 DEF Activation
  <2>4. i \in 1..Len(calls) /\ ~Idle
    BY <2>1 DEF Idle
  <2>5. CASE i = Len(calls)
    BY <1>1, <1>3, <1>4, <2>3, <2>4, <2>5, TopFacts
  <2>6. CASE i # Len(calls)
    <3>1. i \in 1..Len(calls) - 1
      BY <2>1, <2>4, <2>6
    <3>2. InPlace(calls, heads, Len(calls)) /\ Top = calls[Len(calls)] /\ Top \in Activation
      BY <1>1, <2>4, TopFacts DEF CallsInv
    <3>3. Top.low <= Top.high /\ Top.high <= calls[i].low
      BY <3>1, <3>2 DEF InPlace
    <3>4. Top.low \in Int /\ Top.high \in Int /\ calls[i].low \in Int
      BY <2>3, <3>2, ThreadAssumption DEF Activation, Address
    <3> QED
      BY <1>3, <2>3, <3>3, <3>4
  <2> QED
    BY <2>5, <2>6
<1>6. ASSUME NEW i \in DOMAIN calls, calls[i].method \in Managed
      PROVE  insertion <= calls[i].bp
  <2>1. calls[i].low <= calls[i].bp
    BY <1>1, <1>6 DEF CallsInv, InPlace, FrameInPlace
  <2> QED
    BY <1>4, <1>5, <2>1, ThreadAssumption DEF Address
<1>7. Idle => insertion = StackCapacity
  BY <1>3, <1>1, TopFacts, ProgramFacts
<1> QED
  BY <1>2, <1>3, <1>4, <1>5, <1>6, <1>7

\* A compiled method that runs is the lowest of the calls.
LEMMA ManagedFacts ==
  ASSUME Inv, Top.method \in Managed
  PROVE  /\ ~Idle /\ ~failed /\ prepared = Null
         /\ Top = calls[Len(calls)] /\ Top \in Activation
         /\ Len(calls) \in DOMAIN calls /\ Len(calls) \in Nat /\ Len(calls) > 0
         /\ frame.method = Top.method /\ frame.bp = Top.bp /\ frame.prv = Top.prv
         /\ Top.low = Top.bp - FrameCapacity[Top.method]
         /\ FrameInPlace(calls, heads, Len(calls))
         /\ Top.bp \in Nat /\ Top.low \in Nat /\ Top.bp < StackCapacity
         /\ FrameCapacity[Top.method] \in Nat
         /\ \A i \in DOMAIN calls : calls[i].method \in Managed =>
              Top.bp <= calls[i].bp /\ calls[i].bp \in Address
         /\ \A i \in DOMAIN calls : calls[i].low \in Address /\
              (i # Len(calls) => Top.bp <= calls[i].low)
<1> DEFINE n == Len(calls)
<1>1. TypeOK /\ CallsInv /\ RunsInv /\ FailedInv /\ PreparedInv
  BY DEF Inv
<1>2. /\ ~Idle /\ n \in Nat /\ n > 0 /\ n \in DOMAIN calls /\ Top = calls[n] /\ Top \in Activation
  BY <1>1, TopFacts DEF Methods
<1>3. ~failed /\ prepared = Null
  BY <1>1 DEF FailedInv, PreparedInv
<1>4. /\ frame.method = Top.method /\ frame.bp = Top.bp /\ frame.prv = Top.prv
      /\ Top.low = Top.bp - FrameCapacity[Top.method]
  BY <1>1, <1>3 DEF RunsInv
<1>5. InPlace(calls, heads, n) /\ FrameInPlace(calls, heads, n)
  BY <1>1, <1>2 DEF CallsInv, InPlace
<1>6. Top.bp \in Address /\ Top.low \in Address /\ Top.high \in Address
      /\ Top.via \in {"api", "inline"}
  BY <1>2 DEF Activation
<1>7. heads[Top.bp].size \in Nat /\ heads[Top.bp].size > 0
  <2>1. heads[Top.bp] \in SavedFrame
    BY <1>1, <1>6 DEF TypeOK
  <2>2. heads[Top.bp].size \in Nat
    BY <2>1, ThreadAssumption DEF SavedFrame
  <2> QED
    BY <1>2, <1>5, <1>6, <2>2 DEF FrameInPlace, RootSaved
<1>8. Top.bp + heads[Top.bp].size <= Top.high
  BY <1>2, <1>5 DEF FrameInPlace
<1>9. /\ Top.bp \in Nat /\ Top.low \in Nat /\ Top.high \in Nat /\ Top.high <= StackCapacity
      /\ StackCapacity \in Nat
  BY <1>6, ThreadAssumption DEF Address
<1>10. Top.bp < StackCapacity /\ Top.bp <= Top.high
  BY <1>7, <1>8, <1>9
<1>11. FrameCapacity[Top.method] \in Nat
  BY ThreadAssumption
<1>12. ASSUME NEW i \in DOMAIN calls
       PROVE  /\ calls[i].low \in Address /\ calls[i].bp \in Address
              /\ i # n => Top.bp <= calls[i].low
  <2>1. calls \in Seq(Activation)
    BY <1>1 DEF TypeOK
  <2>2. calls[i] \in Activation
    BY <2>1
  <2>3. calls[i].low \in Address /\ calls[i].bp \in Address
    BY <2>2 DEF Activation
  <2>4. i # n => i \in 1..n - 1
    BY <2>1, <1>2
  <2>5. i # n => Top.high <= calls[i].low
    BY <1>2, <1>5, <2>4 DEF InPlace
  <2> QED
    BY <1>9, <1>10, <2>3, <2>5, ThreadAssumption DEF Address
<1>13. ASSUME NEW i \in DOMAIN calls, calls[i].method \in Managed
       PROVE  Top.bp <= calls[i].bp
  <2>1. calls[i].low <= calls[i].bp
    BY <1>1, <1>13 DEF CallsInv, InPlace, FrameInPlace
  <2> QED
    BY <1>2, <1>9, <1>12, <2>1, ThreadAssumption DEF Address
<1> QED
  BY <1>2, <1>3, <1>4, <1>5, <1>9, <1>10, <1>11, <1>12, <1>13

-----------------------------------------------------------------------------
(***************************************************************************)
(* Calls of native code.                                                   *)
(***************************************************************************)

LEMMA PrecallStep ==
  ASSUME Inv, NEW m \in Methods, Precall(m)
  PROVE  Inv'
<1>1. /\ MayCall /\ TypeOK /\ CallsInv /\ RunsInv /\ FailedInv /\ AllocatingInv
      /\ insertion >= CallSpace(m)
  BY DEF Inv, Precall
<1>2. UNCHANGED <<frame, insertion, active, calls, allocating, failed, broken>> /\ Top' = Top
      /\ (Idle <=> Idle')
  BY DEF Precall, Top, Idle, Program, Call
<1>3. CallSpace(m) \in Nat /\ Results[m] \in Nat /\ Results[m] <= CallSpace(m)
  BY CallSpaceFits
<1>4. insertion \in Nat /\ insertion <= StackCapacity
  BY <1>1, CallerFacts
<1>5. /\ precall' = [method |-> Null, ip |-> 0, prv |-> insertion - Results[m],
                     bp |-> insertion - CallSpace(m)]
      /\ heads' = Overwritten(insertion - CallSpace(m), insertion) /\ prepared' = m
  BY DEF Precall
<1>6. insertion - Results[m] \in Address /\ insertion - CallSpace(m) \in Address
  BY <1>1, <1>3, <1>4, ThreadAssumption DEF Address
<1>7. precall' \in Frame
  BY <1>5, <1>6 DEF Frame
<1>8. /\ heads' \in [Address -> SavedFrame]
      /\ \A a \in Address : a >= insertion => heads'[a] = heads[a]
  BY <1>1, <1>3, <1>4, <1>5, OverwrittenAbove
<1>9. TypeOK'
  BY <1>1, <1>2, <1>5, <1>7, <1>8 DEF TypeOK
<1>10. CallsInv'
  <2>1. \A i \in DOMAIN calls : calls[i].method \in Managed =>
          heads'[calls[i].bp] = heads[calls[i].bp]
    BY <1>1, <1>4, <1>8, CallerFacts, ThreadAssumption DEF Address
  <2>2. \A i \in DOMAIN calls : InPlace(calls, heads', i)
    BY <1>1, <2>1, HeadsKept, SMTT(30) DEF CallsInv, TypeOK
  <2> QED
    BY <1>2, <2>2 DEF CallsInv
<1>11. RunsInv'
  BY <1>1, <1>2 DEF RunsInv, RunByCaller
<1>12. ~failed /\ Top.method \notin Managed /\ Top.via # "api"
  BY <1>1 DEF MayCall, InNative
<1>13. FailedInv' /\ AllocatingInv'
  BY <1>1, <1>2, <1>12 DEF FailedInv, AllocatingInv
<1>14. PreparedInv'
  BY <1>2, <1>5, <1>12 DEF PreparedInv, CallSpace, Padded
<1> QED
  BY <1>9, <1>10, <1>11, <1>13, <1>14 DEF Inv

\* What Precall has prepared is there when the method is run.
LEMMA PreparedFacts ==
  ASSUME Inv, MayCall, prepared # Null
  PROVE  /\ prepared \in Methods /\ precall \in Frame
         /\ precall.method = Null /\ precall.prv \in Address /\ precall.bp \in Address
         /\ precall.bp <= insertion
<1>1. TypeOK /\ PreparedInv
  BY DEF Inv
<1>2. prepared \in Methods /\ precall \in Frame
  BY <1>1 DEF TypeOK
<1>3. precall.prv \in Address /\ precall.bp \in Address
  BY <1>2 DEF Frame
<1>4. CallSpace(prepared) \in Nat
  BY <1>2, CallSpaceFits
<1> QED
  BY <1>1, <1>2, <1>3, <1>4, CallerFacts DEF PreparedInv

\* The calls stay in place when a native method runs another one.
LEMMA NamedInPlace ==
  ASSUME Inv, MayCall, NEW m \in Native, NEW cs, cs = Named(m)
  PROVE  /\ cs \in Seq(Activation) /\ Len(cs) = Len(calls)
         /\ \A i \in DOMAIN cs : InPlace(cs, heads, i)
         /\ \A i \in DOMAIN cs : cs[i].low = calls[i].low
         /\ ~Idle => LET top == cs[Len(cs)]
                     IN /\ top.method \in Native /\ top.via = "inline" /\ top.named = m
                        /\ top.low = Top.low /\ top.caller = Top.caller
<1> DEFINE n == Len(calls)
<1>1. /\ TypeOK /\ \A i \in DOMAIN calls : InPlace(calls, heads, i)
      /\ calls \in Seq(Activation) /\ n \in Nat /\ DOMAIN calls = 1..n
  BY DEF Inv, TypeOK, CallsInv
<1>2. ~Idle => /\ n \in 1..n /\ Top = calls[n]
               /\ Top.method \in Native /\ Top.via = "inline"
  BY <1>1, TopFacts, CallerFacts
<1>3. cs = [i \in 1..n |-> IF i = n THEN [calls[i] EXCEPT !.named = m] ELSE calls[i]]
  BY <1>1 DEF Named
<1> HIDE DEF n
<1>4. ASSUME NEW i \in 1..n
      PROVE  /\ cs[i] \in Activation
             /\ cs[i].method = calls[i].method /\ cs[i].via = calls[i].via
             /\ cs[i].prv = calls[i].prv /\ cs[i].bp = calls[i].bp
             /\ cs[i].low = calls[i].low /\ cs[i].high = calls[i].high
             /\ cs[i].caller = calls[i].caller /\ cs[i].at = calls[i].at
             /\ i # n => cs[i].named = calls[i].named
             /\ i = n => cs[i].named = m
  <2>1. calls[i] \in Activation /\ m \in Methods
    BY <1>1 DEF Methods
  <2>2. cs[i] = IF i = n THEN [calls[i] EXCEPT !.named = m] ELSE calls[i]
    BY <1>3
  <2> QED
    BY <2>1, <2>2 DEF Activation
<1>5. cs \in Seq(Activation) /\ Len(cs) = n /\ DOMAIN cs = 1..n
  <2>1. cs \in [1..n -> Activation]
    BY <1>3, <1>4
  <2> QED
    BY <1>1, <2>1
<1>6. ASSUME NEW i \in 1..n
      PROVE  InPlace(cs, heads, i)
  <2>1. InPlace(calls, heads, i) /\ i \in Nat /\ i >= 1
    BY <1>1
  <2>2. \A j \in 1..i - 1 : j \in 1..n
    BY <1>1
  <2>3. \A j \in 1..i - 1 : cs[j].low = calls[j].low
    BY <1>4, <2>2
  <2>4. i > 1 => i - 1 \in 1..n /\ i - 1 # n
    BY <1>1
  <2>5. i > 1 => /\ cs[i - 1].method = calls[i - 1].method /\ cs[i - 1].via = calls[i - 1].via
                 /\ cs[i - 1].low = calls[i - 1].low
                 /\ cs[i - 1].caller = calls[i - 1].caller
                 /\ cs[i - 1].named = calls[i - 1].named
                 /\ Resumes(cs[i - 1]) = Resumes(calls[i - 1])
    BY <1>4, <2>4 DEF Resumes
  <2>6. CalledByNative(calls, i) => CalledByNative(cs, i)
    BY <1>4, <2>1, <2>5 DEF CalledByNative
  <2>7. CalledByManaged(calls, i) => CalledByManaged(cs, i)
    BY <1>4, <2>5 DEF CalledByManaged
  <2>8. calls[i].via = "inline" => i > 1
    BY <2>1 DEF InPlace, CalledByManaged
  <2>9. calls[i].method \in Managed => i # n
    <3> SUFFICES ASSUME calls[i].method \in Managed, i = n PROVE FALSE
      OBVIOUS
    <3>1. ~Idle
      BY <1>1 DEF Idle
    <3> QED
      BY <1>2, <3>1, ThreadAssumption
  <2>10. calls[i].method \in Managed => FrameInPlace(cs, heads, i)
    <3> SUFFICES ASSUME calls[i].method \in Managed PROVE FrameInPlace(cs, heads, i)
      OBVIOUS
    <3>1. FrameInPlace(calls, heads, i) /\ i # n
      BY <2>1, <2>9 DEF InPlace
    <3>2. RootSaved(calls, heads, i) => RootSaved(cs, heads, i)
      BY <1>4, <2>5 DEF RootSaved
    <3> QED
      BY <1>4, <2>5, <2>8, <3>1, <3>2 DEF FrameInPlace
  <2>11. calls[i].method \in Native => NativeInPlace(cs, i)
    BY <1>1, <1>4, <1>5, <2>1, <2>5, <2>8 DEF InPlace, NativeInPlace, n
  <2> QED
    BY <1>4, <2>1, <2>3, <2>6, <2>7, <2>10, <2>11 DEF InPlace
<1> QED
  BY <1>2, <1>4, <1>5, <1>6 DEF n

LEMMA RunNativeMethodStep ==
  ASSUME Inv, NEW m \in Native, RunNativeMethod(m)
  PROVE  Inv'
<1> DEFINE c == Call(m, "api", precall.prv, 0, precall.bp, insertion)
           cs == Named(m)
           n == Len(cs)
<1>1. /\ MayCall /\ TypeOK /\ prepared = m /\ RunsInv /\ FailedInv /\ ~failed
      /\ AllocatingInv /\ calls \in Seq(Activation)
  BY DEF Inv, RunNativeMethod, MayCall, TypeOK
<1>2. m \in Methods /\ m # Null /\ m \notin Managed
  BY ThreadAssumption DEF Methods
<1>3. /\ precall.prv \in Address /\ precall.bp \in Address /\ precall.bp <= insertion
      /\ insertion \in Address /\ 0 \in Address /\ insertion = Top.low
      /\ Idle => insertion = StackCapacity
      /\ \A i \in DOMAIN calls : insertion <= calls[i].low
  BY <1>1, <1>2, PreparedFacts, CallerFacts, ThreadAssumption DEF Address
<1>4. c \in Activation
  BY <1>2, <1>3, NoFrameType DEF Call, Activation
<1>5. /\ c.method = m /\ c.via = "api" /\ c.low = precall.bp /\ c.high = insertion
      /\ c.named = m
  BY DEF Call
<1>6. /\ calls' = Append(cs, c) /\ active' = m /\ prepared' = Null
      /\ UNCHANGED <<frame, precall, insertion, heads, allocating, failed, broken>>
  BY DEF RunNativeMethod
<1>7. /\ cs \in Seq(Activation) /\ Len(cs) = Len(calls)
      /\ \A i \in DOMAIN cs : InPlace(cs, heads, i)
      /\ \A i \in DOMAIN cs : cs[i].low = calls[i].low
  BY <1>1, NamedInPlace
<1>8. ~Idle => /\ cs[n].method \in Native /\ cs[n].via = "inline" /\ cs[n].named = m
               /\ cs[n].low = Top.low /\ cs[n].caller = Top.caller
  BY <1>1, NamedInPlace
<1> HIDE DEF c, cs
<1>9. /\ n \in Nat /\ DOMAIN cs = 1..n /\ DOMAIN calls = 1..n /\ (Idle <=> n = 0)
      /\ Len(calls') = n + 1 /\ n + 1 - 1 = n /\ calls'[n + 1] = c
      /\ \A i \in 1..n : calls'[i] = cs[i]
      /\ n > 0 => calls'[n] = cs[n]
  BY <1>1, <1>4, <1>6, <1>7 DEF Idle
<1> HIDE DEF n
<1>10. CalledByNative(calls', n + 1)
  BY <1>3, <1>5, <1>8, <1>9, LastByNative
<1>11. InPlace(calls', heads, n + 1)
  <2>1. NativeInPlace(calls', n + 1)
    BY <1>5, <1>9 DEF NativeInPlace
  <2>2. \A j \in 1..n + 1 - 1 : c.high <= calls'[j].low
    BY <1>3, <1>5, <1>7, <1>9
  <2> QED
    BY <1>2, <1>3, <1>5, <1>9, <1>10, <2>1, <2>2 DEF InPlace
<1>12. calls' \in Seq(Activation) /\ \A i \in DOMAIN calls' : InPlace(calls', heads', i)
  <2>1. cs # <<>> => ~(cs[Len(cs)].method \in Native /\ cs[Len(cs)].via = "api")
    BY <1>7, <1>8, <1>9 DEF n
  <2>2. InPlace(Append(cs, c), heads, Len(cs) + 1)
    BY <1>6, <1>11 DEF n
  <2> QED
    BY <1>4, <1>6, <1>7, <2>1, <2>2, AppendInPlace
<1>13. TypeOK' /\ CallsInv'
  BY <1>1, <1>2, <1>6, <1>12 DEF TypeOK, CallsInv
<1>14. Top' = c /\ ~Idle' /\ Len(calls') = n + 1
  BY <1>9 DEF Top, Idle
<1>15. RunsInv'
  <2>1. n = 0 => frame = NoFrame /\ insertion = StackCapacity
    BY <1>1, <1>9 DEF RunsInv
  <2>2. n > 0 => frame = cs[n].caller /\ insertion = cs[n].low
    BY <1>1, <1>8, <1>9, TopFacts, CallerFacts DEF RunsInv
  <2>3. RunByCaller(calls[Len(calls) - 1])'
    <3>1. (n + 1 = 1 => n = 0) /\ (n + 1 > 1 => n > 0)
      BY <1>9
    <3>2. n > 0 => cs[n].named = m
      BY <1>8, <1>9
    <3>3. Len(calls') - 1 = n
      BY <1>9
    <3> QED
      BY <1>5, <1>6, <1>9, <1>14, <2>1, <2>2, <3>1, <3>2, <3>3 DEF RunByCaller
  <2> QED
    BY <1>2, <1>5, <1>14, <2>3 DEF RunsInv
<1>16. FailedInv' /\ PreparedInv' /\ AllocatingInv'
  <2>1. ~allocating
    BY <1>1 DEF AllocatingInv, MayCall, InNative
  <2> QED
    BY <1>1, <1>6, <2>1 DEF FailedInv, PreparedInv, AllocatingInv
<1> QED
  BY <1>13, <1>15, <1>16 DEF Inv

\* A native method runs below the compiled method that called it.
LEMMA NativeBelow ==
  ASSUME Inv, MayCall
  PROVE  ThroughNative <=> ~Idle
<1>1. TypeOK /\ CallsInv
  BY DEF Inv
<1>2. insertion = Top.low /\ (Idle => insertion = StackCapacity)
  BY CallerFacts
<1>3. SUFFICES ASSUME ~Idle PROVE Top.low # StackCapacity
  BY <1>2 DEF ThroughNative
<1> DEFINE n == Len(calls)
<1>4. /\ calls \in Seq(Activation) /\ n \in Nat /\ n \in DOMAIN calls /\ DOMAIN calls = 1..n
      /\ calls[n] = Top /\ Top.method \in Native /\ Top.via = "inline"
  BY <1>1, <1>3, TopFacts, CallerFacts DEF TypeOK
<1> HIDE DEF n
<1>5. InPlace(calls, heads, n)
  BY <1>1, <1>4 DEF CallsInv
<1>6. /\ n > 1 /\ calls[n - 1].method \in Managed /\ Top.high = calls[n - 1].low
      /\ Top.low = Top.high
  BY <1>4, <1>5 DEF InPlace, CalledByManaged, NativeInPlace
<1>7. n - 1 \in DOMAIN calls
  BY <1>4, <1>6
<1>8. calls[n - 1] \in Activation /\ InPlace(calls, heads, n - 1)
  BY <1>1, <1>4, <1>7 DEF CallsInv
<1>9. FrameInPlace(calls, heads, n - 1)
  BY <1>6, <1>8 DEF InPlace
<1>10. /\ calls[n - 1].bp \in Address /\ calls[n - 1].low \in Address
       /\ calls[n - 1].high \in Address /\ calls[n - 1].via \in {"api", "inline"}
  BY <1>8 DEF Activation
<1>11. heads[calls[n - 1].bp] \in SavedFrame
  BY <1>1, <1>10 DEF TypeOK
<1>12. heads[calls[n - 1].bp].size \in Nat
  BY <1>11, ThreadAssumption DEF SavedFrame
<1>13. heads[calls[n - 1].bp].size > 0
  BY <1>9, <1>10 DEF FrameInPlace, RootSaved
<1>14. calls[n - 1].low <= calls[n - 1].bp
  BY <1>9 DEF FrameInPlace
<1>15. calls[n - 1].bp + heads[calls[n - 1].bp].size <= calls[n - 1].high
  BY <1>9 DEF FrameInPlace
<1> QED
  BY <1>6, <1>10, <1>12, <1>13, <1>14, <1>15, ThreadAssumption DEF Address

LEMMA RunMethodStep ==
  ASSUME Inv, NEW m \in Managed, RunMethod(m)
  PROVE  Inv'
<1> DEFINE through == ThroughNative
           room == HeadRoom(TRUE, through)
           head == RootHead(through)
           bp == precall.bp - room
           c == Call(m, "api", precall.prv, bp, bp - FrameCapacity[m], insertion)
           n == Len(calls)
<1>1. /\ MayCall /\ TypeOK /\ CallsInv /\ RunsInv /\ FailedInv /\ ~failed /\ AllocatingInv
      /\ prepared = m /\ m # Null /\ m \in Methods /\ m \notin Native
  BY ThreadAssumption DEF Inv, RunMethod, MayCall, Methods
<1>2. /\ precall \in Frame /\ precall.method = Null
      /\ precall.prv \in Address /\ precall.bp \in Address /\ precall.bp <= insertion
      /\ insertion = Top.low /\ insertion \in Nat /\ insertion <= StackCapacity
      /\ insertion \in Address
  BY <1>1, PreparedFacts, CallerFacts DEF TypeOK
<1>3. through \in BOOLEAN /\ (through <=> ~Idle)
  BY <1>1, NativeBelow DEF ThroughNative
<1>4. Fits(precall.bp, room, FrameCapacity[m])
  BY DEF RunMethod
<1>5. /\ heads' = Entered(head, bp, FrameCapacity[m])
      /\ frame' = [method |-> m, ip |-> 0, prv |-> precall.prv, bp |-> bp]
      /\ calls' = Append(calls, c)
      /\ active' = Null /\ prepared' = Null
      /\ UNCHANGED <<precall, insertion, allocating, failed, broken>>
  BY DEF RunMethod
<1> HIDE DEF through
<1>6. room \in Nat /\ room > 0 /\ room \in {0, HeadSize, RootSize, ReentrantSize}
  BY <1>3, HeadRoomType
<1>7. head.size = room /\ head.frame = precall /\ head.insertion = insertion
      /\ head.aboveNative = through
      /\ head.native = (IF through THEN active ELSE Null)
      /\ head.sub = (IF through THEN frame ELSE NoFrame)
  BY DEF RootHead
<1>8. head \in SavedFrame
  <2>1. active \in Methods \cup {Null} /\ frame \in Frame
    BY <1>1 DEF TypeOK
  <2>2. /\ head.native \in Methods \cup {Null} /\ head.sub \in Frame
    BY <1>7, <2>1, NoFrameType
  <2>3. head = [frame |-> head.frame, insertion |-> head.insertion,
                aboveNative |-> head.aboveNative, native |-> head.native,
                sub |-> head.sub, size |-> head.size]
    BY DEF RootHead
  <2> HIDE DEF head, room
  <2> QED
    BY <1>2, <1>3, <1>6, <1>7, <2>2, <2>3 DEF SavedFrame
<1> HIDE DEF room, head
<1>9. precall.bp \in Nat /\ precall.bp - room >= FrameCapacity[m] /\ FrameCapacity[m] \in Nat
  BY <1>2, <1>4, ThreadAssumption DEF Fits, Address
<1>10. bp \in Address /\ bp - FrameCapacity[m] \in Address /\ bp + room = precall.bp
  BY <1>2, <1>6, <1>9, ThreadAssumption DEF Address
<1>11. c \in Activation
  BY <1>1, <1>2, <1>10, NoFrameType DEF Call, Activation
<1>12. /\ c.method = m /\ c.via = "api" /\ c.bp = bp /\ c.prv = precall.prv
       /\ c.low = bp - FrameCapacity[m] /\ c.high = insertion /\ c.named = m
  BY DEF Call
<1>13. frame' \in Frame
  BY <1>1, <1>2, <1>5, <1>10 DEF Frame
<1> HIDE DEF bp, c, n
<1>14. calls \in Seq(Activation) /\ n \in Nat /\ DOMAIN calls = 1..n
  BY <1>1 DEF TypeOK, n
<1>15. calls # <<>> <=> n + 1 > 1
  BY <1>14 DEF n
<1>16. calls # <<>> =>
         /\ calls[n] = Top /\ Top.method \in Native /\ Top.via = "inline"
         /\ frame = Top.caller /\ insertion = Top.low /\ active = Top.named
  BY <1>1, TopFacts, CallerFacts DEF RunsInv, Idle, n
<1>17. CalledByNative(calls', n + 1)
  <2>1. calls'[n + 1] = c /\ (n >= 1 => calls'[n] = calls[n])
    <3>1. \A i \in 1..Len(calls) : Append(calls, c)[i] = calls[i]
      BY <1>14
    <3>2. Append(calls, c)[Len(calls) + 1] = c
      BY <1>14
    <3>3. n >= 1 => n \in 1..Len(calls)
      BY <1>14 DEF n
    <3> QED
      BY <1>5, <3>1, <3>2, <3>3 DEF n
  <2>2. n + 1 = 1 => insertion = StackCapacity
    BY <1>1, <1>14, <1>15, CallerFacts DEF Idle
  <2>3. n + 1 # 1 => calls # <<>> /\ n >= 1
    BY <1>14, <1>15
  <2>4. n + 1 - 1 = n
    BY <1>14
  <2>5. c.high = insertion
    BY <1>12
  <2>6. n + 1 # 1 => /\ calls'[n].method \in Native /\ calls'[n].via = "inline"
                     /\ insertion = calls'[n].low
    BY <1>16, <2>1, <2>3
  <2>7. /\ n = 0 => calls'[n + 1].high = StackCapacity
        /\ n # 0 => /\ calls'[n].method \in Native /\ calls'[n].via = "inline"
                    /\ calls'[n + 1].high = calls'[n].low
    BY <1>14, <2>1, <2>2, <2>5, <2>6
  <2> QED
    BY <1>14, <2>7, LastByNative
<1>18. heads' \in [Address -> SavedFrame] /\ calls' \in Seq(Activation) /\ CallsInv'
  <2>1. \A i \in DOMAIN calls : InPlace(calls, heads, i)
    BY <1>1 DEF CallsInv
  <2>2. c.bp + head.size <= c.high
    BY <1>2, <1>7, <1>10, <1>12
  <2>3. /\ \A i \in DOMAIN calls : c.high <= calls[i].low
        /\ \A i \in DOMAIN calls : calls[i].method \in Managed => c.high <= calls[i].bp
    BY <1>1, <1>12, CallerFacts
  <2>4. calls # <<>> => ~(calls[n].method \in Native /\ calls[n].via = "api")
    BY <1>16
  <2>5. /\ head.frame.method = Null
        /\ head.aboveNative <=> n + 1 > 1
        /\ n + 1 > 1 => /\ head.insertion = calls[n].low
                        /\ head.native = calls[n].named
                        /\ head.sub = calls[n].caller
    BY <1>2, <1>3, <1>7, <1>15, <1>16 DEF Idle
  <2>6. heads' = Entered(head, c.bp, FrameCapacity[c.method])
        /\ c.low = c.bp - FrameCapacity[c.method] /\ c.via # "inline" /\ head.size > 0
        /\ c.named = c.method
    BY <1>5, <1>6, <1>7, <1>12
  <2> HIDE DEF CallsInv
  <2>7. /\ heads' \in [Address -> SavedFrame] /\ Append(calls, c) \in Seq(Activation)
        /\ \A i \in DOMAIN Append(calls, c) : InPlace(Append(calls, c), heads', i)
    BY <1>1, <1>5, <1>8, <1>11, <1>12, <1>14, <1>17, <2>1, <2>2, <2>3, <2>4, <2>5, <2>6,
       EnteredInPlace DEF n
  <2> QED
    BY <1>5, <2>7 DEF CallsInv
<1>19. TypeOK'
  BY <1>1, <1>5, <1>13, <1>18 DEF TypeOK
<1>20. Top' = c /\ ~Idle'
  BY <1>5, <1>11, <1>14 DEF Top, Idle
<1>21. RunsInv'
  BY <1>1, <1>5, <1>12, <1>20 DEF RunsInv
<1>22. FailedInv' /\ PreparedInv' /\ AllocatingInv'
  <2>1. ~allocating
    BY <1>1 DEF MayCall, InNative, AllocatingInv
  <2> QED
    BY <1>1, <1>5, <2>1 DEF FailedInv, PreparedInv, AllocatingInv
<1> QED
  BY <1>18, <1>19, <1>21, <1>22 DEF Inv

\* Nothing but the end of the program, or nothing at all.
LEMMA StoppedStep ==
  ASSUME Inv, broken' \in BOOLEAN, broken' => ~allocating', ~broken' => broken' = broken,
         UNCHANGED <<frame, precall, insertion, active, heads, calls, prepared, failed>>,
         allocating' = allocating \/ allocating' = FALSE
  PROVE  Inv'
<1>1. Top' = Top /\ (Idle' <=> Idle)
  BY DEF Top, Idle, Program, Call
<1>2. TypeOK' /\ CallsInv'
  BY DEF Inv, TypeOK, CallsInv
<1>3. RunsInv' /\ FailedInv'
  BY <1>1 DEF Inv, RunsInv, RunByCaller, FailedInv
<1>4. PreparedInv'
  BY <1>1 DEF Inv, PreparedInv, CallSpace, Padded
<1>5. AllocatingInv'
  BY <1>1 DEF Inv, AllocatingInv
<1> QED
  BY <1>2, <1>3, <1>4, <1>5 DEF Inv

LEMMA OverflowStep ==
  ASSUME Inv, \/ \E m \in Managed : RunMethodOverflow(m)
              \/ \E m \in Methods, base \in 0..StackCapacity : EnterOverflow(m, base)
              \/ FailAllocation
  PROVE  Inv'
<1>1. CASE \E m \in Managed : RunMethodOverflow(m)
  <2>1. ~allocating
    BY <1>1 DEF Inv, AllocatingInv, RunMethodOverflow, MayCall, InNative
  <2> QED
    BY <1>1, <2>1, StoppedStep DEF RunMethodOverflow
<1>2. CASE \E m \in Methods, base \in 0..StackCapacity : EnterOverflow(m, base)
  BY <1>2, StoppedStep DEF EnterOverflow, CallSite, InManaged
<1>3. CASE FailAllocation
  BY <1>3, StoppedStep DEF FailAllocation
<1> QED
  BY <1>1, <1>2, <1>3

LEMMA ResetStep ==
  ASSUME Inv, Reset
  PROVE  Inv'
<1>1. /\ Idle /\ failed /\ TypeOK /\ CallsInv /\ prepared = Null /\ AllocatingInv
      /\ UNCHANGED <<heads, calls, prepared, allocating, broken>>
      /\ frame' = NoFrame /\ precall' = NoFrame /\ active' = Null
      /\ insertion' = StackCapacity /\ failed' = FALSE
  BY DEF Inv, FailedInv, Reset
<1>2. Idle' /\ Top' = Program /\ Top = Program
  BY <1>1 DEF Top, Idle, Program, Call
<1>3. Program.method \notin Methods
  BY ProgramFacts
<1>4. StackCapacity \in Address
  BY ThreadAssumption DEF Address
<1>5. TypeOK' /\ CallsInv'
  BY <1>1, <1>4, NoFrameType DEF TypeOK, CallsInv
<1>6. RunsInv' /\ FailedInv' /\ PreparedInv' /\ AllocatingInv'
  BY <1>1, <1>2, <1>3 DEF RunsInv, FailedInv, PreparedInv, AllocatingInv, Methods
<1> QED
  BY <1>5, <1>6 DEF Inv

-----------------------------------------------------------------------------
(***************************************************************************)
(* Compiled methods.                                                       *)
(***************************************************************************)

\* A compiled method goes on with another instruction.
LEMMA AtStep ==
  ASSUME Inv, Top.method \in Managed, ~broken, calls' = At(Top.at + 1),
         allocating' \in BOOLEAN,
         UNCHANGED <<frame, precall, insertion, active, heads, prepared, failed, broken>>
  PROVE  Inv'
<1> DEFINE n == Len(calls)
<1>1. TypeOK /\ CallsInv /\ calls \in Seq(Activation) /\ calls # <<>>
      /\ n \in Nat /\ n > 0 /\ DOMAIN calls = 1..n /\ n \in DOMAIN calls
      /\ Top = calls[n] /\ Top \in Activation
  BY ManagedFacts DEF Inv, TypeOK, Idle
<1>2. /\ Top.at + 1 \in Nat /\ Top.low \in Address /\ Top.bp \in Address /\ Top.low <= Top.bp
      /\ Top.bp - FrameCapacity[Top.method] <= Top.low
  BY <1>1, ManagedFacts DEF Activation, FrameInPlace
<1> DEFINE r == [Top EXCEPT !.at = Top.at + 1]
<1>3. calls' = [calls EXCEPT ![n] = r]
  BY <1>1 DEF At
<1>4. /\ r \in Activation /\ r.method = Top.method /\ r.via = Top.via /\ r.prv = Top.prv
      /\ r.bp = Top.bp /\ r.high = Top.high /\ r.caller = Top.caller /\ r.low = Top.low
      /\ r.named = Top.named
  BY <1>1, <1>2 DEF Activation
<1> HIDE DEF n, r
<1>5. /\ calls' \in Seq(Activation) /\ Len(calls') = n
      /\ \A i \in DOMAIN calls' : InPlace(calls', heads, i)
  <2>1. \A i \in DOMAIN calls : InPlace(calls, heads, i)
    BY <1>1 DEF CallsInv
  <2>2. n = Len(calls) /\ heads \in [Address -> SavedFrame]
    BY <1>1 DEF n, TypeOK
  <2>3. /\ [calls EXCEPT ![n] = r] \in Seq(Activation) /\ Len([calls EXCEPT ![n] = r]) = n
        /\ \A i \in 1..n : InPlace([calls EXCEPT ![n] = r], heads, i)
    BY <1>1, <1>2, <1>4, <2>1, <2>2, ResumedInPlace
  <2>4. DOMAIN [calls EXCEPT ![n] = r] = 1..n
    BY <1>1
  <2> QED
    BY <1>3, <2>3, <2>4
<1>6. TypeOK' /\ CallsInv'
  BY <1>1, <1>5 DEF TypeOK, CallsInv
<1>7. /\ ~Idle' /\ Top'.method = Top.method /\ Top'.bp = Top.bp /\ Top'.prv = Top.prv
      /\ Top'.low = Top.low
  <2>1. calls'[n] = r
    BY <1>1, <1>3
  <2>2. Top' = calls'[n] /\ ~Idle'
    BY <1>1, <1>5 DEF Top, Idle
  <2> QED
    BY <1>4, <2>1, <2>2
<1>8. Top.method \notin Native
  BY ThreadAssumption
<1>9. RunsInv'
  BY <1>7, <1>8 DEF RunsInv, Inv
<1>10. FailedInv' /\ PreparedInv' /\ AllocatingInv'
  BY <1>7, ManagedFacts DEF FailedInv, PreparedInv, AllocatingInv
<1> QED
  BY <1>6, <1>9, <1>10 DEF Inv

LEMMA ExecuteStep ==
  ASSUME Inv, Execute \/ EndAllocation
  PROVE  Inv'
<1>1. CASE Execute
  BY <1>1, AtStep DEF Execute, InManaged, Inv, TypeOK
<1>2. CASE EndAllocation
  BY <1>2, AtStep DEF EndAllocation, Inv, AllocatingInv
<1> QED
  BY <1>1, <1>2

LEMMA BeginAllocationStep ==
  ASSUME Inv, BeginAllocation
  PROVE  Inv'
<1>1. /\ Top.method \in Managed /\ ~broken
      /\ frame' = [frame EXCEPT !.ip = Top.at] /\ allocating' = TRUE
      /\ UNCHANGED <<precall, insertion, active, heads, calls, prepared, failed, broken>>
  BY DEF BeginAllocation, InManaged
<1>2. Top' = Top /\ (Idle' <=> Idle)
  BY <1>1 DEF Top, Idle, Program, Call
<1>3. Top.at \in Nat /\ frame \in Frame /\ TypeOK /\ CallsInv /\ RunsInv
  BY <1>1, ManagedFacts DEF Inv, TypeOK, Activation
<1>4. /\ frame' \in Frame /\ frame'.method = frame.method /\ frame'.bp = frame.bp
      /\ frame'.prv = frame.prv
  BY <1>1, <1>3 DEF Frame
<1>5. TypeOK' /\ CallsInv'
  BY <1>1, <1>3, <1>4 DEF TypeOK, CallsInv
<1>6. Top.method \notin Native /\ ~Idle
  BY <1>1, ThreadAssumption, ManagedFacts
<1>7. RunsInv'
  BY <1>1, <1>2, <1>3, <1>4, <1>6 DEF RunsInv
<1>8. FailedInv' /\ PreparedInv' /\ AllocatingInv'
  BY <1>1, <1>2, ManagedFacts DEF FailedInv, PreparedInv, AllocatingInv
<1> QED
  BY <1>5, <1>7, <1>8 DEF Inv

\* A compiled method calls, and goes down to base.
LEMMA CallerGoesDown ==
  ASSUME Inv, NEW m \in Methods, NEW base \in 0..StackCapacity, CallSite(m, base),
         NEW cs, cs = [calls EXCEPT ![Len(calls)].low = base]
  PROVE  /\ cs \in Seq(Activation) /\ Len(cs) = Len(calls) /\ cs # <<>>
         /\ \A i \in DOMAIN cs : InPlace(cs, heads, i)
         /\ cs[Len(cs)].method \in Managed /\ cs[Len(cs)].low = base
         /\ Resumes(cs[Len(cs)]) = CallerFrame /\ CallerFrame \in Frame
         /\ \A i \in DOMAIN cs : base <= cs[i].low
         /\ \A i \in DOMAIN cs : cs[i].method \in Managed => base <= cs[i].bp
         /\ base \in Address /\ base + CallSpace(m) \in Nat
         /\ base + CallSpace(m) <= StackCapacity
         /\ base + CallSpace(m) - Results[m] \in Address
<1> DEFINE n == Len(calls)
           r == [Top EXCEPT !.low = base]
<1>1. /\ TypeOK /\ CallsInv /\ calls \in Seq(Activation) /\ calls # <<>>
      /\ n \in Nat /\ n > 0 /\ DOMAIN calls = 1..n /\ n \in DOMAIN calls
      /\ Top = calls[n] /\ Top \in Activation /\ Top.method \in Managed
      /\ frame.method = Top.method /\ frame.bp = Top.bp /\ frame.prv = Top.prv
  BY ManagedFacts DEF Inv, TypeOK, Idle, CallSite, InManaged
<1>2. /\ base \in Nat /\ base \in Address /\ CallSpace(m) \in Nat /\ Results[m] \in Nat
      /\ Results[m] <= CallSpace(m)
      /\ Top.bp \in Nat /\ Top.bp < StackCapacity /\ StackCapacity \in Nat
      /\ base >= Top.bp - FrameCapacity[Top.method]
      /\ base + CallSpace(m) <= Top.bp
      /\ FrameCapacity[Top.method] \in Nat
  BY <1>1, CallSpaceFits, ManagedFacts, ThreadAssumption DEF Address, CallSite
<1>3. base <= Top.bp
  BY <1>2
<1>4. /\ r \in Activation /\ r.method = Top.method /\ r.via = Top.via /\ r.prv = Top.prv
      /\ r.bp = Top.bp /\ r.high = Top.high /\ r.caller = Top.caller /\ r.low = base
      /\ r.at = Top.at /\ r.named = Top.named
  BY <1>1, <1>2 DEF Activation
<1>5. cs = [calls EXCEPT ![n] = r]
  BY <1>1
<1>6. \A i \in DOMAIN calls : InPlace(calls, heads, i)
  BY <1>1 DEF CallsInv
<1>7. heads \in [Address -> SavedFrame] /\ n = Len(calls)
  BY <1>1 DEF TypeOK
<1> HIDE DEF n, r
<1>8. /\ cs \in Seq(Activation) /\ Len(cs) = n /\ \A i \in 1..n : InPlace(cs, heads, i)
  <2>1. /\ [calls EXCEPT ![n] = r] \in Seq(Activation) /\ Len([calls EXCEPT ![n] = r]) = n
        /\ \A i \in 1..n : InPlace([calls EXCEPT ![n] = r], heads, i)
    <3>1. r.bp - FrameCapacity[r.method] <= r.low /\ r.low <= r.bp /\ r.method \in Managed
      BY <1>1, <1>2, <1>3, <1>4
    <3> QED
      BY <1>1, <1>4, <1>6, <1>7, <3>1, ResumedInPlace
  <2> QED
    BY <1>5, <2>1
<1>9. cs[n] = r /\ DOMAIN cs = 1..n /\ \A i \in 1..n : i # n => cs[i] = calls[i]
  BY <1>1, <1>5, <1>8
<1>10. Resumes(r) = CallerFrame
  BY <1>1, <1>4 DEF Resumes, CallerFrame
<1>11. CallerFrame \in Frame
  <2>1. Top.at + 1 \in Nat /\ Top.prv \in Address /\ Top.bp \in Address
        /\ Top.method \in Methods
    BY <1>1 DEF Activation
  <2> QED
    BY <1>1, <2>1 DEF CallerFrame, Frame
<1>12. ASSUME NEW i \in 1..n
       PROVE  base <= cs[i].low /\ (cs[i].method \in Managed => base <= cs[i].bp)
  <2>1. CASE i = n
    <3>1. cs[i] = r
      BY <1>9, <2>1
    <3>2. r.low = base /\ r.bp = Top.bp /\ base <= base
      BY <1>2, <1>4
    <3> QED
      BY <1>3, <3>1, <3>2
  <2>2. CASE i # n
    <3>1. calls[i].low \in Address /\ Top.bp <= calls[i].low
      BY <1>1, <1>7, <2>2, ManagedFacts
    <3>2. calls[i].method \in Managed => Top.bp <= calls[i].bp /\ calls[i].bp \in Address
      BY <1>1, ManagedFacts
    <3> QED
      BY <1>2, <1>3, <1>9, <2>2, <3>1, <3>2, SMTT(30) DEF Address
  <2> QED
    BY <2>1, <2>2
<1>13. base + CallSpace(m) - Results[m] \in Address
  BY <1>2 DEF Address
<1>14. cs # <<>>
  BY <1>1, <1>8
<1>15. /\ cs[Len(cs)].method \in Managed /\ cs[Len(cs)].low = base
       /\ Resumes(cs[Len(cs)]) = CallerFrame
  BY <1>1, <1>4, <1>8, <1>9, <1>10
<1>16. base + CallSpace(m) \in Nat /\ base + CallSpace(m) <= StackCapacity
  BY <1>2
<1>17. Len(cs) = Len(calls) /\ DOMAIN cs = 1..n
  BY <1>7, <1>8, <1>9
<1>18. /\ \A i \in DOMAIN cs : InPlace(cs, heads, i)
       /\ \A i \in DOMAIN cs : base <= cs[i].low
       /\ \A i \in DOMAIN cs : cs[i].method \in Managed => base <= cs[i].bp
  BY <1>8, <1>12, <1>17
<1> QED
  BY <1>2, <1>8, <1>11, <1>13, <1>14, <1>15, <1>16, <1>17, <1>18

\* The caller of the last call, if compiled.
LEMMA LastByManaged ==
  ASSUME NEW cs \in Seq(Activation), cs # <<>>, NEW c \in Activation,
         cs[Len(cs)].method \in Managed, c.high = cs[Len(cs)].low
  PROVE  /\ CalledByManaged(Append(cs, c), Len(cs) + 1)
         /\ Append(cs, c)[Len(cs) + 1] = c
         /\ Len(Append(cs, c)) = Len(cs) + 1
         /\ Append(cs, c)[Len(cs) + 1 - 1] = cs[Len(cs)]
<1>1. Len(cs) \in Nat /\ Len(cs) > 0 /\ Len(cs) + 1 - 1 = Len(cs) /\ Len(cs) + 1 > 1
  OBVIOUS
<1> DEFINE n == Len(cs)
           as == Append(cs, c)
<1>2. as[n + 1] = c /\ Len(as) = n + 1
  OBVIOUS
<1>3. as[n] = cs[n]
  <2>1. \A i \in 1..n : as[i] = cs[i]
    OBVIOUS
  <2>2. n \in 1..n
    BY <1>1
  <2> HIDE DEF n, as
  <2> QED
    BY <2>1, <2>2
<1>4. n \in Nat /\ n + 1 > 1 /\ n + 1 - 1 = n /\ c.high = cs[n].low /\ cs[n].method \in Managed
  BY <1>1
<1> HIDE DEF n, as
<1>5. as[n + 1 - 1] = as[n]
  BY <1>4
<1>6. /\ as[n + 1].high = as[n].low /\ as[n].method \in Managed
  BY <1>2, <1>3, <1>4
<1>7. CalledByManaged(as, n + 1)
  <2>1. PICK k \in Nat : k = n + 1
    BY <1>4
  <2>2. k > 1 /\ as[k - 1] = as[n] /\ as[k].high = as[n].low
    <3>1. k > 1 /\ k - 1 = n
      BY <1>4, <2>1
    <3> QED
      BY <1>6, <2>1, <3>1
  <2>3. CalledByManaged(as, k)
    BY <1>6, <2>2 DEF CalledByManaged
  <2> QED
    BY <2>1, <2>3
<1> QED
  BY <1>2, <1>3, <1>5, <1>7 DEF n, as

LEMMA EnterManagedStep ==
  ASSUME Inv, NEW m \in Methods, NEW base \in 0..StackCapacity, EnterManaged(m, base)
  PROVE  Inv'
<1> DEFINE cs == [calls EXCEPT ![Len(calls)].low = base]
           room == HeadRoom(FALSE, FALSE)
           head == [NoHead EXCEPT !.frame = CallerFrame, !.size = room]
           bp == base - room
           prv == base + CallSpace(m) - Results[m]
           c == Call(m, "inline", prv, bp, bp - FrameCapacity[m], base)
<1>1. /\ TypeOK /\ m \in Managed /\ m \notin Native /\ CallSite(m, base) /\ ~broken /\ ~allocating
      /\ ~failed /\ prepared = Null
      /\ Fits(base, room, FrameCapacity[m])
      /\ heads' = Entered(head, bp, FrameCapacity[m])
      /\ frame' = [method |-> m, ip |-> 0, prv |-> prv, bp |-> bp]
      /\ calls' = Append(cs, c)
      /\ UNCHANGED <<precall, insertion, active, prepared, allocating, failed, broken>>
  BY ManagedFacts, ThreadAssumption DEF Inv, EnterManaged, CallSite, InManaged, Called
<1>2. room \in Nat /\ room > 0 /\ room \in {0, HeadSize, RootSize, ReentrantSize}
  BY HeadRoomType
<1>3. /\ cs \in Seq(Activation) /\ cs # <<>>
      /\ \A i \in DOMAIN cs : InPlace(cs, heads, i)
      /\ cs[Len(cs)].method \in Managed /\ cs[Len(cs)].low = base
      /\ Resumes(cs[Len(cs)]) = CallerFrame /\ CallerFrame \in Frame
      /\ \A i \in DOMAIN cs : base <= cs[i].low
      /\ \A i \in DOMAIN cs : cs[i].method \in Managed => base <= cs[i].bp
      /\ base \in Address /\ prv \in Address
  <2> HIDE DEF cs
  <2>1. cs = [calls EXCEPT ![Len(calls)].low = base]
    BY DEF cs
  <2> QED
    BY <1>1, <2>1, CallerGoesDown, ZenonT(40)
<1>4. head.frame = CallerFrame /\ head.size = room /\ head \in SavedFrame
  <2> HIDE DEF room
  <2> QED
    BY <1>2, <1>3, NoFrameType DEF NoHead, SavedFrame
<1> HIDE DEF cs, head, room, prv
<1>5. /\ base \in Nat /\ base <= StackCapacity /\ FrameCapacity[m] \in Nat
      /\ base - room >= FrameCapacity[m] /\ StackCapacity \in Nat
  BY <1>1, ThreadAssumption DEF Fits
<1>6. bp \in Address /\ bp - FrameCapacity[m] \in Address /\ bp + room = base
  BY <1>2, <1>5 DEF Address
<1>7. c \in Activation
  BY <1>3, <1>6, NoFrameType DEF Call, Activation
<1>8. /\ c.method = m /\ c.via = "inline" /\ c.bp = bp /\ c.prv = prv
      /\ c.low = bp - FrameCapacity[m] /\ c.high = base /\ c.named = m
  BY DEF Call
<1>9. frame' \in Frame
  BY <1>1, <1>3, <1>6 DEF Frame
<1> HIDE DEF bp, c
<1>10. CalledByManaged(Append(cs, c), Len(cs) + 1) /\ Append(cs, c)[Len(cs) + 1] = c
       /\ Len(Append(cs, c)) = Len(cs) + 1
  BY <1>3, <1>7, <1>8, LastByManaged
<1>11. /\ heads' \in [Address -> SavedFrame] /\ Append(cs, c) \in Seq(Activation)
       /\ \A i \in DOMAIN Append(cs, c) : InPlace(Append(cs, c), heads', i)
  <2>1. heads' = Entered(head, c.bp, FrameCapacity[c.method])
        /\ c.low = c.bp - FrameCapacity[c.method] /\ head.size > 0 /\ c.via # "api"
        /\ c.bp + head.size <= c.high /\ head.frame = Resumes(cs[Len(cs)])
        /\ c.method \in Managed /\ c.named = c.method /\ c.high = base
    BY <1>1, <1>2, <1>3, <1>4, <1>5, <1>6, <1>8
  <2>2. ~(cs[Len(cs)].method \in Native /\ cs[Len(cs)].via = "api")
    BY <1>3, ThreadAssumption
  <2>3. /\ \A i \in DOMAIN cs : c.high <= cs[i].low
        /\ \A i \in DOMAIN cs : cs[i].method \in Managed => c.high <= cs[i].bp
    BY <1>3, <2>1
  <2>4. /\ TypeOK /\ cs \in Seq(Activation) /\ head \in SavedFrame
        /\ \A i \in DOMAIN cs : InPlace(cs, heads, i)
    BY <1>1, <1>3, <1>4
  <2> QED
    BY <1>7, <1>10, <2>1, <2>2, <2>3, <2>4, EnteredInPlace
<1>12. TypeOK' /\ CallsInv'
  BY <1>1, <1>9, <1>11 DEF TypeOK, CallsInv
<1>13. Top' = c /\ ~Idle'
  <2>1. Len(cs) \in Nat
    BY <1>3
  <2> QED
    BY <1>1, <1>10, <2>1 DEF Top, Idle
<1>14. RunsInv'
  BY <1>1, <1>8, <1>13 DEF RunsInv
<1>15. FailedInv' /\ PreparedInv' /\ AllocatingInv'
  BY <1>1 DEF FailedInv, PreparedInv, AllocatingInv
<1> QED
  BY <1>12, <1>14, <1>15 DEF Inv

LEMMA EnterNativeStep ==
  ASSUME Inv, NEW m \in Methods, NEW base \in 0..StackCapacity, EnterNative(m, base)
  PROVE  Inv'
<1> DEFINE cs == [calls EXCEPT ![Len(calls)].low = base]
           prv == base + CallSpace(m) - Results[m]
           c == [Call(m, "inline", prv, 0, base, base) EXCEPT !.caller = CallerFrame]
<1>1. /\ TypeOK /\ m \in Native /\ m \notin Managed /\ m # Null
      /\ CallSite(m, base) /\ ~broken /\ ~allocating /\ ~failed /\ prepared = Null
      /\ frame' = CallerFrame /\ insertion' = base /\ active' = m
      /\ calls' = Append(cs, c)
      /\ UNCHANGED <<precall, heads, prepared, allocating, failed, broken>>
  BY ManagedFacts, ThreadAssumption
  DEF Inv, EnterNative, NativeBase, CallSite, InManaged, Called, Methods
<1>2. /\ cs \in Seq(Activation) /\ cs # <<>>
      /\ \A i \in DOMAIN cs : InPlace(cs, heads, i)
      /\ cs[Len(cs)].method \in Managed /\ cs[Len(cs)].low = base
      /\ Resumes(cs[Len(cs)]) = CallerFrame /\ CallerFrame \in Frame
      /\ \A i \in DOMAIN cs : base <= cs[i].low
      /\ base \in Address /\ prv \in Address
  <2> HIDE DEF cs
  <2>1. cs = [calls EXCEPT ![Len(calls)].low = base]
    BY DEF cs
  <2> QED
    BY <1>1, <2>1, CallerGoesDown, ZenonT(40)
<1> HIDE DEF cs, prv
<1>3. 0 \in Address /\ base \in Nat
  BY ThreadAssumption DEF Address
<1>4. c \in Activation
  BY <1>2, <1>3 DEF Call, Activation
<1>5. /\ c.method = m /\ c.via = "inline" /\ c.low = base /\ c.high = base
      /\ c.caller = CallerFrame /\ c.named = m
  BY DEF Call
<1> HIDE DEF c
<1>6. /\ CalledByManaged(Append(cs, c), Len(cs) + 1) /\ Append(cs, c)[Len(cs) + 1] = c
      /\ Len(Append(cs, c)) = Len(cs) + 1
      /\ Append(cs, c)[Len(cs) + 1 - 1] = cs[Len(cs)]
  BY <1>2, <1>4, <1>5, LastByManaged
<1>7. NativeInPlace(Append(cs, c), Len(cs) + 1)
  BY <1>1, <1>2, <1>5, <1>6 DEF NativeInPlace
<1>8. \A j \in 1..Len(cs) + 1 - 1 : c.high <= Append(cs, c)[j].low
  <2>1. \A j \in 1..Len(cs) : Append(cs, c)[j] = cs[j] /\ j \in DOMAIN cs
    BY <1>2, <1>4
  <2>2. Len(cs) + 1 - 1 = Len(cs)
    BY <1>2
  <2> QED
    BY <1>2, <1>5, <2>1, <2>2
<1>9. InPlace(Append(cs, c), heads, Len(cs) + 1)
  BY <1>1, <1>3, <1>5, <1>6, <1>7, <1>8 DEF InPlace
<1>10. /\ Append(cs, c) \in Seq(Activation)
       /\ \A i \in DOMAIN Append(cs, c) : InPlace(Append(cs, c), heads, i)
  <2>1. cs[Len(cs)].method \notin Native
    BY <1>2, ThreadAssumption
  <2> QED
    BY <1>2, <1>4, <1>9, <2>1, AppendInPlace
<1>11. TypeOK' /\ CallsInv'
  BY <1>1, <1>2, <1>10 DEF TypeOK, CallsInv
<1>12. Top' = c /\ ~Idle'
  <2>1. Len(cs) \in Nat
    BY <1>2
  <2> QED
    BY <1>1, <1>6, <2>1 DEF Top, Idle
<1>13. RunsInv'
  BY <1>1, <1>5, <1>12 DEF RunsInv
<1>14. FailedInv' /\ PreparedInv' /\ AllocatingInv'
  BY <1>1 DEF FailedInv, PreparedInv, AllocatingInv
<1> QED
  BY <1>11, <1>13, <1>14 DEF Inv

-----------------------------------------------------------------------------
(***************************************************************************)
(* Returns.                                                                *)
(***************************************************************************)

\* The calls that are left when the innermost has returned.
LEMMA ReturnedInPlace ==
  ASSUME TypeOK, CallsInv, ~Idle, NEW n, n = Len(calls), NEW resumed \in Frame,
         n > 1 /\ calls[n - 1].method \in Managed => resumed.bp = calls[n - 1].bp,
         NEW cs, cs = Returned(resumed)
  PROVE  /\ cs \in Seq(Activation) /\ Len(cs) = n - 1 /\ n \in Nat /\ n > 0
         /\ \A i \in DOMAIN cs : InPlace(cs, heads, i)
         /\ n > 1 /\ calls[n - 1].method \in Managed =>
              /\ cs[n - 1].method = calls[n - 1].method /\ cs[n - 1].bp = calls[n - 1].bp
              /\ cs[n - 1].prv = calls[n - 1].prv
              /\ cs[n - 1].low = cs[n - 1].bp - FrameCapacity[cs[n - 1].method]
         /\ n > 1 /\ calls[n - 1].method \notin Managed => cs[n - 1] = calls[n - 1]
<1> DEFINE rest == SubSeq(calls, 1, n - 1)
           k == n - 1
<1>1. /\ calls \in Seq(Activation) /\ n \in Nat /\ n > 0 /\ DOMAIN calls = 1..n
      /\ k \in 0..Len(calls) /\ k \in Nat /\ heads \in [Address -> SavedFrame]
      /\ \A i \in DOMAIN calls : InPlace(calls, heads, i)
  BY DEF TypeOK, Idle, CallsInv
<1>2. /\ rest \in Seq(Activation) /\ Len(rest) = k /\ \A i \in 1..k : rest[i] = calls[i]
      /\ \A i \in DOMAIN rest : InPlace(rest, heads, i)
  <2> HIDE DEF k
  <2>1. /\ SubSeq(calls, 1, k) \in Seq(Activation)
        /\ Len(SubSeq(calls, 1, k)) = k
        /\ \A i \in 1..k : SubSeq(calls, 1, k)[i] = calls[i]
        /\ \A i \in DOMAIN SubSeq(calls, 1, k) : InPlace(SubSeq(calls, 1, k), heads, i)
    BY <1>1, PrefixInPlace
  <2>2. rest = SubSeq(calls, 1, k)
    BY DEF k
  <2> QED
    BY <2>1, <2>2
<1>3. n > 1 => k > 0 /\ k \in 1..k /\ rest # <<>> /\ rest[k] = calls[k]
  BY <1>1, <1>2
<1>4. n > 1 \/ (k = 0 /\ rest = <<>>)
  BY <1>1, <1>2
<1>5. cs = IF rest # <<>> /\ rest[Len(rest)].method \in Managed
           THEN [rest EXCEPT
                   ![Len(rest)].at = resumed.ip,
                   ![Len(rest)].low = resumed.bp - FrameCapacity[rest[Len(rest)].method]]
           ELSE rest
  BY DEF Returned
<1> HIDE DEF rest, k
<1>6. CASE ~(n > 1 /\ calls[k].method \in Managed)
  <2>1. cs = rest
    BY <1>2, <1>3, <1>4, <1>5, <1>6
  <2>2. n > 1 => cs[k] = calls[k]
    BY <1>3, <2>1
  <2> QED
    BY <1>1, <1>2, <1>6, <2>1, <2>2 DEF k
<1>7. CASE n > 1 /\ calls[k].method \in Managed
  <2> DEFINE low == resumed.bp - FrameCapacity[rest[k].method]
             r == [rest[k] EXCEPT !.at = resumed.ip, !.low = low]
  <2>1. rest[k] \in Activation /\ rest[k].method \in Managed /\ k \in DOMAIN rest
        /\ rest[k].bp = resumed.bp /\ k > 0
    BY <1>1, <1>2, <1>3, <1>7 DEF k
  <2>2. cs = [rest EXCEPT ![k] = r]
    BY <1>2, <1>3, <1>5, <1>7
  <2>3. FrameInPlace(rest, heads, k)
    BY <1>2, <2>1 DEF InPlace
  <2>4. rest[k].bp \in Address /\ resumed.ip \in Nat /\ FrameCapacity[rest[k].method] \in Nat
    BY <2>1, ThreadAssumption DEF Activation, Frame
  <2>5. rest[k].bp - FrameCapacity[rest[k].method] >= 0
    BY <2>3 DEF FrameInPlace
  <2>6. low \in Address /\ low <= rest[k].bp /\ rest[k].bp - FrameCapacity[rest[k].method] <= low
    BY <2>1, <2>4, <2>5, ThreadAssumption DEF Address
  <2>7. /\ r \in Activation /\ r.method = rest[k].method /\ r.via = rest[k].via
        /\ r.prv = rest[k].prv /\ r.bp = rest[k].bp /\ r.high = rest[k].high
        /\ r.caller = rest[k].caller /\ r.named = rest[k].named /\ r.low = low
    <3> HIDE DEF low
    <3> QED
      BY <2>1, <2>4, <2>6 DEF Activation
  <2> HIDE DEF r
  <2>8. r.bp - FrameCapacity[r.method] <= r.low /\ r.low <= r.bp
    BY <2>6, <2>7
  <2> HIDE DEF low
  <2>9. /\ [rest EXCEPT ![k] = r] \in Seq(Activation) /\ Len([rest EXCEPT ![k] = r]) = k
        /\ \A i \in 1..k : InPlace([rest EXCEPT ![k] = r], heads, i)
    BY <1>1, <1>2, <2>1, <2>7, <2>8, ResumedInPlace
  <2>10. cs \in Seq(Activation) /\ Len(cs) = k /\ DOMAIN cs = 1..k
         /\ \A i \in 1..k : InPlace(cs, heads, i)
    <3>1. DOMAIN [rest EXCEPT ![k] = r] = DOMAIN rest /\ DOMAIN rest = 1..k
      BY <1>2
    <3> QED
      BY <2>2, <2>9, <3>1
  <2>11. cs[k] = r
    BY <1>2, <2>1, <2>2
  <2>12. /\ cs[k].method = calls[k].method /\ cs[k].bp = calls[k].bp /\ cs[k].prv = calls[k].prv
         /\ cs[k].low = cs[k].bp - FrameCapacity[cs[k].method]
    BY <1>3, <1>7, <2>1, <2>7, <2>11 DEF low
  <2> QED
    BY <1>1, <1>7, <2>10, <2>12 DEF k
<1> QED
  BY <1>6, <1>7

\* What is left after a compiled method.
LEMMA ReturningFacts ==
  ASSUME Inv, Returning, NEW n, n = Len(calls)
  PROVE  /\ TypeOK /\ CallsInv /\ ~Idle /\ ~failed /\ ~broken /\ ~allocating /\ prepared = Null
         /\ n \in Nat /\ n > 0 /\ n \in DOMAIN calls
         /\ frame.bp \in Address /\ heads[frame.bp] \in SavedFrame
         /\ heads[frame.bp].frame.method # Null =>
              /\ n > 1 /\ calls[n - 1].method \in Managed
              /\ heads[frame.bp].frame = Resumes(calls[n - 1])
         /\ heads[frame.bp].frame.method = Null =>
              /\ CalledByNative(calls, n)
              /\ heads[frame.bp].aboveNative <=> n > 1
              /\ n > 1 => /\ heads[frame.bp].insertion = calls[n - 1].low
                          /\ heads[frame.bp].native = calls[n - 1].named
                          /\ heads[frame.bp].sub = calls[n - 1].caller
<1>1. /\ Top.method \in Managed /\ ~broken /\ ~allocating /\ TypeOK /\ CallsInv
  BY DEF Returning, InManaged, Inv
<1>2. /\ ~Idle /\ ~failed /\ prepared = Null /\ n \in DOMAIN calls /\ n \in Nat /\ n > 0
      /\ Top = calls[n] /\ Top \in Activation /\ frame.bp = Top.bp
      /\ FrameInPlace(calls, heads, n)
  BY <1>1, ManagedFacts
<1>3. Top.via \in {"api", "inline"} /\ Top.bp \in Address
  BY <1>2 DEF Activation
<1>4. frame.bp \in Address /\ heads[frame.bp] \in SavedFrame
  BY <1>1, <1>2, <1>3 DEF TypeOK
<1>5. InPlace(calls, heads, n)
  BY <1>1, <1>2 DEF CallsInv
<1>6. Top.via = "inline" =>
        /\ n > 1 /\ calls[n - 1].method \in Managed
        /\ heads[frame.bp].frame = Resumes(calls[n - 1])
        /\ heads[frame.bp].frame.method # Null
  <2>1. Top.via = "inline" => CalledByManaged(calls, n)
    BY <1>2, <1>5 DEF InPlace
  <2>2. Top.via = "inline" => heads[frame.bp].frame = Resumes(calls[n - 1])
    BY <1>2 DEF FrameInPlace
  <2> QED
    BY <2>1, <2>2, ThreadAssumption, SMTT(30) DEF CalledByManaged, Resumes, Methods
<1>7. Top.via = "api" => CalledByNative(calls, n) /\ RootSaved(calls, heads, n)
  BY <1>2, <1>5 DEF InPlace, FrameInPlace
<1>8. Top.via = "api" =>
        /\ heads[frame.bp].frame.method = Null
        /\ heads[frame.bp].aboveNative <=> n > 1
        /\ n > 1 => /\ heads[frame.bp].insertion = calls[n - 1].low
                    /\ heads[frame.bp].native = calls[n - 1].named
                    /\ heads[frame.bp].sub = calls[n - 1].caller
  BY <1>2, <1>7 DEF RootSaved
<1> QED
  BY <1>1, <1>2, <1>3, <1>4, <1>6, <1>7, <1>8

LEMMA ExitInlineStep ==
  ASSUME Inv, ExitInline
  PROVE  Inv'
<1> DEFINE n == Len(calls)
           resumed == heads[frame.bp].frame
<1>1. /\ TypeOK /\ CallsInv /\ ~Idle /\ ~failed /\ ~broken /\ ~allocating /\ prepared = Null
      /\ n \in Nat /\ n > 1 /\ calls[n - 1].method \in Managed
      /\ resumed = Resumes(calls[n - 1]) /\ resumed \in Frame
      /\ frame' = resumed /\ calls' = Returned(resumed)
      /\ UNCHANGED <<precall, insertion, active, heads, prepared, allocating, failed, broken>>
  BY ReturningFacts DEF ExitInline, SavedFrame
<1>2. /\ resumed.method = calls[n - 1].method /\ resumed.bp = calls[n - 1].bp
      /\ resumed.prv = calls[n - 1].prv
  BY <1>1 DEF Resumes
<1>3. n = Len(calls)
  OBVIOUS
<1> HIDE DEF n, resumed
<1>4. /\ calls' \in Seq(Activation) /\ Len(calls') = n - 1
      /\ \A i \in DOMAIN calls' : InPlace(calls', heads, i)
      /\ calls'[n - 1].method = calls[n - 1].method /\ calls'[n - 1].bp = calls[n - 1].bp
      /\ calls'[n - 1].prv = calls[n - 1].prv
      /\ calls'[n - 1].low = calls'[n - 1].bp - FrameCapacity[calls'[n - 1].method]
  BY <1>1, <1>2, <1>3, ReturnedInPlace
<1>5. TypeOK' /\ CallsInv'
  BY <1>1, <1>4 DEF TypeOK, CallsInv
<1>6. Top' = calls'[n - 1] /\ ~Idle'
  BY <1>1, <1>4 DEF Top, Idle
<1>7. Top'.method \in Managed /\ Top'.method \notin Native
  BY <1>1, <1>4, <1>6, ThreadAssumption
<1>8. RunsInv'
  BY <1>1, <1>2, <1>4, <1>6, <1>7 DEF RunsInv
<1>9. FailedInv' /\ PreparedInv' /\ AllocatingInv'
  BY <1>1 DEF FailedInv, PreparedInv, AllocatingInv
<1> QED
  BY <1>5, <1>8, <1>9 DEF Inv

LEMMA ExitReentrantStep ==
  ASSUME Inv, ExitReentrant
  PROVE  Inv'
<1> DEFINE n == Len(calls)
           head == heads[frame.bp]
<1>1. /\ TypeOK /\ CallsInv /\ ~Idle /\ ~failed /\ ~broken /\ ~allocating /\ prepared = Null
      /\ n \in Nat /\ n > 1 /\ CalledByNative(calls, n) /\ head \in SavedFrame
      /\ head.insertion = calls[n - 1].low /\ head.native = calls[n - 1].named
      /\ head.sub = calls[n - 1].caller
      /\ insertion' = head.insertion /\ active' = head.native /\ frame' = head.sub
      /\ calls' = Returned(head.sub)
      /\ UNCHANGED <<precall, heads, prepared, allocating, failed, broken>>
  BY ReturningFacts DEF ExitReentrant
<1>2. /\ calls[n - 1].method \in Native /\ calls[n - 1].method \notin Managed
      /\ calls[n - 1].via = "inline"
  BY <1>1, ThreadAssumption DEF CalledByNative
<1>3. n = Len(calls)
  OBVIOUS
<1> HIDE DEF n, head
<1>4. head.sub \in Frame /\ head.insertion \in Address /\ head.native \in Methods \cup {Null}
  BY <1>1 DEF SavedFrame
<1>5. /\ calls' \in Seq(Activation) /\ Len(calls') = n - 1
      /\ \A i \in DOMAIN calls' : InPlace(calls', heads, i)
      /\ calls'[n - 1] = calls[n - 1]
  BY <1>1, <1>2, <1>3, <1>4, ReturnedInPlace
<1>6. TypeOK' /\ CallsInv'
  BY <1>1, <1>4, <1>5 DEF TypeOK, CallsInv
<1>7. Top' = calls[n - 1] /\ ~Idle'
  BY <1>1, <1>5 DEF Top, Idle
<1>8. RunsInv'
  BY <1>1, <1>2, <1>7 DEF RunsInv
<1>9. FailedInv' /\ PreparedInv' /\ AllocatingInv'
  BY <1>1 DEF FailedInv, PreparedInv, AllocatingInv
<1> QED
  BY <1>6, <1>8, <1>9 DEF Inv

LEMMA ExitRootStep ==
  ASSUME Inv, ExitRoot
  PROVE  Inv'
<1> DEFINE n == Len(calls)
<1>1. /\ TypeOK /\ CallsInv /\ ~Idle /\ ~failed /\ ~broken /\ ~allocating /\ prepared = Null
      /\ n \in Nat /\ n = 1
      /\ insertion' = StackCapacity /\ active' = Null /\ frame' = NoFrame /\ precall' = NoFrame
      /\ calls' = Returned(NoFrame)
      /\ UNCHANGED <<heads, prepared, allocating, failed, broken>>
  <2>1. Returning /\ heads[frame.bp].frame.method = Null /\ ~heads[frame.bp].aboveNative
    BY DEF ExitRoot
  <2>2. n \in Nat /\ n > 0 /\ ~(n > 1)
    BY <2>1, ReturningFacts
  <2>3. n = 1
    BY <2>2
  <2> HIDE DEF n
  <2> QED
    BY <2>1, <2>2, <2>3, ReturningFacts DEF ExitRoot
<1>2. /\ calls' \in Seq(Activation) /\ Len(calls') = 0
      /\ \A i \in DOMAIN calls' : InPlace(calls', heads, i)
  BY <1>1, NoFrameType, ReturnedInPlace
<1>3. StackCapacity \in Address
  BY ThreadAssumption DEF Address
<1>4. TypeOK' /\ CallsInv'
  BY <1>1, <1>2, <1>3, NoFrameType DEF TypeOK, CallsInv
<1>5. Idle' /\ Top' = Program
  BY <1>2 DEF Top, Idle, Program, Call
<1>6. RunsInv' /\ FailedInv' /\ PreparedInv' /\ AllocatingInv'
  BY <1>1, <1>5, ProgramFacts DEF RunsInv, FailedInv, PreparedInv, AllocatingInv, Methods
<1> QED
  BY <1>4, <1>6 DEF Inv

\* A native method that runs inside of the thread was called by a compiled one.
LEMMA NativeFacts ==
  ASSUME Inv, InNative, Top.via = "inline", NEW n, n = Len(calls)
  PROVE  /\ TypeOK /\ CallsInv /\ ~Idle /\ ~broken /\ ~allocating
         /\ n \in Nat /\ n > 1 /\ n \in DOMAIN calls /\ calls[n - 1].method \in Managed
         /\ Top.caller = Resumes(calls[n - 1]) /\ Top.caller \in Frame
         /\ ~failed => frame = Top.caller
<1>1. /\ TypeOK /\ CallsInv /\ ~broken /\ Top.method \notin Managed
  BY DEF InNative, Inv
<1>2. /\ ~Idle /\ n \in Nat /\ n \in DOMAIN calls /\ Top = calls[n] /\ Top \in Activation
      /\ Top.method \in Methods
  BY <1>1, TopFacts
<1>3. Top.method \in Native
  BY <1>1, <1>2 DEF Methods
<1>4. CalledByManaged(calls, n) /\ NativeInPlace(calls, n)
  BY <1>1, <1>2, <1>3 DEF CallsInv, InPlace
<1>5. Top.caller \in Frame
  BY <1>2 DEF Activation
<1>6. ~allocating /\ (~failed => frame = Top.caller)
  BY <1>1, <1>3 DEF Inv, AllocatingInv, RunsInv
<1> QED
  BY <1>1, <1>2, <1>4, <1>5, <1>6 DEF CalledByManaged, NativeInPlace

LEMMA ReturnNativeStep ==
  ASSUME Inv, ReturnNative
  PROVE  Inv'
<1> DEFINE n == Len(calls)
<1>1. /\ TypeOK /\ CallsInv /\ ~Idle /\ ~failed /\ ~broken /\ ~allocating
      /\ n \in Nat /\ n > 1 /\ calls[n - 1].method \in Managed
      /\ frame = Resumes(calls[n - 1]) /\ frame \in Frame
      /\ active' = Null /\ calls' = Returned(frame) /\ prepared' = Null
      /\ UNCHANGED <<frame, precall, insertion, heads, allocating, failed, broken>>
  BY NativeFacts DEF ReturnNative
<1>2. /\ frame.method = calls[n - 1].method /\ frame.bp = calls[n - 1].bp
      /\ frame.prv = calls[n - 1].prv
  BY <1>1 DEF Resumes
<1>3. n = Len(calls)
  OBVIOUS
<1> HIDE DEF n
<1>4. /\ calls' \in Seq(Activation) /\ Len(calls') = n - 1
      /\ \A i \in DOMAIN calls' : InPlace(calls', heads, i)
      /\ calls'[n - 1].method = calls[n - 1].method /\ calls'[n - 1].bp = calls[n - 1].bp
      /\ calls'[n - 1].prv = calls[n - 1].prv
      /\ calls'[n - 1].low = calls'[n - 1].bp - FrameCapacity[calls'[n - 1].method]
  BY <1>1, <1>2, <1>3, ReturnedInPlace
<1>5. TypeOK' /\ CallsInv'
  BY <1>1, <1>4 DEF TypeOK, CallsInv
<1>6. Top' = calls'[n - 1] /\ ~Idle'
  BY <1>1, <1>4 DEF Top, Idle
<1>7. Top'.method \in Managed /\ Top'.method \notin Native
  BY <1>1, <1>4, <1>6, ThreadAssumption
<1>8. RunsInv'
  BY <1>1, <1>2, <1>4, <1>6, <1>7 DEF RunsInv
<1>9. FailedInv' /\ PreparedInv' /\ AllocatingInv'
  BY <1>1 DEF FailedInv, PreparedInv, AllocatingInv
<1> QED
  BY <1>5, <1>8, <1>9 DEF Inv

LEMMA ReturnDirectStep ==
  ASSUME Inv, ReturnDirect
  PROVE  Inv'
<1> DEFINE n == Len(calls)
<1>1. /\ TypeOK /\ CallsInv /\ RunsInv /\ FailedInv /\ PreparedInv /\ Top.via = "api" /\ ~broken
      /\ Top.method \notin Managed /\ calls' = Returned(NoFrame)
      /\ UNCHANGED <<frame, precall, insertion, active, heads, prepared, allocating, failed,
                     broken>>
  BY DEF ReturnDirect, InNative, Inv
<1>2. /\ ~Idle /\ n \in Nat /\ n > 0 /\ n \in DOMAIN calls /\ Top = calls[n]
      /\ Top.method \in Methods
  BY <1>1, TopFacts
<1>3. Top.method \in Native
  BY <1>1, <1>2 DEF Methods
<1>4. n > 1 => /\ calls[n - 1].method \in Native /\ calls[n - 1].method \notin Managed
               /\ calls[n - 1].via = "inline"
  BY <1>1, <1>2, ThreadAssumption DEF CallsInv, InPlace, CalledByNative
<1>5. /\ calls' \in Seq(Activation) /\ Len(calls') = n - 1
      /\ \A i \in DOMAIN calls' : InPlace(calls', heads, i)
      /\ n > 1 => calls'[n - 1] = calls[n - 1]
  BY <1>1, <1>2, <1>4, NoFrameType, ReturnedInPlace
<1>6. TypeOK' /\ CallsInv'
  BY <1>1, <1>5 DEF TypeOK, CallsInv
<1>7. prepared = Null /\ ~allocating /\ (~failed => RunByCaller(calls[n - 1]))
  BY <1>1, <1>3 DEF PreparedInv, RunsInv, Inv, AllocatingInv
<1>8. CASE n = 1
  <2>1. Idle' /\ Top' = Program
    BY <1>5, <1>8 DEF Top, Idle, Program, Call
  <2> QED
    BY <1>1, <1>6, <1>7, <1>8, <2>1, ProgramFacts
    DEF Inv, RunsInv, RunByCaller, FailedInv, PreparedInv, AllocatingInv, Methods
<1>9. CASE n > 1
  <2>1. ~Idle' /\ Top' = calls[n - 1]
    BY <1>2, <1>5, <1>9 DEF Top, Idle
  <2>2. RunsInv'
    BY <1>1, <1>4, <1>7, <1>9, <2>1 DEF RunsInv, RunByCaller
  <2>3. FailedInv' /\ PreparedInv' /\ AllocatingInv'
    BY <1>1, <1>4, <1>7, <1>9, <2>1 DEF FailedInv, PreparedInv, AllocatingInv
  <2> QED
    BY <1>6, <2>2, <2>3 DEF Inv
<1>10. n = 1 \/ n > 1
  <2> HIDE DEF n
  <2> QED
    BY <1>2
<1> QED
  BY <1>8, <1>9, <1>10

\* A set of numbers up to a bound has a greatest.
LEMMA GreatestUpTo ==
  ASSUME NEW n \in Nat, NEW S \in SUBSET (1..n), S # {}
  PROVE  \E x \in S : \A y \in S : y <= x
<1> DEFINE Above(x) == x + 1..n
           All == {Above(x) : x \in S}
           R == StrictSubsetOrdering(Nat)
<1>1. IsWellFoundedOn(R, FiniteSubsetsOf(Nat))
  BY FS_StrictSubsetOrderingWellFounded
<1>2. All \subseteq FiniteSubsetsOf(Nat) /\ All # {}
  <2> SUFFICES ASSUME NEW x \in S PROVE Above(x) \in FiniteSubsetsOf(Nat)
    OBVIOUS
  <2>1. IsFiniteSet(Above(x))
    BY FS_Interval
  <2>2. Above(x) \subseteq Nat
    OBVIOUS
  <2> QED
    BY <2>1, <2>2 DEF FiniteSubsetsOf
<1>3. PICK s \in All : \A t \in All : <<t, s>> \notin R
  <2> HIDE DEF All, R
  <2> QED
    BY <1>1, <1>2, WFMin
<1>4. PICK x \in S : s = Above(x)
  OBVIOUS
<1>5. ASSUME NEW y \in S, ~(y <= x) PROVE FALSE
  <2>1. Above(y) \subseteq Above(x) /\ y \in Above(x) /\ y \notin Above(y)
    BY <1>5
  <2>2. Above(y) \in All /\ Above(x) \subseteq Nat /\ Above(y) \subseteq Nat
    OBVIOUS
  <2> HIDE DEF Above
  <2>3. <<Above(y), Above(x)>> \in R
    BY <2>1, <2>2 DEF StrictSubsetOrdering
  <2> QED
    BY <1>3, <1>4, <2>2, <2>3
<1> QED
  BY <1>5

\* Some call of native code is the innermost.
LEMMA OutermostFacts ==
  ASSUME TypeOK, CallsInv, ~Idle
  PROVE  Outermost \in DOMAIN calls /\ calls[Outermost].via = "api"
<1> DEFINE n == Len(calls)
           S == {i \in 1..n : calls[i].via = "api"}
<1>1. /\ calls \in Seq(Activation) /\ n \in Nat /\ n > 0 /\ DOMAIN calls = 1..n
  BY DEF TypeOK, Idle
<1>2. \A i \in 1..n : calls[i].via \in {"api", "inline"}
  <2>1. \A i \in 1..n : calls[i] \in Activation
    BY <1>1
  <2> QED
    BY <2>1 DEF Activation
<1>3. calls[1].via = "api"
  <2>1. 1 \in DOMAIN calls
    BY <1>1
  <2> QED
    BY <1>2, <2>1, <1>1 DEF CallsInv, InPlace, CalledByManaged
<1>4. 1 \in S /\ S \in SUBSET (1..n)
  BY <1>1, <1>3
<1>5. PICK x \in S : \A y \in S : y <= x
  BY <1>1, <1>4, GreatestUpTo
<1>6. \A j \in x + 1..Len(calls) : calls[j].via = "inline"
  <2> SUFFICES ASSUME NEW j \in x + 1..n, calls[j].via # "inline" PROVE FALSE
    OBVIOUS
  <2>1. j \in 1..n /\ j > x
    BY <1>1
  <2>2. j \in S
    BY <1>2, <2>1
  <2> QED
    BY <1>5, <2>1, <2>2
<1>7. x \in DOMAIN calls /\ calls[x].via = "api"
  BY <1>1
<1> QED
  BY <1>6, <1>7 DEF Outermost

LEMMA FailNativeStep ==
  ASSUME Inv, FailNative
  PROVE  Inv'
<1> DEFINE n == Len(calls)
           o == Outermost
           k == o - 1
<1>1. /\ TypeOK /\ CallsInv /\ ~Idle /\ ~allocating /\ n \in Nat /\ Top.caller \in Frame
      /\ frame' = Top.caller /\ active' = Null
      /\ calls' = SubSeq(calls, 1, k) /\ failed' = TRUE /\ prepared' = Null
      /\ UNCHANGED <<precall, insertion, heads, allocating, broken>>
  BY NativeFacts DEF FailNative
<1>2. o \in DOMAIN calls /\ calls[o].via = "api"
  BY <1>1, OutermostFacts
<1> HIDE DEF o
<1>3. /\ calls \in Seq(Activation) /\ DOMAIN calls = 1..n /\ o \in 1..n
      /\ k \in 0..Len(calls) /\ \A i \in DOMAIN calls : InPlace(calls, heads, i)
  BY <1>1, <1>2 DEF TypeOK, CallsInv
<1>4. InPlace(calls, heads, o)
  BY <1>2, <1>3
<1>5. CalledByNative(calls, o)
  BY <1>2, <1>4 DEF InPlace
<1>6. o = 1 \/ (o > 1 /\ calls[k].method \in Native)
  BY <1>3, <1>5 DEF CalledByNative
<1>7. k \in Nat /\ (o = 1 => k = 0) /\ (o > 1 => k > 0 /\ k \in 1..k)
  BY <1>3
<1> HIDE DEF k
<1>8. /\ calls' \in Seq(Activation) /\ Len(calls') = k
      /\ \A i \in 1..k : calls'[i] = calls[i]
      /\ \A i \in DOMAIN calls' : InPlace(calls', heads, i)
  BY <1>1, <1>3, PrefixInPlace
<1>9. TypeOK' /\ CallsInv'
  BY <1>1, <1>8 DEF TypeOK, CallsInv
<1>10. Top'.method \notin Managed
  <2>1. CASE o = 1
    <3>1. Idle' /\ Top' = Program
      BY <1>7, <1>8, <2>1 DEF Top, Idle, Program, Call
    <3> QED
      BY <3>1, ProgramFacts DEF Methods
  <2>2. CASE o > 1
    <3>1. ~Idle' /\ Top' = calls'[k]
      BY <1>7, <1>8, <2>2 DEF Top, Idle
    <3>2. Top'.method \in Native
      BY <1>3, <1>6, <1>7, <1>8, <2>2, <3>1
    <3> QED
      BY <3>2, ThreadAssumption
  <2> QED
    BY <1>6, <2>1, <2>2
<1>11. RunsInv' /\ FailedInv' /\ PreparedInv' /\ AllocatingInv'
  BY <1>1, <1>10 DEF RunsInv, FailedInv, PreparedInv, AllocatingInv
<1> QED
  BY <1>9, <1>11 DEF Inv

-----------------------------------------------------------------------------
(***************************************************************************)
(* The theorems.                                                           *)
(***************************************************************************)

LEMMA InitInv == Init => Inv
<1> SUFFICES ASSUME Init PROVE Inv
  OBVIOUS
<1>1. /\ frame = NoFrame /\ precall = NoFrame /\ insertion = StackCapacity /\ active = Null
      /\ heads = [a \in Address |-> NoHead] /\ calls = <<>> /\ prepared = Null
      /\ allocating = FALSE /\ failed = FALSE /\ broken = FALSE
  BY DEF Init, Address
<1>2. StackCapacity \in Address
  BY ThreadAssumption DEF Address
<1>3. heads \in [Address -> SavedFrame]
  BY <1>1, NoFrameType
<1>4. calls \in Seq(Activation) /\ DOMAIN calls = {}
  BY <1>1
<1>5. TypeOK
  <2>1. active \in Methods \cup {Null} /\ prepared \in Methods \cup {Null}
    BY <1>1
  <2>2. frame \in Frame /\ precall \in Frame /\ insertion \in Address
    BY <1>1, <1>2, NoFrameType
  <2> QED
    BY <1>1, <1>3, <1>4, <2>1, <2>2 DEF TypeOK
<1>6. CallsInv
  BY <1>4 DEF CallsInv
<1>7. Idle /\ Top = Program
  BY <1>1 DEF Top, Idle
<1>8. RunsInv /\ FailedInv /\ PreparedInv /\ AllocatingInv
  BY <1>1, <1>7, ProgramFacts DEF RunsInv, FailedInv, PreparedInv, AllocatingInv, Methods
<1> QED
  BY <1>5, <1>6, <1>8 DEF Inv

LEMMA NextInv == Inv /\ [Next]_vars => Inv'
<1> SUFFICES ASSUME Inv, [Next]_vars PROVE Inv'
  OBVIOUS
<1>1. CASE \E m \in Methods : Precall(m)
  BY <1>1, PrecallStep
<1>2. CASE \E m \in Native : RunNativeMethod(m)
  BY <1>2, RunNativeMethodStep
<1>3. CASE \E m \in Managed : RunMethod(m) \/ RunMethodOverflow(m)
  BY <1>3, RunMethodStep, OverflowStep
<1>4. CASE Reset
  BY <1>4, ResetStep
<1>5. CASE Execute \/ EndAllocation
  BY <1>5, ExecuteStep
<1>6. CASE \E m \in Methods, base \in 0..StackCapacity :
             EnterManaged(m, base) \/ EnterOverflow(m, base) \/ EnterNative(m, base)
  <2>1. PICK m \in Methods, base \in 0..StackCapacity :
          EnterManaged(m, base) \/ EnterOverflow(m, base) \/ EnterNative(m, base)
    BY <1>6
  <2>2. CASE EnterManaged(m, base)
    BY <2>2, EnterManagedStep
  <2>3. CASE EnterOverflow(m, base)
    BY <2>3, OverflowStep
  <2>4. CASE EnterNative(m, base)
    BY <2>4, EnterNativeStep
  <2> QED
    BY <2>1, <2>2, <2>3, <2>4
<1>7. CASE BeginAllocation
  BY <1>7, BeginAllocationStep
<1>8. CASE FailAllocation
  BY <1>8, OverflowStep
<1>9. CASE ExitInline
  BY <1>9, ExitInlineStep
<1>10. CASE ExitReentrant
  BY <1>10, ExitReentrantStep
<1>11. CASE ExitRoot
  BY <1>11, ExitRootStep
<1>12. CASE ReturnNative
  BY <1>12, ReturnNativeStep
<1>13. CASE ReturnDirect
  BY <1>13, ReturnDirectStep
<1>14. CASE FailNative
  BY <1>14, FailNativeStep
<1>15. CASE UNCHANGED vars
  <2>1. /\ UNCHANGED <<frame, precall, insertion, active, heads, calls, prepared, failed>>
        /\ allocating' = allocating /\ broken' = broken
    BY <1>15 DEF vars
  <2>2. broken \in BOOLEAN /\ (broken => ~allocating)
    BY DEF Inv, TypeOK, AllocatingInv
  <2> QED
    BY <2>1, <2>2, StoppedStep
<1> QED
  BY <1>1, <1>2, <1>3, <1>4, <1>5, <1>6, <1>7, <1>8, <1>9, <1>10, <1>11, <1>12, <1>13,
     <1>14, <1>15 DEF Next

\* The invariant holds at every instant of every run of a thread.
THEOREM Invariance == Spec => []Inv
  BY InitInv, NextInv, PTL DEF Spec

\* Every address that a thread keeps, computes or saves lies in its stack,
\* whatever the program calls, returns from and gives up: the bounds that
\* rdxExpandFrame and Precall check are enough.
THEOREM TypeCorrect == Spec => []TypeOK
<1>1. Inv => TypeOK
  BY DEF Inv
<1> QED
  BY <1>1, Invariance, PTL

LEMMA InvAreas == Inv => AreasDisjoint
<1> SUFFICES ASSUME Inv PROVE AreasDisjoint
  OBVIOUS
<1>1. \A i \in DOMAIN calls : /\ calls[i].low <= calls[i].high
                              /\ \A j \in 1..i - 1 : calls[i].high <= calls[j].low
  BY DEF Inv, CallsInv, InPlace
<1>2. prepared # Null => insertion <= Top.low
  <2> SUFFICES ASSUME prepared # Null PROVE insertion <= Top.low
    OBVIOUS
  <2>1. TypeOK /\ RunsInv /\ ~failed /\ Top.method \notin Managed /\ Top.via # "api"
    BY DEF Inv, PreparedInv, FailedInv
  <2>2. insertion \in Int
    BY <2>1, ThreadAssumption DEF TypeOK, Address
  <2>3. CASE Idle
    BY <2>1, <2>2, <2>3, TopFacts, ProgramFacts DEF RunsInv
  <2>4. CASE ~Idle
    <3>1. Top.method \in Native /\ Top.via = "inline"
      BY <2>1, <2>4, TopFacts DEF Methods
    <3> QED
      BY <2>1, <2>2, <3>1 DEF RunsInv
  <2> QED
    BY <2>3, <2>4
<1> QED
  BY <1>1, <1>2 DEF AreasDisjoint

\* No call of a thread ever uses memory of another, and native code writes the
\* parameters that Precall reserved below all of them.
THEOREM Areas == Spec => []AreasDisjoint
  BY Invariance, InvAreas, PTL

LEMMA InvRestored == Inv => StateRestored
  BY DEF Inv, RunsInv, RunByCaller, StateRestored, Direct

\* Whoever goes on after a call, compiled, native or the program itself, finds
\* the thread as it left it: a native method that has run another one directly
\* finds that one as the active native method.
THEOREM Restored == Spec => []StateRestored
  BY Invariance, InvRestored, PTL

-----------------------------------------------------------------------------
(***************************************************************************)
(* What a collection sees.                                                 *)
(***************************************************************************)

\* A frame of the walk that stands for the i-th of the calls cs; for i = 0 it
\* ends the walk.
Names(head, cs, i) ==
  IF i = 0 THEN ~CanTrace(head)
  ELSE /\ cs[i].method \in Managed =>
            /\ head.frame.method = cs[i].method
            /\ head.frame.prv = cs[i].prv /\ head.frame.bp = cs[i].bp
       /\ cs[i].method \in Native =>
            /\ head.frame.method = Null /\ head.aboveNative
            /\ head.native = cs[i].named /\ head.sub = cs[i].caller

\* A compiled method that waits resumes after the instruction it is at.
AtCall(head, cs, i) ==
  i > 0 /\ cs[i].method \in Managed => head.frame.ip = cs[i].at + 1

\* The calls that are walked over.  A native method that native code runs
\* directly is not among them.
Walkable(cs) ==
  /\ cs \in Seq(Activation)
  /\ \A i \in DOMAIN cs : InPlace(cs, heads, i)
  /\ \A i \in DOMAIN cs : cs[i].method \in Native => cs[i].via = "inline"

\* A step of the walk goes from a call to its caller.
LEMMA ParentNames ==
  ASSUME TypeOK, NEW cs, Walkable(cs), NEW i \in DOMAIN cs, NEW head \in SavedFrame,
         Names(head, cs, i)
  PROVE  CanTrace(head) /\ Names(Parent(head), cs, i - 1) /\ AtCall(Parent(head), cs, i - 1)
<1>1. /\ cs[i] \in Activation /\ InPlace(cs, heads, i) /\ i \in Nat /\ i > 0
      /\ i = 1 => i - 1 = 0
      /\ i > 1 => i - 1 \in DOMAIN cs /\ i - 1 # 0 /\ i - 1 > 0
  BY DEF Walkable
<1>2. cs[i].method \in Methods /\ cs[i].via \in {"api", "inline"}
  BY <1>1 DEF Activation
<1>3. i > 1 => cs[i - 1] \in Activation
  BY <1>1 DEF Walkable
<1>4. CASE cs[i].method \in Managed
  <2>1. head.frame.method # Null /\ CanTrace(head) /\ Parent(head) = heads[cs[i].bp]
    BY <1>1, <1>4, ThreadAssumption DEF Names, CanTrace, Parent, Methods
  <2>2. FrameInPlace(cs, heads, i)
    BY <1>1, <1>4 DEF InPlace
  <2>3. CASE cs[i].via = "api"
    <3>1. RootSaved(cs, heads, i) /\ CalledByNative(cs, i)
      BY <1>1, <2>2, <2>3 DEF FrameInPlace, InPlace
    <3>2. CASE i = 1
      BY <1>1, <2>1, <3>1, <3>2 DEF RootSaved, Names, AtCall, CanTrace
    <3>3. CASE i > 1
      <4>1. cs[i - 1].method \in Native /\ cs[i - 1].method \notin Managed
        BY <3>1, <3>3, ThreadAssumption DEF CalledByNative
      <4> QED
        BY <1>1, <2>1, <3>1, <3>3, <4>1 DEF RootSaved, Names, AtCall
    <3> QED
      BY <1>1, <3>2, <3>3
  <2>4. CASE cs[i].via = "inline"
    <3>1. /\ heads[cs[i].bp].frame = Resumes(cs[i - 1])
          /\ i > 1 /\ cs[i - 1].method \in Managed /\ cs[i - 1].method \notin Native
      BY <1>1, <2>2, <2>4, ThreadAssumption DEF FrameInPlace, InPlace, CalledByManaged
    <3> QED
      BY <1>1, <2>1, <3>1 DEF Names, AtCall, Resumes
  <2> QED
    BY <1>2, <2>3, <2>4
<1>5. CASE cs[i].method \in Native
  <2>1. /\ head.frame.method = Null /\ head.aboveNative /\ head.sub = cs[i].caller
        /\ CanTrace(head) /\ Parent(head) = [NoHead EXCEPT !.frame = head.sub]
    BY <1>1, <1>5 DEF Names, CanTrace, Parent
  <2>2. /\ cs[i].via = "inline" /\ i > 1 /\ cs[i - 1].method \in Managed
        /\ cs[i - 1].method \notin Native /\ cs[i].caller = Resumes(cs[i - 1])
    BY <1>1, <1>5, ThreadAssumption DEF Walkable, InPlace, NativeInPlace, CalledByManaged
  <2>3. Parent(head).frame = Resumes(cs[i - 1])
    BY <2>1, <2>2 DEF NoHead
  <2> QED
    BY <1>1, <2>1, <2>2, <2>3 DEF Names, AtCall, Resumes
<1> QED
  BY <1>2, <1>4, <1>5 DEF Methods

\* The walk begins with the thread's own frame and goes on by WalkOn.
Start == [NoHead EXCEPT !.frame = frame]
Walked == Seq(SavedFrame) \ {<<>>}

LEMMA WalkTypes ==
  ASSUME TypeOK
  PROVE  /\ Start \in SavedFrame /\ <<Start>> \in Walked
         /\ \A head \in SavedFrame : Parent(head) \in SavedFrame
         /\ \A walk \in Walked : WalkOn(walk) \in Walked
<1>1. frame \in Frame /\ heads \in [Address -> SavedFrame]
  BY DEF TypeOK
<1>2. \A f \in Frame : [NoHead EXCEPT !.frame = f] \in SavedFrame
  BY NoFrameType DEF SavedFrame
<1>3. \A head \in SavedFrame : Parent(head) \in SavedFrame
  <2> SUFFICES ASSUME NEW head \in SavedFrame PROVE Parent(head) \in SavedFrame
    OBVIOUS
  <2>1. head.frame \in Frame /\ head.sub \in Frame
    BY DEF SavedFrame
  <2>2. head.frame.bp \in Address
    BY <2>1 DEF Frame
  <2> QED
    BY <1>1, <1>2, <2>1, <2>2 DEF Parent
<1>4. ASSUME NEW walk \in Walked
      PROVE  WalkOn(walk) \in Walked
  <2>1. walk \in Seq(SavedFrame) /\ walk # <<>> /\ walk[Len(walk)] \in SavedFrame
    BY DEF Walked
  <2>2. Parent(walk[Len(walk)]) \in SavedFrame
    BY <1>3, <2>1
  <2>3. Append(walk, Parent(walk[Len(walk)])) \in Walked
    BY <2>1, <2>2 DEF Walked
  <2> QED
    BY <2>3 DEF WalkOn
<1>5. Start \in SavedFrame
  BY <1>1, <1>2 DEF Start
<1>6. <<Start>> \in Walked
  BY <1>5 DEF Walked
<1> QED
  BY <1>3, <1>4, <1>5, <1>6

\* What is known of a sequence, whatever its elements are.
LEMMA InSequence ==
  ASSUME NEW S, NEW cs \in Seq(S)
  PROVE  /\ Len(cs) \in Nat /\ DOMAIN cs = 1..Len(cs)
         /\ \A i \in DOMAIN cs : cs[i] \in S
         /\ Len(cs) > 0 => cs # <<>>
OBVIOUS

LEMMA AsSequence ==
  ASSUME NEW n \in Nat, NEW cs, cs = [i \in 1..n |-> cs[i]]
  PROVE  cs \in Seq({cs[i] : i \in DOMAIN cs})
OBVIOUS

LEMMA Shortened ==
  ASSUME NEW S, NEW cs \in Seq(S), NEW n \in Nat, n = Len(cs), n > 0
  PROVE  /\ SubSeq(cs, 1, n - 1) \in Seq(S) /\ Len(SubSeq(cs, 1, n - 1)) = n - 1
         /\ DOMAIN SubSeq(cs, 1, n - 1) = 1..n - 1
         /\ \A i \in 1..n - 1 : SubSeq(cs, 1, n - 1)[i] = cs[i] /\ i \in DOMAIN cs
OBVIOUS

LEMMA WalkDefined ==
  ASSUME TypeOK
  PROVE  /\ Walk[0] = <<Start>>
         /\ \A n \in Nat : Walk[n + 1] = WalkOn(Walk[n])
         /\ \A n \in Nat : Walk[n] \in Walked
<1> DEFINE Recurs(w) == w = [n \in Nat |-> IF n = 0 THEN <<Start>> ELSE WalkOn(w[n - 1])]
           step == [walk \in Walked |-> WalkOn(walk)]
<1>1. step \in [Walked -> Walked] /\ \A walk \in Walked : step[walk] = WalkOn(walk)
  BY WalkTypes
<1> HIDE DEF step
<1>2. PICK f \in [Nat -> Walked] : f[0] = <<Start>> /\ \A n \in Nat : f[n + 1] = step[f[n]]
  <2>1. <<Start>> \in Walked
    BY WalkTypes
  <2> DEFINE D == Walked
             a == <<Start>>
  <2>2. step \in [D -> D] /\ a \in D
    BY <1>1, <2>1
  <2> HIDE DEF D, a
  <2>3. \E f \in [Nat -> D] : f[0] = a /\ \A n \in Nat : f[n + 1] = step[f[n]]
    BY <2>2, IterationExists
  <2> QED
    BY <2>3 DEF D, a
<1>3. \A n \in Nat : f[n + 1] = WalkOn(f[n])
  BY <1>1, <1>2
<1>4. Recurs(f)
  <2>1. ASSUME NEW n \in Nat
        PROVE  f[n] = IF n = 0 THEN <<Start>> ELSE WalkOn(f[n - 1])
    <3>1. n # 0 => n - 1 \in Nat /\ n - 1 + 1 = n
      OBVIOUS
    <3> QED
      BY <1>2, <1>3, <3>1
  <2> QED
    BY <1>2, <2>1
<1>5. Walk = CHOOSE w : Recurs(w)
  BY DEF Walk, Start
<1> HIDE DEF Recurs
<1>6. Recurs(Walk)
  BY <1>4, <1>5
<1>7. \A n \in Nat : Walk[n] = IF n = 0 THEN <<Start>> ELSE WalkOn(Walk[n - 1])
  BY <1>6 DEF Recurs
<1>8. \A n \in Nat : n + 1 \in Nat /\ n + 1 # 0 /\ n + 1 - 1 = n
  OBVIOUS
<1>9. Walk[0] = <<Start>> /\ \A n \in Nat : Walk[n + 1] = WalkOn(Walk[n])
  BY <1>7, <1>8
<1> DEFINE S == {n \in Nat : Walk[n] \in Walked}
<1>10. 0 \in S
  BY <1>9, WalkTypes
<1>11. \A n \in Nat : n \in S => n + 1 \in S
  BY <1>8, <1>9, WalkTypes
<1> HIDE DEF S
<1>12. \A n \in Nat : n \in S
  BY <1>10, <1>11, SetInduction
<1> QED
  BY <1>9, <1>12 DEF S

\* There are no more calls than a walk may look at: each compiled method takes
\* an address, and a native method is called by a compiled one.
LEMMA CallsFit ==
  ASSUME TypeOK, NEW cs, Walkable(cs)
  PROVE  Len(cs) <= 2 * StackCapacity
<1>1. cs \in Seq(Activation) /\ StackCapacity \in Nat
  BY ThreadAssumption DEF Walkable
<1>2. \A i \in DOMAIN cs : cs[i].low \in Nat /\ cs[i].high \in Nat /\ cs[i].bp \in Nat
  <2> SUFFICES ASSUME NEW i \in DOMAIN cs
               PROVE  cs[i].low \in Nat /\ cs[i].high \in Nat /\ cs[i].bp \in Nat
    OBVIOUS
  <2>1. cs[i] \in Activation
    BY <1>1
  <2> QED
    BY <2>1, ThreadAssumption DEF Activation, Address
<1> DEFINE Room(i) == 2 * cs[i].low + i <= 2 * StackCapacity - (IF cs[i].method \in Managed THEN 1 ELSE 0)
           S == {i \in Nat : i \in DOMAIN cs => Room(i)}
<1>3. ASSUME NEW i \in DOMAIN cs, i > 1 => Room(i - 1)
      PROVE  Room(i)
  <2>1. /\ InPlace(cs, heads, i) /\ i \in Nat /\ i >= 1
        /\ i > 1 => i - 1 \in DOMAIN cs
        /\ cs[i] \in Activation
    BY <1>1 DEF Walkable
  <2>2. cs[i].method \in Methods /\ cs[i].via \in {"api", "inline"}
    BY <2>1 DEF Activation
  <2>3. /\ i = 1 => cs[i].high <= StackCapacity
        /\ i > 1 => cs[i].high = cs[i - 1].low
    <3>1. CASE cs[i].via = "api"
      BY <2>1, <3>1, <1>1 DEF InPlace, CalledByNative
    <3>2. CASE cs[i].via = "inline"
      BY <2>1, <3>2 DEF InPlace, CalledByManaged
    <3> QED
      BY <2>2, <3>1, <3>2
  <2>4. CASE cs[i].method \in Managed
    <3>1. FrameInPlace(cs, heads, i)
      BY <2>1, <2>4 DEF InPlace
    <3>2. heads[cs[i].bp].size > 0
      BY <2>2, <3>1 DEF FrameInPlace, RootSaved
    <3>3. cs[i].low <= cs[i].bp /\ cs[i].bp + heads[cs[i].bp].size <= cs[i].high
      BY <3>1 DEF FrameInPlace
    <3>4. heads[cs[i].bp].size \in Nat
      <4>1. heads[cs[i].bp] \in SavedFrame
        BY <2>1 DEF TypeOK, Activation
      <4> QED
        BY <4>1, ThreadAssumption DEF SavedFrame
    <3>5. cs[i].low + 1 <= cs[i].high
      BY <1>2, <3>2, <3>3, <3>4
    <3>6. CASE i = 1
      BY <1>1, <1>2, <2>3, <2>4, <3>5, <3>6
    <3>7. CASE i > 1
      <4>1. 2 * cs[i - 1].low + (i - 1) <= 2 * StackCapacity
        BY <1>1, <1>2, <1>3, <2>1, <3>7
      <4>2. cs[i].low + 1 <= cs[i - 1].low
        BY <2>3, <3>5, <3>7
      <4>3. cs[i - 1].low \in Nat
        BY <1>2, <2>1, <3>7
      <4>4. 2 * cs[i].low + i <= 2 * StackCapacity - 1
        <5> DEFINE a == cs[i].low
                   b == cs[i - 1].low
        <5>1. a \in Nat /\ b \in Nat /\ a + 1 <= b /\ 2 * b + (i - 1) <= 2 * StackCapacity
          BY <1>2, <4>1, <4>2, <4>3
        <5> HIDE DEF a, b
        <5>2. 2 * a + i <= 2 * StackCapacity - 1
          BY <1>1, <2>1, <5>1
        <5> QED
          BY <5>2 DEF a
      <4> QED
        BY <2>4, <4>4
    <3> QED
      BY <2>1, <3>6, <3>7
  <2>5. CASE cs[i].method \in Native
    <3>1. /\ cs[i].via = "inline" /\ i > 1 /\ cs[i - 1].method \in Managed
          /\ cs[i].low = cs[i].high /\ cs[i].method \notin Managed
      BY <2>1, <2>5, ThreadAssumption DEF Walkable, InPlace, NativeInPlace, CalledByManaged
    <3>2. 2 * cs[i - 1].low + (i - 1) <= 2 * StackCapacity - 1
      BY <1>3, <3>1
    <3>3. cs[i].low = cs[i - 1].low /\ cs[i - 1].low \in Nat
      BY <1>2, <2>1, <2>3, <3>1
    <3>4. 2 * cs[i].low + i <= 2 * StackCapacity
      BY <1>1, <2>1, <3>2, <3>3
    <3> QED
      BY <1>1, <3>1, <3>4
  <2> QED
    BY <2>2, <2>4, <2>5 DEF Methods
<1> HIDE DEF Room
<1>4. 0 \in S
  BY <1>1
<1>5. ASSUME NEW i \in Nat, i \in S
      PROVE  i + 1 \in S
  <2> SUFFICES ASSUME i + 1 \in DOMAIN cs
               PROVE  Room(i + 1)
    OBVIOUS
  <2>1. i + 1 - 1 = i /\ (i + 1 > 1 => i \in DOMAIN cs)
    BY <1>1
  <2> QED
    BY <1>3, <1>5, <2>1
<1> HIDE DEF S
<1>6. \A i \in Nat : i \in S
  BY <1>4, <1>5, SetInduction
<1>7. CASE cs = <<>>
  BY <1>1, <1>7
<1>8. CASE cs # <<>>
  <2>1. Len(cs) \in Nat /\ Len(cs) \in DOMAIN cs
    BY <1>1, <1>8
  <2>2. 2 * cs[Len(cs)].low + Len(cs) <= 2 * StackCapacity
    BY <1>1, <1>2, <1>6, <2>1 DEF S, Room
  <2> QED
    BY <1>1, <1>2, <2>1, <2>2
<1> QED
  BY <1>7, <1>8

\* The walk w has gone from the m-th of the calls cs down by n calls.
WentDown(w, cs, m, n) ==
  /\ Len(w) = n + 1 /\ w[1] = Start
  /\ \A j \in 1..n + 1 : /\ Names(w[j], cs, m - j + 1)
                         /\ j > 1 => AtCall(w[j], cs, m - j + 1)

LEMMA GoesDown ==
  ASSUME TypeOK, NEW cs, Walkable(cs), NEW m \in 0..Len(cs), NEW n \in Nat,
         NEW w \in Walked, WentDown(w, cs, m, n)
  PROVE  /\ n < m => WentDown(WalkOn(w), cs, m, n + 1)
         /\ n = m => WalkOn(w) = w
<1>1. /\ w \in Seq(SavedFrame) /\ Len(w) = n + 1 /\ n + 1 \in DOMAIN w
      /\ w[n + 1] \in SavedFrame
  BY DEF Walked, WentDown
<1>2. cs \in Seq(Activation) /\ m \in Nat /\ m <= Len(cs) /\ Len(cs) \in Nat
  BY DEF Walkable
<1>3. Names(w[n + 1], cs, m - n)
  <2>1. n + 1 \in 1..n + 1 /\ m - (n + 1) + 1 = m - n
    BY <1>2
  <2> QED
    BY <2>1 DEF WentDown
<1>4. CASE n < m
  <2> DEFINE i == m - n
             h == Parent(w[n + 1])
  <2>1. i \in DOMAIN cs
    BY <1>2, <1>4
  <2>2. CanTrace(w[n + 1]) /\ Names(h, cs, i - 1) /\ AtCall(h, cs, i - 1)
    BY <1>1, <1>3, <2>1, ParentNames
  <2>3. WalkOn(w) = Append(w, h)
    BY <1>1, <2>2 DEF WalkOn
  <2>4. i - 1 = m - (n + 2) + 1 /\ n + 1 + 1 = n + 2
    BY <1>2
  <2> HIDE DEF h, i
  <2>5. /\ Len(Append(w, h)) = n + 2 /\ Append(w, h)[n + 2] = h
        /\ \A j \in 1..n + 1 : Append(w, h)[j] = w[j]
        /\ Append(w, h)[1] = w[1]
    BY <1>1
  <2>6. \A j \in 1..n + 2 : j = n + 2 \/ j \in 1..n + 1
    OBVIOUS
  <2>7. ASSUME NEW j \in 1..n + 2
        PROVE  /\ Names(Append(w, h)[j], cs, m - j + 1)
               /\ j > 1 => AtCall(Append(w, h)[j], cs, m - j + 1)
    <3>1. CASE j = n + 2
      BY <2>2, <2>4, <2>5, <3>1
    <3>2. CASE j \in 1..n + 1
      BY <2>5, <3>2 DEF WentDown
    <3> QED
      BY <2>6, <3>1, <3>2
  <2> QED
    BY <1>4, <2>3, <2>4, <2>5, <2>7 DEF WentDown
<1>5. CASE n = m
  <2>1. ~CanTrace(w[n + 1])
    BY <1>2, <1>3, <1>5 DEF Names
  <2> QED
    BY <1>1, <1>2, <1>5, <2>1 DEF WalkOn
<1> QED
  BY <1>2, <1>4, <1>5

LEMMA WalkIs ==
  ASSUME TypeOK, NEW cs, Walkable(cs), NEW m \in 0..Len(cs), Names(Start, cs, m)
  PROVE  \A n \in Nat : n >= m => WentDown(Walk[n], cs, m, m)
<1>1. m \in Nat
  BY DEF Walkable
<1> DEFINE Reached(n) == WentDown(Walk[n], cs, m, IF n <= m THEN n ELSE m)
           S == {n \in Nat : Reached(n)}
<1>2. 0 \in S
  <2>1. Len(<<Start>>) = 1 /\ <<Start>>[1] = Start
    OBVIOUS
  <2>2. WentDown(<<Start>>, cs, m, 0)
    BY <1>1, <2>1 DEF WentDown
  <2>3. Walk[0] = <<Start>>
    BY WalkDefined
  <2>4. Reached(0)
    BY <1>1, <2>2, <2>3
  <2> QED
    BY <2>4
<1>3. ASSUME NEW n \in Nat, n \in S
      PROVE  n + 1 \in S
  <2>1. Walk[n + 1] = WalkOn(Walk[n]) /\ Walk[n] \in Walked
    BY WalkDefined
  <2>2. CASE n < m
    <3>1. WentDown(Walk[n], cs, m, n)
      BY <1>1, <1>3, <2>2
    <3>2. WentDown(WalkOn(Walk[n]), cs, m, n + 1)
      BY <2>1, <2>2, <3>1, GoesDown
    <3> QED
      BY <1>1, <2>1, <2>2, <3>2
  <2>3. CASE n >= m
    <3>1. WentDown(Walk[n], cs, m, m)
      BY <1>1, <1>3, <2>3
    <3>2. WalkOn(Walk[n]) = Walk[n]
      BY <1>1, <2>1, <3>1, GoesDown
    <3> QED
      BY <1>1, <2>1, <2>3, <3>1, <3>2
  <2> QED
    BY <1>1, <2>2, <2>3
<1> HIDE DEF S
<1>4. \A n \in Nat : n \in S
  BY <1>2, <1>3, SetInduction
<1> QED
  BY <1>1, <1>4 DEF S

\* The trace is the calls from the m-th on outwards.
LEMMA TraceOf ==
  ASSUME TypeOK, NEW cs, Walkable(cs), NEW m \in 0..Len(cs), Names(Start, cs, m)
  PROVE  /\ Len(Trace) = m /\ (m = 0 => Trace = <<>>)
         /\ \A i \in 1..m :
              /\ EntryOf(i).method = cs[i].named
              /\ cs[i].method \in Managed =>
                   /\ EntryOf(i).bp = cs[i].bp /\ EntryOf(i).prv = cs[i].prv
                   /\ i < m \/ AtCall(Start, cs, i) => EntryOf(i).instruction = cs[i].at
<1> DEFINE w == Walk[2 * StackCapacity]
<1>1. m \in Nat /\ m <= Len(cs) /\ StackCapacity \in Nat /\ 2 * StackCapacity \in Nat
  BY ThreadAssumption DEF Walkable
<1>2. m <= 2 * StackCapacity
  BY <1>1, CallsFit DEF Walkable
<1>3. WentDown(w, cs, m, m)
  BY <1>1, <1>2, WalkIs
<1>4. Trace = [j \in 1..Len(w) - 1 |->
        IF w[j].frame.method # Null
        THEN [method |-> w[j].frame.method, prv |-> w[j].frame.prv,
              bp |-> w[j].frame.bp, instruction |-> w[j].frame.ip - 1]
        ELSE [method |-> w[j].native, prv |-> w[j].frame.prv,
              bp |-> 0, instruction |-> 0]]
  BY DEF Trace
<1> HIDE DEF w
<1>5. Len(w) = m + 1 /\ Len(w) - 1 = m
  BY <1>1, <1>3 DEF WentDown
<1>6. Trace = [j \in 1..m |->
        IF w[j].frame.method # Null
        THEN [method |-> w[j].frame.method, prv |-> w[j].frame.prv,
              bp |-> w[j].frame.bp, instruction |-> w[j].frame.ip - 1]
        ELSE [method |-> w[j].native, prv |-> w[j].frame.prv,
              bp |-> 0, instruction |-> 0]]
  BY <1>4, <1>5
<1>7. Len(Trace) = m /\ (m = 0 => Trace = <<>>)
  BY <1>1, <1>6
<1>8. ASSUME NEW i \in 1..m
      PROVE  /\ EntryOf(i).method = cs[i].named
             /\ cs[i].method \in Managed =>
                   /\ EntryOf(i).bp = cs[i].bp /\ EntryOf(i).prv = cs[i].prv
                   /\ i < m \/ AtCall(Start, cs, i) => EntryOf(i).instruction = cs[i].at
  <2> DEFINE j == m - i + 1
  <2>1. j \in 1..m /\ j \in 1..m + 1 /\ m - j + 1 = i /\ i # 0 /\ i > 0 /\ (i < m => j > 1)
    BY <1>1
  <2>2. EntryOf(i) = Trace[j]
    BY <1>7 DEF EntryOf
  <2>3. cs[i] \in Activation
    BY <1>1 DEF Walkable
  <2>4. cs[i].method \in Methods /\ cs[i].at \in Nat
    BY <2>3 DEF Activation
  <2>8. ~(i < m) => j = 1
    BY <1>1
  <2> HIDE DEF j
  <2>5. Names(w[j], cs, i) /\ (i < m \/ AtCall(Start, cs, i) => AtCall(w[j], cs, i))
    <3>1. i < m => AtCall(w[j], cs, i)
      BY <1>3, <2>1 DEF WentDown
    <3>2. ~(i < m) => w[j] = Start
      BY <1>3, <2>1, <2>8 DEF WentDown
    <3> QED
      BY <1>3, <2>1, <3>1, <3>2 DEF WentDown
  <2>6. CASE cs[i].method \in Managed
    <3>1. /\ w[j].frame.method = cs[i].method /\ w[j].frame.prv = cs[i].prv
          /\ w[j].frame.bp = cs[i].bp /\ cs[i].method # Null
          /\ i < m \/ AtCall(Start, cs, i) => w[j].frame.ip = cs[i].at + 1
      BY <2>1, <2>5, <2>6, ThreadAssumption DEF Names, AtCall, Methods
    <3>2. Trace[j] = [method |-> w[j].frame.method, prv |-> w[j].frame.prv,
                      bp |-> w[j].frame.bp, instruction |-> w[j].frame.ip - 1]
      BY <1>6, <2>1, <3>1
    <3>3. i < m \/ AtCall(Start, cs, i) => w[j].frame.ip - 1 = cs[i].at
      BY <2>4, <3>1
    <3>4. cs[i].named = cs[i].method
      BY <1>1, <2>6 DEF Walkable, InPlace, FrameInPlace
    <3> QED
      BY <2>2, <3>1, <3>2, <3>3, <3>4
  <2>7. CASE cs[i].method \in Native
    <3>1. w[j].frame.method = Null /\ w[j].native = cs[i].named /\ cs[i].method \notin Managed
      BY <2>1, <2>5, <2>7, ThreadAssumption DEF Names
    <3>2. Trace[j].method = w[j].native
      BY <1>6, <2>1, <3>1
    <3> QED
      BY <2>2, <3>1, <3>2
  <2> QED
    BY <2>4, <2>6, <2>7 DEF Methods
<1> QED
  BY <1>7, <1>8

-----------------------------------------------------------------------------
(***************************************************************************)
(* What the walk starts at.  After a failure the thread still has the      *)
(* frame of a call that was given up: the walk finds calls that are no     *)
(* longer in progress, and below them those that are.                      *)
(***************************************************************************)

DirectInv == Direct => precall.prv = Top.prv

\* The calls cs were in progress when native code gave up.
GivenUp(cs) ==
  /\ Walkable(cs) /\ Len(cs) > Len(calls)
  /\ \A i \in DOMAIN calls : cs[i] = calls[i]
  /\ cs[Len(cs)].method \in Native /\ frame = cs[Len(cs)].caller

GivenUpInv == failed => \E cs \in Seq(Activation) : GivenUp(cs)

TraceInv == DirectInv /\ GivenUpInv

\* A native method that native code runs directly calls nobody.
DirectIsLast ==
  Inv /\ Direct => /\ Len(calls) \in DOMAIN calls /\ Top = calls[Len(calls)]
                   /\ Top.via = "api" /\ Top.method \in Native

LEMMA DirectBefore == DirectIsLast
  BY TopFacts DEF DirectIsLast, Direct, Inv

LEMMA DirectAfter == DirectIsLast'
  BY DirectBefore, PTL

LEMMA LastIsDirect ==
  ASSUME Inv, NEW i \in DOMAIN calls, RunDirectly(i)
  PROVE  i = Len(calls) /\ Top = calls[i] /\ Direct
<1>1. TypeOK /\ calls \in Seq(Activation) /\ InPlace(calls, heads, i)
  BY DEF Inv, TypeOK, CallsInv
<1>2. i = Len(calls)
  BY <1>1 DEF RunDirectly, InPlace, NativeInPlace
<1>3. Top = calls[i]
  <2>1. ~Idle
    BY <1>1 DEF Idle
  <2> QED
    BY <1>1, <1>2, <2>1, TopFacts
<1> QED
  BY <1>2, <1>3 DEF RunDirectly, Direct

\* The calls in progress, but for a native method that native code runs
\* directly, can be walked over.
Under == IF Direct THEN SubSeq(calls, 1, Len(calls) - 1) ELSE calls

LEMMA UnderWalkable ==
  ASSUME Inv
  PROVE  /\ Walkable(Under) /\ Len(Under) \in Nat
         /\ Len(Under) = IF Direct THEN Len(calls) - 1 ELSE Len(calls)
         /\ \A i \in 1..Len(Under) : Under[i] = calls[i]
<1> DEFINE k == IF Direct THEN Len(calls) - 1 ELSE Len(calls)
<1>1. TypeOK /\ CallsInv /\ calls \in Seq(Activation)
  BY DEF Inv, TypeOK
<1>2. k \in 0..Len(calls) /\ (Direct => k < Len(calls))
  BY <1>1, DirectBefore DEF DirectIsLast
<1>3. Under = SubSeq(calls, 1, k)
  BY <1>1 DEF Under
<1> HIDE DEF k
<1>4. /\ Under \in Seq(Activation) /\ Len(Under) = k
      /\ \A i \in 1..k : Under[i] = calls[i]
      /\ \A i \in DOMAIN Under : InPlace(Under, heads, i)
  BY <1>1, <1>2, <1>3, PrefixInPlace DEF CallsInv
<1>5. ASSUME NEW i \in DOMAIN Under, Under[i].method \in Native
      PROVE  Under[i].via = "inline"
  <2>1. i \in 1..k /\ i \in DOMAIN calls /\ Under[i] = calls[i] /\ Under[i] \in Activation
    BY <1>1, <1>2, <1>4
  <2>2. ~RunDirectly(i)
    BY <1>1, <1>2, <2>1, LastIsDirect
  <2> QED
    BY <1>5, <2>1, <2>2 DEF RunDirectly, Activation
<1> QED
  BY <1>2, <1>4, <1>5 DEF Walkable, k

\* The calls in progress can be walked over.
LEMMA CallsWalkable ==
  ASSUME Inv, ~Direct
  PROVE  Walkable(calls)
  BY UnderWalkable DEF Under

\* A call fails, and all that it called are given up.
LEMMA FailNativeGivesUp ==
  ASSUME Inv, FailNative
  PROVE  GivenUpInv' /\ ~Direct'
<1> DEFINE k == Outermost - 1
<1>1. /\ TypeOK /\ CallsInv /\ ~Idle /\ calls \in Seq(Activation) /\ Top.via = "inline"
      /\ Top.method \notin Managed
      /\ frame' = Top.caller /\ heads' = heads /\ calls' = SubSeq(calls, 1, k)
  BY NativeFacts DEF FailNative, InNative, TypeOK
<1>2. Outermost \in DOMAIN calls
  BY <1>1, OutermostFacts
<1>3. k \in Nat /\ k < Len(calls) /\ Len(calls) \in Nat
  BY <1>1, <1>2
<1> HIDE DEF k
<1>4. Len(calls') = k /\ DOMAIN calls' = 1..k /\ \A i \in 1..k : calls'[i] = calls[i]
  BY <1>1, <1>3
<1>5. Top = calls[Len(calls)] /\ Top.method \in Native
  BY <1>1, TopFacts DEF Methods
<1>6. ~Direct
  BY <1>1 DEF Direct
<1>7. Walkable(calls)
  BY <1>6, CallsWalkable
<1>8. PICK cs \in Seq(Activation) : cs = calls
  BY <1>1
<1>9. Walkable(cs)'
  BY <1>1, <1>7, <1>8 DEF Walkable
<1>10. GivenUp(cs)'
  BY <1>1, <1>3, <1>4, <1>5, <1>8, <1>9 DEF GivenUp
<1>11. ~Direct'
  <2> SUFFICES ASSUME Direct' PROVE FALSE
    OBVIOUS
  <2>1. Inv'
    BY FailNativeStep
  <2>2. k \in DOMAIN calls' /\ calls'[k].via = "api" /\ calls'[k].method \in Native
    BY <1>4, <2>1, DirectAfter DEF DirectIsLast
  <2>3. calls'[k] = cs[k] /\ k \in DOMAIN cs
    BY <1>1, <1>3, <1>4, <1>8, <2>2
  <2> QED
    BY <1>9, <2>2, <2>3 DEF Walkable
<1> QED
  BY <1>10, <1>11 DEF GivenUpInv

\* Nobody else runs a native method directly.
LEMMA NotDirect ==
  ASSUME Inv', calls' = <<>> \/ Top'.via # "api" \/ Top'.method \notin Native
  PROVE  ~Direct'
<1>1. calls' = <<>> => Len(calls') \notin DOMAIN calls'
  OBVIOUS
<1> QED
  BY <1>1, DirectAfter DEF DirectIsLast

\* What returns goes back to a call that is not direct.
LEMMA ReturnNotDirect ==
  ASSUME Inv, Inv', ~Idle, NEW resumed, calls' = Returned(resumed)
  PROVE  ~Direct'
<1> DEFINE n == Len(calls)
           k == n - 1
           rest == SubSeq(calls, 1, n - 1)
<1>1. TypeOK /\ CallsInv /\ calls \in Seq(Activation) /\ n \in Nat /\ n > 0
  BY DEF Inv, TypeOK, Idle
<1>2. /\ rest \in Seq(Activation) /\ Len(rest) = k /\ DOMAIN rest = 1..k /\ k \in Nat
      /\ \A i \in 1..k : rest[i] = calls[i] /\ i \in DOMAIN calls
      /\ k # n
  <2>1. k \in Nat /\ k # n
    <3> HIDE DEF n
    <3> QED
      BY <1>1
  <2>2. /\ rest \in Seq(Activation) /\ Len(rest) = k /\ DOMAIN rest = 1..k
        /\ \A i \in 1..k : rest[i] = calls[i] /\ i \in DOMAIN calls
    BY <1>1, Shortened
  <2> QED
    BY <2>1, <2>2
<1>3. calls' \in Seq(Activation)
  BY DEF Inv, TypeOK, Activation, Frame, Address, Methods
<1> HIDE DEF k
<1>4. CASE k = 0
  <2>1. rest = <<>>
    BY <1>2, <1>4
  <2>2. calls' = <<>>
    BY <2>1 DEF Returned
  <2> QED
    BY <2>2, NotDirect
<1>5. CASE k > 0
  <2>1. rest # <<>> /\ k \in 1..k /\ rest[k] = calls[k] /\ k \in DOMAIN calls
    <3> HIDE DEF rest
    <3> QED
      BY <1>2, <1>5
  <2>2. calls[k] \in Activation
    BY <1>1, <2>1
  <2>3. CASE calls[k].method \in Managed
    <3>1. calls' = [rest EXCEPT ![k].at = resumed.ip,
                       ![k].low = resumed.bp - FrameCapacity[rest[k].method]]
      BY <1>2, <2>1, <2>3 DEF Returned
    <3>2. calls'[k] = [rest[k] EXCEPT !.at = resumed.ip,
                         !.low = resumed.bp - FrameCapacity[rest[k].method]]
      BY <1>2, <2>1, <3>1
    <3>3. calls'[k].method = calls[k].method
      BY <2>1, <2>2, <3>2 DEF Activation
    <3>4. Len(calls') = k /\ calls' # <<>>
      <4>1. DOMAIN calls' = 1..k
        BY <1>2, <3>1
      <4> QED
        BY <1>2, <1>3, <1>5, <4>1
    <3>5. Top' = calls'[k]
      BY <3>4 DEF Top, Idle
    <3> QED
      BY <2>3, <3>3, <3>5, NotDirect, ThreadAssumption
  <2>4. CASE calls[k].method \notin Managed
    <3>1. calls' = rest
      BY <1>2, <2>1, <2>4 DEF Returned
    <3>2. Top' = calls[k]
      BY <1>2, <2>1, <3>1 DEF Top, Idle
    <3>3. ~RunDirectly(k)
      BY <1>2, <2>1, LastIsDirect DEF n
    <3> QED
      BY <3>2, <3>3, NotDirect DEF RunDirectly
  <2> QED
    BY <2>3, <2>4
<1> QED
  BY <1>2, <1>4, <1>5

\* Nothing but native code runs after a failure, and it only gives up.
LEMMA FailedSteps ==
  ASSUME Inv, failed, Next
  PROVE  Reset \/ ReturnDirect \/ FailNative
<1>1. Top.method \notin Managed /\ ~allocating
  BY DEF Inv, FailedInv, AllocatingInv
<1>2. ~MayCall /\ ~InManaged
  BY <1>1 DEF MayCall, InManaged
<1>3. \A m \in Methods : ~Precall(m) /\ ~RunNativeMethod(m)
  BY <1>2 DEF Precall, RunNativeMethod
<1>4. \A m \in Managed : ~RunMethod(m) /\ ~RunMethodOverflow(m)
  BY <1>2 DEF RunMethod, RunMethodOverflow
<1>5. \A m \in Methods, base \in 0..StackCapacity :
        ~EnterManaged(m, base) /\ ~EnterOverflow(m, base) /\ ~EnterNative(m, base)
  BY <1>2 DEF EnterManaged, EnterOverflow, EnterNative, CallSite
<1>6. ~Execute /\ ~BeginAllocation /\ ~EndAllocation /\ ~FailAllocation
  BY <1>1, <1>2 DEF Execute, BeginAllocation, EndAllocation, FailAllocation
<1>7. ~ExitInline /\ ~ExitReentrant /\ ~ExitRoot /\ ~ReturnNative
  BY <1>2 DEF ExitInline, ExitReentrant, ExitRoot, Returning, ReturnNative
<1>8. Native \subseteq Methods
  BY DEF Methods
<1> QED
  BY <1>3, <1>4, <1>5, <1>6, <1>7, <1>8 DEF Next

LEMMA InitTrace == Init => TraceInv
<1> SUFFICES ASSUME Init PROVE TraceInv
  OBVIOUS
<1>1. Top = Program /\ ~failed
  BY DEF Init, Top, Idle
<1> QED
  BY <1>1, ProgramFacts DEF TraceInv, DirectInv, GivenUpInv, Direct

\* Native code runs a native method directly right after Precall.
LEMMA DirectStep ==
  ASSUME Inv, Inv', DirectInv, ~failed, Next
  PROVE  DirectInv'
<1>1. TypeOK /\ (Direct => ~Idle) /\ (Direct => Top.method \notin Managed)
  BY TopFacts, ThreadAssumption DEF Inv, Direct
<1>2. CASE \E m \in Methods : Precall(m)
  <2>1. ~Direct /\ calls' = calls
    BY <1>2 DEF Precall, MayCall, Direct
  <2>2. Top' = Top
    BY <2>1 DEF Top, Idle, Program, Call
  <2> QED
    BY <2>1, <2>2 DEF DirectInv, Direct
<1>3. CASE \E m \in Native : RunNativeMethod(m)
  <2>1. PICK m \in Native : RunNativeMethod(m)
    BY <1>3
  <2> DEFINE c == Call(m, "api", precall.prv, 0, precall.bp, insertion)
             cs == Named(m)
  <2>2. calls' = Append(cs, c) /\ precall' = precall
    BY <2>1 DEF RunNativeMethod
  <2>3. cs \in Seq(Activation)
    BY <2>1, NamedInPlace DEF RunNativeMethod
  <2> HIDE DEF cs
  <2>4. calls' # <<>> /\ calls'[Len(calls')] = c
    <3> DEFINE S == Activation \cup {c}
    <3>1. cs \in Seq(S) /\ c \in S
      BY <2>3
    <3> HIDE DEF S, c
    <3> QED
      BY <2>2, <3>1
  <2>5. Top' = c
    BY <2>4 DEF Top, Idle
  <2> QED
    BY <2>2, <2>5 DEF DirectInv, Call
<1>4. CASE \E m \in Managed : RunMethod(m)
  <2>1. PICK m \in Managed : RunMethod(m)
    BY <1>4
  <2>2. PICK c \in Activation : c.method = m /\ calls' = Append(calls, c)
    <3> DEFINE c == Call(m, "api", precall.prv, precall.bp - HeadRoom(TRUE, ThroughNative),
                         precall.bp - HeadRoom(TRUE, ThroughNative) - FrameCapacity[m],
                         insertion)
    <3>1. calls' = Append(calls, c) /\ c.method = m
      BY <2>1 DEF RunMethod, Call
    <3> HIDE DEF c
    <3>2. calls' \in Seq(Activation) /\ calls \in Seq(Activation)
      BY <1>1 DEF Inv, TypeOK, Activation, Frame, Address, Methods
    <3>3. calls'[Len(calls) + 1] = c /\ Len(calls) + 1 \in DOMAIN calls'
      BY <3>1, <3>2
    <3> QED
      BY <3>1, <3>2, <3>3
  <2>3. Top' = c
    BY <1>1, <2>2 DEF Top, Idle, TypeOK
  <2> QED
    BY <2>2, <2>3, ThreadAssumption DEF DirectInv, Direct
<1>5. CASE \/ \E m \in Managed : RunMethodOverflow(m)
           \/ \E m \in Methods, base \in 0..StackCapacity : EnterOverflow(m, base)
           \/ BeginAllocation \/ FailAllocation
  <2>1. calls' = calls /\ precall' = precall
    BY <1>5 DEF RunMethodOverflow, EnterOverflow, BeginAllocation, FailAllocation
  <2>2. Top' = Top
    BY <2>1 DEF Top, Idle, Program, Call
  <2> QED
    BY <2>1, <2>2 DEF DirectInv, Direct
<1>6. CASE Reset
  BY <1>6 DEF Reset
<1>7. CASE Execute \/ EndAllocation
  <2>1. /\ Top.method \in Managed /\ calls' = At(Top.at + 1)
    BY <1>7 DEF Execute, EndAllocation, InManaged, Inv, AllocatingInv
  <2>2. /\ Len(calls) \in DOMAIN calls /\ Top = calls[Len(calls)] /\ Top \in Activation
        /\ calls \in Seq(Activation)
    BY <1>1, <2>1, TopFacts DEF Methods, TypeOK
  <2>3. calls'[Len(calls)] = [Top EXCEPT !.at = Top.at + 1] /\ Len(calls') = Len(calls)
        /\ calls' # <<>>
    <3>1. DOMAIN calls' = 1..Len(calls) /\ Len(calls) \in Nat
      BY <2>1, <2>2 DEF At
    <3>2. calls' \in Seq(Activation)
      BY DEF Inv, TypeOK, Activation, Frame, Address, Methods
    <3> QED
      BY <2>1, <2>2, <3>1, <3>2 DEF At
  <2>4. Top'.method = Top.method
    BY <2>2, <2>3 DEF Top, Idle, Activation
  <2> QED
    BY <2>1, <2>4, ThreadAssumption DEF DirectInv, Direct
<1>8. CASE \E m \in Methods, base \in 0..StackCapacity :
             EnterManaged(m, base) \/ EnterNative(m, base)
  <2>1. PICK m \in Methods, base \in 0..StackCapacity :
          EnterManaged(m, base) \/ EnterNative(m, base)
    BY <1>8
  <2>2. PICK c : c.via = "inline" /\ calls' = Called(c, base)
    BY <2>1 DEF EnterManaged, EnterNative, Call
  <2>3. calls \in Seq(Activation)
    BY <1>1 DEF TypeOK
  <2> DEFINE cs == [calls EXCEPT ![Len(calls)].low = base]
  <2>4. calls' = Append(cs, c) /\ DOMAIN cs = DOMAIN calls
    BY <2>2 DEF Called
  <2>5. cs \in Seq({cs[i] : i \in DOMAIN cs})
    <3>1. Len(calls) \in Nat /\ DOMAIN calls = 1..Len(calls)
      BY <2>3, InSequence
    <3> QED
      BY <2>4, <3>1, AsSequence
  <2> HIDE DEF cs
  <2>6. Len(cs) \in Nat /\ Len(calls') = Len(cs) + 1 /\ calls'[Len(cs) + 1] = c /\ calls' # <<>>
    <3> DEFINE S == {cs[i] : i \in DOMAIN cs} \cup {c}
    <3>1. cs \in Seq(S) /\ c \in S
      BY <2>5
    <3> HIDE DEF S
    <3> QED
      BY <2>4, <3>1
  <2>7. Top' = c
    BY <2>6 DEF Top, Idle
  <2> QED
    BY <2>2, <2>7 DEF DirectInv, Direct
<1>9. CASE ExitInline \/ ExitReentrant \/ ExitRoot \/ ReturnNative \/ ReturnDirect
  <2>1. \E resumed : calls' = Returned(resumed)
    BY <1>9 DEF ExitInline, ExitReentrant, ExitRoot, ReturnNative, ReturnDirect
  <2>2. ~Idle
    BY <1>1, <1>9, TopFacts DEF ExitInline, ExitReentrant, ExitRoot, Returning, InManaged,
       ReturnNative, ReturnDirect, Methods
  <2> QED
    BY <2>1, <2>2, ReturnNotDirect DEF DirectInv
<1>10. CASE FailNative
  BY <1>10, FailNativeGivesUp DEF DirectInv
<1> QED
  BY <1>2, <1>3, <1>4, <1>5, <1>6, <1>7, <1>8, <1>9, <1>10 DEF Next

LEMMA NextTrace == Inv /\ TraceInv /\ [Next]_vars => TraceInv'
<1> SUFFICES ASSUME Inv, TraceInv, [Next]_vars PROVE TraceInv'
  OBVIOUS
<1>1. Inv' /\ DirectInv /\ GivenUpInv
  BY NextInv DEF TraceInv
<1>2. CASE UNCHANGED vars
  <2>1. /\ UNCHANGED <<frame, precall, insertion, active, heads, calls, failed>>
        /\ Top' = Top
    BY <1>2 DEF vars, Top, Idle, Program, Call
  <2>2. DirectInv'
    BY <1>1, <2>1 DEF DirectInv, Direct
  <2>3. failed => \E cs \in Seq(Activation) : GivenUp(cs)'
    <3> SUFFICES ASSUME failed PROVE \E cs \in Seq(Activation) : GivenUp(cs)'
      OBVIOUS
    <3>1. PICK cs \in Seq(Activation) : GivenUp(cs)
      BY <1>1 DEF GivenUpInv
    <3>2. GivenUp(cs)'
      BY <2>1, <3>1 DEF GivenUp, Walkable
    <3> QED
      BY <3>2
  <2> QED
    BY <2>1, <2>2, <2>3 DEF TraceInv, GivenUpInv
<1>3. CASE FailNative
  BY <1>3, FailNativeGivesUp DEF TraceInv, DirectInv
<1>4. CASE Next /\ ~failed /\ ~FailNative
  <2>1. ~failed'
    BY <1>4 DEF Next, Precall, RunNativeMethod, RunMethod, RunMethodOverflow, Reset, Execute,
       EnterManaged, EnterOverflow, EnterNative, BeginAllocation, EndAllocation,
       FailAllocation, ExitInline, ExitReentrant, ExitRoot, ReturnNative, ReturnDirect
  <2> QED
    BY <1>1, <1>4, <2>1, DirectStep DEF TraceInv, GivenUpInv
<1>5. CASE Next /\ failed /\ ~FailNative
  <2>1. Reset \/ ReturnDirect
    BY <1>5, FailedSteps
  <2>2. CASE Reset
    <3>1. ~failed' /\ calls' = <<>>
      BY <2>2 DEF Reset, Idle
    <3>2. ~Direct'
      BY <1>1, <3>1, NotDirect
    <3> QED
      BY <3>1, <3>2 DEF TraceInv, DirectInv, GivenUpInv
  <2>3. CASE ReturnDirect
    <3>1. Direct
      BY <2>3, TopFacts DEF ReturnDirect, InNative, Inv, Direct, Methods
    <3> DEFINE n == Len(calls)
    <3>2. /\ calls \in Seq(Activation) /\ n \in DOMAIN calls
          /\ calls[n].via = "api" /\ calls[n].method \in Native
      BY <3>1, DirectBefore DEF DirectIsLast, Inv, TypeOK
    <3>3. PICK cs \in Seq(Activation) : GivenUp(cs)
      BY <1>1, <1>5 DEF GivenUpInv
    <3>4. cs[n] = calls[n] /\ n \in DOMAIN cs
      BY <3>2, <3>3 DEF GivenUp
    <3>5. FALSE
      BY <3>2, <3>3, <3>4 DEF GivenUp, Walkable
    <3> QED
      BY <3>5
  <2> QED
    BY <2>1, <2>2, <2>3
<1> QED
  BY <1>2, <1>3, <1>4, <1>5

-----------------------------------------------------------------------------
(***************************************************************************)
(* The trace.                                                              *)
(***************************************************************************)

LEMMA TracedType ==
  ASSUME Inv
  PROVE  /\ calls \in Seq(Activation) /\ Len(calls) \in Nat /\ TypeOK
         /\ Traced \in 0..Len(calls) /\ Traced \in 0..Len(Under)
         /\ Top.method \in Native => /\ Len(calls) > 0 /\ Traced < Len(calls)
                                     /\ Top = calls[Len(calls)] /\ ~Idle
         /\ Top.method \in Native /\ ~Direct => Traced = Len(calls) - 1
         /\ Direct => Traced = IF Len(calls) > 1 THEN Len(calls) - 2 ELSE 0
         /\ Top.method \notin Native => Traced = Len(calls)
<1>1. TypeOK /\ calls \in Seq(Activation)
  BY DEF Inv, TypeOK
<1>2. Top.method \in Native => /\ ~Idle /\ Len(calls) > 0 /\ Top = calls[Len(calls)]
  BY <1>1, TopFacts DEF Methods
<1>3. Direct => Top.method \in Native
  BY DEF Direct
<1>4. Len(Under) = IF Direct THEN Len(calls) - 1 ELSE Len(calls)
  BY UnderWalkable
<1> QED
  BY <1>1, <1>2, <1>3, <1>4 DEF Traced

\* If nothing failed the walk starts at the innermost call that has an entry;
\* a compiled method that called native code is at its call.
LEMMA StartsAtCalls ==
  ASSUME Inv, MayCollect, ~failed
  PROVE  /\ Names(Start, calls, Traced)
         /\ Top.method \in Native => AtCall(Start, calls, Traced)
<1> DEFINE n == Len(calls)
<1>1. /\ TypeOK /\ CallsInv /\ RunsInv /\ calls \in Seq(Activation) /\ n \in Nat
      /\ DOMAIN calls = 1..n
  BY DEF Inv, TypeOK
<1>2. Start.frame = frame /\ ~Start.aboveNative
  BY DEF Start, NoHead
<1>3. CASE Top.method \in Managed
  <2>1. /\ n \in DOMAIN calls /\ n # 0 /\ Top = calls[n] /\ Top.method \notin Native /\ Traced = n
        /\ frame.method = Top.method /\ frame.bp = Top.bp /\ frame.prv = Top.prv
    BY <1>3, ManagedFacts, TracedType, ThreadAssumption
  <2> QED
    BY <1>2, <2>1 DEF Names
<1>4. CASE Top.method \in Native /\ ~Direct
  <2>1. Top.via = "inline" /\ InNative
    <3>1. Top.via \in {"api", "inline"} /\ Top.method \notin Managed
      <4>1. TypeOK
        BY DEF Inv
      <4>2. Top \in Activation
        BY <1>4, <4>1, TopFacts DEF Methods
      <4> QED
        BY <1>4, <4>2, ThreadAssumption DEF Activation
    <3> QED
      BY <1>4, <3>1 DEF Direct, InNative, MayCollect
  <2>2. /\ n > 1 /\ calls[n - 1].method \in Managed /\ calls[n - 1].method \notin Native
        /\ frame = Resumes(calls[n - 1])
    BY <2>1, NativeFacts, ThreadAssumption
  <2>3. Traced = n - 1 /\ n - 1 # 0
    BY <1>1, <1>4, <2>2, TracedType
  <2> HIDE DEF n
  <2> QED
    BY <1>2, <2>2, <2>3 DEF Names, AtCall, Resumes
<1>5. CASE Top.method \notin Methods
  <2>1. Idle
    BY <1>1, <1>5, TopFacts
  <2>2. frame = NoFrame /\ n = 0 /\ Traced = 0
    BY <1>1, <1>5, <2>1, TracedType DEF RunsInv, Idle, Methods
  <2> QED
    BY <1>2, <1>5, <2>2 DEF Names, CanTrace, NoFrame, Methods
<1>6. CASE Direct
  <2>1. /\ n \in DOMAIN calls /\ n > 0 /\ Top = calls[n] /\ Top.via = "api"
        /\ Top.method \in Native
    BY <1>1, <1>6, DirectBefore DEF DirectIsLast
  <2>2. RunByCaller(calls[n - 1])
    BY <1>1, <2>1 DEF RunsInv
  <2>3. CASE n = 1
    <3>1. frame = NoFrame /\ Traced = 0
      BY <1>6, <2>2, <2>3, TracedType DEF RunByCaller
    <3> QED
      BY <1>2, <3>1 DEF Names, AtCall, CanTrace, NoFrame
  <2>4. CASE n > 1
    <3>1. /\ CalledByNative(calls, n) /\ n - 1 \in DOMAIN calls /\ InPlace(calls, heads, n - 1)
      BY <1>1, <2>1, <2>4 DEF CallsInv, InPlace
    <3>2. calls[n - 1].method \in Native /\ calls[n - 1].via = "inline"
      BY <2>4, <3>1 DEF CalledByNative
    <3>3. /\ CalledByManaged(calls, n - 1) /\ NativeInPlace(calls, n - 1)
      BY <3>1, <3>2 DEF InPlace
    <3>4. /\ n - 1 > 1 /\ n - 1 - 1 = n - 2 /\ n - 2 # 0 /\ Traced = n - 2
      <4>1. Traced = n - 2
        BY <1>6, <2>4, TracedType
      <4>2. n \in Nat /\ n - 1 > 1
        BY <1>1, <3>3 DEF CalledByManaged
      <4> HIDE DEF n
      <4>3. n - 1 - 1 = n - 2 /\ n - 2 # 0
        BY <4>2
      <4> QED
        BY <4>1, <4>2, <4>3
    <3>5. /\ calls[n - 2].method \in Managed /\ calls[n - 2].method \notin Native
          /\ frame = Resumes(calls[n - 2])
      BY <2>2, <2>4, <3>2, <3>3, <3>4, ThreadAssumption
      DEF CalledByManaged, NativeInPlace, RunByCaller
    <3> HIDE DEF n
    <3> QED
      BY <1>2, <3>4, <3>5 DEF Names, AtCall, Resumes
  <2>5. n = 1 \/ n > 1
    BY <1>1, <2>1
  <2> QED
    BY <2>3, <2>4, <2>5
<1> QED
  BY <1>3, <1>4, <1>5, <1>6 DEF Methods

LEMMA TraceIfSound ==
  ASSUME Inv, MayCollect, ~failed
  PROVE  /\ Len(Trace) = Traced /\ (Traced = 0 => Trace = <<>>)
         /\ \A i \in 1..Traced :
              /\ EntryOf(i).method = calls[i].named
              /\ calls[i].method \in Managed =>
                   /\ EntryOf(i).bp = calls[i].bp /\ EntryOf(i).prv = calls[i].prv
                   /\ ~allocating \/ i < Len(calls) => EntryOf(i).instruction = calls[i].at
<1> DEFINE m == Traced
<1>1. /\ m \in 0..Len(calls) /\ m \in 0..Len(Under) /\ TypeOK /\ Walkable(Under)
      /\ Names(Start, calls, m) /\ Len(calls) \in Nat
      /\ \A i \in 1..m : Under[i] = calls[i]
  BY TracedType, UnderWalkable, StartsAtCalls
<1>2. ASSUME NEW i \in 1..m, ~allocating \/ i < Len(calls)
      PROVE  i < m \/ AtCall(Start, calls, i)
  <2>1. CASE Top.method \in Native
    <3>1. i < m \/ i = m
      BY <1>1
    <3> QED
      BY <2>1, <3>1, StartsAtCalls
  <2>2. CASE Top.method \notin Native
    <3>1. m = Len(calls)
      BY <2>2, TracedType
    <3>2. allocating
      <4>1. SUFFICES ASSUME ~allocating PROVE FALSE
        OBVIOUS
      <4>2. Top.method \notin Methods
        BY <2>2, <4>1 DEF MayCollect, InNative, Methods
      <4>3. Idle
        BY <1>1, <4>2, TopFacts
      <4>4. Len(calls) = 0
        BY <4>3 DEF Idle
      <4> QED
        BY <1>1, <1>2, <3>1, <4>4
    <3> QED
      BY <1>2, <3>1, <3>2
  <2> QED
    BY <2>1, <2>2
<1> HIDE DEF m
<1>3. Names(Start, Under, m)
  <2>1. m = 0 \/ m \in 1..m
    BY <1>1
  <2> QED
    BY <1>1, <2>1 DEF Names
<1>4. /\ Len(Trace) = m /\ (m = 0 => Trace = <<>>)
      /\ \A i \in 1..m :
           /\ EntryOf(i).method = Under[i].named
           /\ Under[i].method \in Managed =>
                /\ EntryOf(i).bp = Under[i].bp /\ EntryOf(i).prv = Under[i].prv
                /\ i < m \/ AtCall(Start, Under, i) => EntryOf(i).instruction = Under[i].at
  BY <1>1, <1>3, TraceOf
<1>5. \A i \in 1..m : AtCall(Start, Under, i) <=> AtCall(Start, calls, i)
  BY <1>1 DEF AtCall
<1> QED
  BY <1>1, <1>2, <1>4, <1>5 DEF m

\* After a failure the calls that were given up come first.
LEMMA TraceIfFailed ==
  ASSUME Inv, TraceInv, failed
  PROVE  /\ Len(Trace) >= Traced
         /\ \A i \in 1..Traced :
              /\ EntryOf(i).method = calls[i].named
              /\ calls[i].method \in Managed =>
                   /\ EntryOf(i).bp = calls[i].bp /\ EntryOf(i).prv = calls[i].prv
                   /\ i < Len(calls) => EntryOf(i).instruction = calls[i].at
<1>1. PICK cs \in Seq(Activation) : GivenUp(cs)
  BY DEF TraceInv, GivenUpInv
<1>2. /\ TypeOK /\ Len(calls) \in Nat /\ Traced \in 0..Len(calls) /\ Walkable(cs)
      /\ Len(cs) > Len(calls) /\ DOMAIN calls = 1..Len(calls)
      /\ \A i \in DOMAIN calls : cs[i] = calls[i]
      /\ cs[Len(cs)].method \in Native /\ frame = cs[Len(cs)].caller
  BY <1>1, TracedType DEF GivenUp
<1> DEFINE n == Len(cs)
           m == n - 1
<1>3. n \in Nat /\ n > 0 /\ m \in Nat /\ m >= Len(calls) /\ m \in 0..n /\ n \in DOMAIN cs
  BY <1>1, <1>2
<1> HIDE DEF m
<1>4. /\ n > 1 /\ cs[m].method \in Managed /\ cs[m].method \notin Native /\ m # 0
      /\ frame = Resumes(cs[m])
  <2>1. InPlace(cs, heads, n) /\ cs[n].via = "inline" /\ cs[n].method \in Native
    BY <1>2, <1>3 DEF Walkable
  <2>2. CalledByManaged(cs, n) /\ cs[n].caller = Resumes(cs[n - 1])
    BY <2>1 DEF InPlace, NativeInPlace
  <2> QED
    BY <1>2, <1>3, <2>2, ThreadAssumption DEF CalledByManaged, m
<1> HIDE DEF n
<1>5. Names(Start, cs, m) /\ AtCall(Start, cs, m)
  BY <1>4 DEF Start, Names, AtCall, Resumes
<1>6. /\ Len(Trace) = m
      /\ \A i \in 1..m :
           /\ EntryOf(i).method = cs[i].named
           /\ cs[i].method \in Managed =>
                /\ EntryOf(i).bp = cs[i].bp /\ EntryOf(i).prv = cs[i].prv
                /\ i < m \/ AtCall(Start, cs, i) => EntryOf(i).instruction = cs[i].at
  BY <1>2, <1>3, <1>5, TraceOf DEF n
<1>7. ASSUME NEW i \in 1..Traced
      PROVE  i \in 1..m /\ cs[i] = calls[i] /\ (i < m \/ AtCall(Start, cs, i))
  <2>1. i \in 1..m /\ i \in DOMAIN calls /\ (i < m \/ i = m)
    BY <1>2, <1>3
  <2> QED
    BY <1>2, <1>5, <2>1
<1>8. Len(Trace) >= Traced
  BY <1>2, <1>3, <1>6
<1> QED
  BY <1>6, <1>7, <1>8

LEMMA InvTrace == Inv /\ TraceInv => TraceIsTheCalls
<1> SUFFICES ASSUME Inv, TraceInv, MayCollect
             PROVE  /\ Len(Trace) >= Traced
                    /\ ~failed => Len(Trace) = Traced
                    /\ \A i \in 1..Traced :
                         /\ EntryOf(i).method = calls[i].named
                         /\ calls[i].method \in Managed =>
                              /\ EntryOf(i).bp = calls[i].bp /\ EntryOf(i).prv = calls[i].prv
                              /\ ~allocating \/ i < Len(calls) =>
                                   EntryOf(i).instruction = calls[i].at
  BY DEF TraceIsTheCalls
<1>1. CASE ~failed
  <2>1. Traced \in Nat
    BY TracedType
  <2> QED
    BY <1>1, <2>1, TraceIfSound
<1>2. CASE failed
  <2>1. ASSUME NEW i \in 1..Traced PROVE i < Len(calls)
    <3>1. CASE Top.method \in Native
      BY <3>1, TracedType
    <3>2. CASE Top.method \notin Native
      <4>1. Top.method \notin Managed
        BY <1>2 DEF Inv, FailedInv
      <4>2. Idle
        BY <3>2, <4>1, TopFacts, TracedType DEF Methods
      <4>3. Traced = 0
        BY <3>2, <4>2, TracedType DEF Idle
      <4> QED
        BY <2>1, <4>3
    <3> QED
      BY <3>1, <3>2
  <2> QED
    BY <1>2, <2>1, TraceIfFailed
<1> QED
  BY <1>1, <1>2

LEMMA InvParameters == Inv /\ TraceInv => ParametersVisitedOnce
<1> SUFFICES ASSUME Inv, TraceInv, MayCollect, ~failed, NEW i \in DOMAIN calls,
                    ~(i > 1 /\ RunDirectly(i))
             PROVE  VisitedByCallee(i) # VisitedByCaller(i)
  BY DEF ParametersVisitedOnce
<1>1. /\ calls \in Seq(Activation) /\ Len(calls) \in Nat /\ i \in 1..Len(calls)
      /\ Len(Trace) = Traced /\ Traced \in Nat
  BY TracedType, TraceIfSound
<1>2. CASE RunDirectly(i)
  <2>1. i = 1 /\ i = Len(calls) /\ Top = calls[i] /\ Direct
    BY <1>1, <1>2, LastIsDirect
  <2>2. active = calls[i].method /\ precall.prv = calls[i].prv
    BY <2>1 DEF Inv, RunsInv, RunByCaller, Direct, TraceInv, DirectInv
  <2>3. Trace = <<>>
    <3>1. Traced = IF Len(calls) > 1 THEN Len(calls) - 2 ELSE 0
      BY <2>1, TracedType
    <3>2. Traced = 0
      <4>1. Len(calls) = 1
        BY <2>1
      <4> QED
        BY <3>1, <4>1, ~(1 > 1)
    <3> QED
      BY <3>2, TraceIfSound
  <2>4. VisitedByCallee(i)
    BY <1>2, <2>2, <2>3 DEF VisitedByCallee
  <2>5. i \notin 2..Len(Trace) + 1
    BY <2>1, <2>3
  <2>6. ~VisitedByCaller(i)
    BY <2>5 DEF VisitedByCaller
  <2> QED
    BY <2>4, <2>6, Zenon DEF VisitedByCallee, VisitedByCaller
<1>3. CASE ~RunDirectly(i) /\ i = 1
  BY <1>1, <1>3 DEF VisitedByCallee, VisitedByCaller
<1>4. CASE ~RunDirectly(i) /\ i > 1
  <2> DEFINE j == i - 1
  <2>1. Traced >= Len(calls) - 1 \/ (Direct /\ Len(calls) > 1 /\ Traced = Len(calls) - 2)
    BY <1>1, <1>4, TracedType
  <2>2. Direct => i # Len(calls)
    BY <1>4, DirectBefore DEF DirectIsLast, RunDirectly
  <2>3. /\ j \in 1..Traced /\ j \in DOMAIN calls /\ j < Len(calls)
        /\ i \in 2..Len(Trace) + 1
    BY <1>1, <1>4, <2>1, <2>2
  <2>4. calls[j] \in Activation /\ InPlace(calls, heads, j)
    BY <1>1, <2>3 DEF Inv, CallsInv
  <2>5. calls[j].method \in Methods
    BY <2>4 DEF Activation
  <2>6. /\ EntryOf(j).method = calls[j].named
        /\ calls[j].method \in Managed => EntryOf(j).instruction = calls[j].at
    BY <2>3, TraceIfSound
  <2> HIDE DEF j
  <2>7. CASE calls[j].method \in Native
    <3>1. EntryOf(j).method \in Native
      BY <2>4, <2>6, <2>7 DEF InPlace, NativeInPlace
    <3> QED
      BY <1>4, <2>3, <3>1, ThreadAssumption DEF VisitedByCallee, VisitedByCaller, j
  <2>8. CASE calls[j].method \in Managed
    <3>1. EntryOf(j).method \in Managed
      BY <2>4, <2>6, <2>8 DEF InPlace, FrameInPlace
    <3> QED
      BY <1>4, <2>3, <2>6, <2>8, <3>1, ThreadAssumption DEF VisitedByCallee, VisitedByCaller, j
  <2> QED
    BY <2>5, <2>7, <2>8 DEF Methods
<1> QED
  BY <1>1, <1>2, <1>3, <1>4

\* What a walk starts at, at every instant of every run.
THEOREM TraceInvariance == Spec => []TraceInv
  BY Invariance, InitTrace, NextTrace, PTL DEF Spec

\* Whenever somebody may allocate, the collector's walk over the saved frames
\* (Trace, TraceParent) ends, and finds the calls in progress, all but the
\* native methods at the end, in their order, each where it is, a native method
\* by the name that activeNativeMethod had; after a failure, below those given
\* up.
THEOREM CallsTraced == Spec => []TraceIsTheCalls
  BY Invariance, TraceInvariance, InvTrace, PTL

\* A collection visits the parameters of each call in progress but a native
\* method that another one runs, and none twice: a native caller leaves them to
\* the callee, a compiled caller counts them among its operands at the
\* instruction the walk names.
THEOREM ParametersOnce == Spec => []ParametersVisitedOnce
  BY Invariance, TraceInvariance, InvParameters, PTL

=============
