-------------------------- MODULE ILCompilerProofs --------------------------
(***************************************************************************)
(* Proofs about ILCompiler.                                                *)
(***************************************************************************)
EXTENDS ILCompiler, SequenceTheorems, NaturalInduction

(***************************************************************************)
(* The members of the compiler while a pass runs that fills the lists.     *)
(***************************************************************************)

CompFields ==
  {"opstack", "localstack", "stackjournal", "il", "journal", "actions", "handlers", "recovery",
   "maximum", "meta", "nextID", "lowest", "lastDebug", "v", "ok"}

\* What the members are in every pass.
Shape(c) ==
  /\ c = [f \in CompFields |-> c[f]]
  /\ c.meta = [i \in Labels |-> c.meta[i]]
  /\ c.ok \in BOOLEAN

\* A pass runs whose pushes all reach the lists.
Recording == Generating /\ \A list \in Stacks \cup Outputs : Allocated(list)

ValueFields == {"vst", "type", "offset", "sa", "id", "count", "created", "index", "notNull", "demoted"}
EntryFields == {"start", "type", "offset", "vst", "id", "record"}
SpanFields == {"start", "end", "offset", "type", "parameter"}
MetaFields == {"translated", "validation", "min", "max", "valid"}

IsRecord(v, fields) == v = [f \in fields |-> v[f]]

IsList(s) == Len(s) \in Nat /\ s = [k \in 1..Len(s) |-> s[k]]

IsValue(v) == IsRecord(v, ValueFields) /\ v.vst \in StoredVST \cup {"LocalRef", "Barrier"}

IsEntry(e) == IsRecord(e, EntryFields) /\ e.start \in Int /\ e.offset \in Int

Lists(c) ==
  /\ \A list \in {"opstack", "localstack", "stackjournal", "il", "journal", "actions"} : IsList(c[list])
  /\ \A k \in 1..Len(c.opstack) : IsValue(c.opstack[k])
  /\ \A k \in 1..Len(c.stackjournal) : IsEntry(c.stackjournal[k])
  /\ \A k \in 1..Len(c.journal) : IsRecord(c.journal[k], SpanFields)

\* The entry is of a value that has a place in the frame.
Placed(e) == e.vst \notin {"Barrier", "LocalRef"}

\* The stack journal tells of the locals, then of the operand stack.
Matched(os, ls, sj) ==
  /\ Len(sj) = Len(ls) + Len(os)
  /\ \A k \in 1..Len(ls) : sj[k].offset = ls[k].offset /\ Placed(sj[k])
  /\ \A k \in 1..Len(os) :
       /\ sj[Len(ls) + k].offset = os[k].offset
       /\ Placed(sj[Len(ls) + k]) <=> os[k].vst \in StoredVST

\* The parameters come first, and take no place in the frame of the method.
Leading(ls, n) ==
  /\ n <= Len(ls)
  /\ \A k \in 1..Len(ls) : k <= n \/ ls[k].parameter => ls[k].offset = 0

\* Every value that has a place has one below those of all earlier ones.
Descending(sj, n) ==
  \A k, l \in 1..Len(sj) : k < l =>
    /\ sj[l].offset <= sj[k].offset
    /\ l > n /\ Placed(sj[l]) => sj[l].offset < sj[k].offset

\* Two journals end and begin in turn, or tell of different places.
Apart(p, q) == p.offset = q.offset => p.end <= q.start \/ q.end <= p.start

\* Journals have ended when what is on the stacks began, up to the operation i.
Spans(sj, journal, n, i) ==
  /\ \A k \in 1..Len(sj) : k > n => sj[k].start \in 0..i
  /\ \A k \in 1..Len(journal) : LET q == journal[k] IN ~q.parameter =>
       /\ q.start \in 0..i /\ q.end \in 0..i /\ q.offset \in Int
       /\ \A l \in 1..Len(sj) :
            l > n /\ Placed(sj[l]) /\ sj[l].offset = q.offset => q.end <= sj[l].start
  /\ \A k, l \in 1..Len(journal) :
       k < l /\ ~journal[k].parameter /\ ~journal[l].parameter => Apart(journal[k], journal[l])

StartOf(meta, i) == meta[i].translated + meta[i].validation

\* Operations begin where instructions are, in their order.
Timed(meta, il, i) ==
  \A b \in 0..i :
    /\ b \in Labels /\ IsRecord(meta[b], MetaFields)
    /\ meta[b].translated \in Nat /\ meta[b].validation \in Nat
    /\ StartOf(meta, b) <= Len(il)
    /\ \A a \in 0..i : a < b => StartOf(meta, a) <= meta[b].translated

\* The actions have pushed the r results, the locals and the stored values.
Pushed(os, ls, r) ==
  [k \in 1..r |-> k - 1] \o [k \in 1..Len(ls) |-> ls[k].sa] \o StoredActions(os)

Full(c, i, n, r) ==
  /\ Lists(c)
  /\ Matched(c.opstack, c.localstack, c.stackjournal)
  /\ Leading(c.localstack, n)
  /\ Descending(c.stackjournal, n)
  /\ Spans(c.stackjournal, c.journal, n, i)
  /\ Timed(c.meta, c.il, i)
  /\ Replay(c.actions) = Pushed(c.opstack, c.localstack, r)

\* The journals of a compiled body.
Translated(journal) ==
  /\ \A k \in 1..Len(journal) :
       ~journal[k].parameter => journal[k].start \in Nat /\ journal[k].end \in Nat
  /\ \A k, l \in 1..Len(journal) :
       k < l /\ ~journal[k].parameter /\ ~journal[l].parameter => Apart(journal[k], journal[l])

PassInv ==
  /\ method \in Programs
  /\ instrNum \in -1..Length
  /\ pass \in {"create", "generate", "record", "stitch", "compiled", "rejected"}
  /\ pass = "create" => DOMAIN capacity = {}
  /\ pass = "generate" => DOMAIN capacity = Stacks
  /\ pass \in {"record", "stitch"} => DOMAIN capacity = Stacks \cup Outputs

\* What has been read is of the body.
OpsInv ==
  Running =>
    /\ IsList(decOps)
    /\ \A k \in 1..Len(decOps) : k <= Length /\ decOps[k] \in method.ops[k]
    /\ IF pass # "create" THEN Len(decOps) = Length
       ELSE Len(decOps) = IF instrNum = -1 THEN 0 ELSE instrNum

\* A compiler whose lists are empty.
Emptied(c) ==
  /\ c = [f \in CompFields |-> c[f]] /\ c.ok = TRUE
  /\ c.opstack = <<>> /\ c.localstack = <<>> /\ c.stackjournal = <<>> /\ c.il = <<>>
  /\ c.journal = <<>> /\ c.actions = <<>>

CompInv ==
  /\ Running => Shape(comp) /\ comp.ok
  /\ Running /\ Recording =>
       IF instrNum = -1 THEN Emptied(comp)
       ELSE Full(comp, instrNum - 1, NumParameters, Len(method.returns))
  /\ pass = "compiled" => /\ Len(comp.journal) \in Nat /\ DOMAIN comp.journal = 1..Len(comp.journal)
                          /\ Translated(comp.journal)

IInv == PassInv /\ OpsInv /\ CompInv

-----------------------------------------------------------------------------
(***************************************************************************)
(* Lists.                                                                  *)
(***************************************************************************)

LEMMA ListInSeq ==
  ASSUME NEW s, IsList(s)
  PROVE  s \in Seq({s[k] : k \in 1..Len(s)}) /\ DOMAIN s = 1..Len(s)
<1> DEFINE S == {s[k] : k \in 1..Len(s)}
<1>1. DOMAIN s = 1..Len(s) /\ \A k \in 1..Len(s) : s[k] \in S
  BY DEF IsList
<1> HIDE DEF S
<1>2. s \in [1..Len(s) -> S]
  BY <1>1 DEF IsList
<1>3. s \in UNION {[1..n -> S] : n \in Nat}
  BY <1>2 DEF IsList
<1>4. s \in Seq(S)
  BY <1>3, SeqDef
<1> QED
  BY <1>1, <1>4 DEF S

LEMMA SeqIsList ==
  ASSUME NEW S, NEW s \in Seq(S)
  PROVE  IsList(s)
  BY DEF IsList

LEMMA AppendList ==
  ASSUME NEW s, IsList(s), NEW x
  PROVE  LET t == Append(s, x)
         IN  /\ IsList(t) /\ Len(t) = Len(s) + 1 /\ t[Len(s) + 1] = x
             /\ \A k \in 1..Len(s) : t[k] = s[k]
<1> DEFINE S == {s[k] : k \in 1..Len(s)} \cup {x}
<1>1. s \in Seq({s[k] : k \in 1..Len(s)})
  BY ListInSeq
<1>2. s \in Seq(S) /\ x \in S
  BY <1>1, SeqMonotonic
<1> HIDE DEF S
<1> DEFINE t == Append(s, x)
<1>3. t \in Seq(S) /\ Len(t) = Len(s) + 1 /\ t[Len(s) + 1] = x
      /\ \A k \in 1..Len(s) : t[k] = s[k]
  BY <1>2, AppendProperties
<1> HIDE DEF t
<1>4. IsList(t)
  BY <1>3, SeqIsList
<1> QED
  BY <1>3, <1>4 DEF t

LEMMA FrontList ==
  ASSUME NEW s, IsList(s), s # <<>>
  PROVE  LET t == SubSeq(s, 1, Len(s) - 1)
         IN  /\ Len(s) >= 1 /\ IsList(t) /\ Len(t) = Len(s) - 1
             /\ \A k \in 1..Len(s) - 1 : t[k] = s[k]
<1> DEFINE S == {s[k] : k \in 1..Len(s)}
<1>1. s \in Seq(S)
  BY ListInSeq
<1> HIDE DEF S
<1>2. Len(s) >= 1
  BY <1>1
<1>3. SubSeq(s, 1, Len(s) - 1) = [k \in 1..Len(s) - 1 |-> s[k]]
  BY <1>1, <1>2
<1> QED
  BY <1>1, <1>2, <1>3 DEF IsList

LEMMA EmptyList == IsList(<<>>) /\ Len(<<>>) = 0
  BY DEF IsList

(***************************************************************************)
(* The members.                                                            *)
(***************************************************************************)

LEMMA ShapeExcept ==
  ASSUME NEW c, Shape(c), NEW f \in CompFields, NEW x
  PROVE  LET d == [c EXCEPT ![f] = x]
         IN  /\ d = [g \in CompFields |-> d[g]] /\ d[f] = x
             /\ \A g \in CompFields : g # f => d[g] = c[g]
  BY DEF Shape

LEMMA PushListFields ==
  ASSUME NEW c, Shape(c), NEW list \in Stacks \cup Outputs, NEW x
  PROVE  LET d == PushList(c, list, x)
         IN  /\ Shape(d)
             /\ d[list] = Append(c[list], IF Allocated(list) THEN x ELSE Zeros[list])
             /\ \A g \in CompFields \ {list, "maximum"} : d[g] = c[g]
<1> DEFINE y == IF Allocated(list) THEN x ELSE Zeros[list]
           z == [c.maximum EXCEPT ![list] = Larger(@, Len(c[list]) + 1)]
           d == [g \in CompFields |-> IF g = list THEN Append(c[list], y)
                                      ELSE IF g = "maximum" THEN z ELSE c[g]]
<1>1. list \in CompFields /\ list # "maximum" /\ list # "meta" /\ list # "ok"
  BY DEF Stacks, Outputs, CompFields
<1>2. PushList(c, list, x) = d
  BY <1>1 DEF Shape, PushList
<1> QED
  BY <1>1, <1>2 DEF Shape, CompFields

(***************************************************************************)
(* Actions, replayed.                                                      *)
(***************************************************************************)

ReplayStep(actions, stack, k) ==
  IF actions[k] = "Pop" THEN SubSeq(stack, 1, Len(stack) - 1) ELSE Append(stack, k - 1)

ReplayTo(actions, f, m) ==
  f = [k \in 0..m |-> IF k = 0 THEN <<>> ELSE ReplayStep(actions, f[k - 1], k)]

LEMMA ReplayExists ==
  ASSUME NEW actions, NEW n \in Nat
  PROVE  \E f : ReplayTo(actions, f, n)
<1> DEFINE S == {m \in Nat : \E f : ReplayTo(actions, f, m)}
<1>1. 0 \in S
  <2> DEFINE f == [k \in 0..0 |-> <<>>]
  <2>1. ReplayTo(actions, f, 0)
    BY DEF ReplayTo
  <2> QED
    BY <2>1
<1>2. ASSUME NEW m \in Nat, m \in S
      PROVE  m + 1 \in S
  <2>1. PICK f : ReplayTo(actions, f, m)
    BY <1>2
  <2> DEFINE g == [k \in 0..m + 1 |-> IF k = 0 THEN <<>> ELSE ReplayStep(actions, f[k - 1], k)]
  <2>2. \A k \in 0..m : g[k] = f[k]
    BY <2>1 DEF ReplayTo
  <2>5. \A k \in 0..m + 1 : k # 0 => k - 1 \in 0..m
    OBVIOUS
  <2>3. ReplayTo(actions, g, m + 1)
    BY <2>2, <2>5 DEF ReplayTo
  <2> HIDE DEF g
  <2>4. \E h : ReplayTo(actions, h, m + 1)
    BY <2>3
  <2> QED
    BY <2>4
<1> HIDE DEF S
<1>3. n \in S
  BY <1>1, <1>2, SetInduction
<1> QED
  BY <1>3 DEF S

Agree(a, b, m) == \A k \in 1..m : a[k] = b[k]

LEMMA ReplayUnique ==
  ASSUME NEW a, NEW b, NEW f, NEW g, NEW m \in Nat, NEW n \in Nat, m <= n,
         Agree(a, b, m),
         ReplayTo(a, f, m), ReplayTo(b, g, n)
  PROVE  f[m] = g[m]
<1> DEFINE S == {j \in Nat : j <= m => f[j] = g[j]}
<1>1. 0 \in S
  BY DEF ReplayTo
<1>2. ASSUME NEW j \in Nat, j \in S
      PROVE  j + 1 \in S
  <2> SUFFICES ASSUME j + 1 <= m
               PROVE  f[j + 1] = g[j + 1]
    OBVIOUS
  <2>1. j + 1 \in 0..m /\ j + 1 \in 0..n /\ j + 1 # 0 /\ j + 1 - 1 = j /\ f[j] = g[j]
        /\ a[j + 1] = b[j + 1]
    BY <1>2 DEF Agree
  <2>2. f[j + 1] = ReplayStep(a, f[j], j + 1)
    BY <2>1 DEF ReplayTo
  <2>3. g[j + 1] = ReplayStep(b, g[j], j + 1)
    BY <2>1 DEF ReplayTo
  <2> QED
    BY <2>1, <2>2, <2>3 DEF ReplayStep
<1> HIDE DEF S
<1>3. m \in S
  BY <1>1, <1>2, SetInduction
<1> QED
  BY <1>3 DEF S

LEMMA ReplayIs ==
  ASSUME NEW actions, Len(actions) \in Nat
  PROVE  \E f : ReplayTo(actions, f, Len(actions)) /\ Replay(actions) = f[Len(actions)]
<1> DEFINE f == CHOOSE f : ReplayTo(actions, f, Len(actions))
<1>1. ReplayTo(actions, f, Len(actions))
  BY ReplayExists
<1>2. Replay(actions) = f[Len(actions)]
  BY DEF Replay, ReplayTo, ReplayStep
<1> QED
  BY <1>1, <1>2

\* The last of the actions does what it says to the stack.
LEMMA ReplayAppend ==
  ASSUME NEW actions, IsList(actions), NEW x
  PROVE  Replay(Append(actions, x)) =
           IF x = "Pop" THEN SubSeq(Replay(actions), 1, Len(Replay(actions)) - 1)
           ELSE Append(Replay(actions), Len(actions))
<1> DEFINE more == Append(actions, x)
           n == Len(actions)
<1>1. n \in Nat /\ Len(more) = n + 1 /\ more[n + 1] = x /\ \A k \in 1..n : actions[k] = more[k]
  BY AppendList DEF IsList
<1> HIDE DEF more, n
<1>2. PICK f : ReplayTo(actions, f, n) /\ Replay(actions) = f[n]
  BY <1>1, ReplayIs DEF n
<1>3. PICK g : ReplayTo(more, g, n + 1) /\ Replay(more) = g[n + 1]
  BY <1>1, ReplayIs
<1>8. n + 1 \in Nat /\ n <= n + 1
  BY <1>1
<1>9. Agree(actions, more, n)
  BY <1>1 DEF Agree
<1>4. f[n] = g[n]
  <2>1. \A i, j \in Nat : i <= j /\ Agree(actions, more, i) /\ ReplayTo(actions, f, i)
                           /\ ReplayTo(more, g, j) => f[i] = g[i]
    BY ReplayUnique
  <2> QED
    BY <1>1, <1>2, <1>3, <1>8, <1>9, <2>1
<1>5. n + 1 \in 0..n + 1 /\ n + 1 # 0 /\ n + 1 - 1 = n
  BY <1>1
<1>6. g[n + 1] = ReplayStep(more, g[n], n + 1)
  BY <1>1, <1>3, <1>5 DEF ReplayTo
<1>7. Replay(more) = ReplayStep(more, Replay(actions), n + 1)
  BY <1>2, <1>3, <1>4, <1>6
<1> QED
  BY <1>1, <1>5, <1>7 DEF ReplayStep, more, n

LEMMA ReplayNothing == Replay(<<>>) = <<>>
<1>1. PICK f : ReplayTo(<<>>, f, 0) /\ Replay(<<>>) = f[0]
  BY ReplayIs, EmptyList
<1> QED
  BY <1>1 DEF ReplayTo

StoredStep(values, stored, k) ==
  IF values[k].vst \in StoredVST THEN Append(stored, values[k].sa) ELSE stored

StoredTo(values, f, m) ==
  f = [k \in 0..m |-> IF k = 0 THEN <<>> ELSE StoredStep(values, f[k - 1], k)]

LEMMA StoredExists ==
  ASSUME NEW values, NEW n \in Nat
  PROVE  \E f : StoredTo(values, f, n)
<1> DEFINE S == {m \in Nat : \E f : StoredTo(values, f, m)}
<1>1. 0 \in S
  <2> DEFINE f == [k \in 0..0 |-> <<>>]
  <2>1. StoredTo(values, f, 0)
    BY DEF StoredTo
  <2> QED
    BY <2>1
<1>2. ASSUME NEW m \in Nat, m \in S
      PROVE  m + 1 \in S
  <2>1. PICK f : StoredTo(values, f, m)
    BY <1>2
  <2> DEFINE g == [k \in 0..m + 1 |-> IF k = 0 THEN <<>> ELSE StoredStep(values, f[k - 1], k)]
  <2>2. \A k \in 0..m : g[k] = f[k]
    BY <2>1 DEF StoredTo
  <2>5. \A k \in 0..m + 1 : k # 0 => k - 1 \in 0..m
    OBVIOUS
  <2>3. StoredTo(values, g, m + 1)
    BY <2>2, <2>5 DEF StoredTo
  <2> HIDE DEF g
  <2>4. \E h : StoredTo(values, h, m + 1)
    BY <2>3
  <2> QED
    BY <2>4
<1> HIDE DEF S
<1>3. n \in S
  BY <1>1, <1>2, SetInduction
<1> QED
  BY <1>3 DEF S

\* The same of two values for the purpose of the actions.
SameAction(v, w) == (v.vst \in StoredVST <=> w.vst \in StoredVST) /\ v.sa = w.sa

SameActions(a, b, m) == \A k \in 1..m : SameAction(a[k], b[k])

LEMMA StoredUnique ==
  ASSUME NEW a, NEW b, NEW f, NEW g, NEW m \in Nat, NEW n \in Nat, m <= n,
         SameActions(a, b, m),
         StoredTo(a, f, m), StoredTo(b, g, n)
  PROVE  f[m] = g[m]
<1> DEFINE S == {j \in Nat : j <= m => f[j] = g[j]}
<1>1. 0 \in S
  BY DEF StoredTo
<1>2. ASSUME NEW j \in Nat, j \in S
      PROVE  j + 1 \in S
  <2> SUFFICES ASSUME j + 1 <= m
               PROVE  f[j + 1] = g[j + 1]
    OBVIOUS
  <2>1. j + 1 \in 0..m /\ j + 1 \in 0..n /\ j + 1 # 0 /\ j + 1 - 1 = j /\ f[j] = g[j]
        /\ SameAction(a[j + 1], b[j + 1])
    BY <1>2 DEF SameActions
  <2>2. f[j + 1] = StoredStep(a, f[j], j + 1)
    BY <2>1 DEF StoredTo
  <2>3. g[j + 1] = StoredStep(b, g[j], j + 1)
    BY <2>1 DEF StoredTo
  <2> QED
    BY <2>1, <2>2, <2>3 DEF StoredStep, SameAction
<1> HIDE DEF S
<1>3. m \in S
  BY <1>1, <1>2, SetInduction
<1> QED
  BY <1>3 DEF S

LEMMA StoredIs ==
  ASSUME NEW values, Len(values) \in Nat
  PROVE  \E f : StoredTo(values, f, Len(values)) /\ StoredActions(values) = f[Len(values)]
<1> DEFINE f == CHOOSE f : StoredTo(values, f, Len(values))
<1>1. StoredTo(values, f, Len(values))
  BY StoredExists
<1>2. StoredActions(values) = f[Len(values)]
  BY DEF StoredActions, StoredTo, StoredStep
<1> QED
  BY <1>1, <1>2

LEMMA StoredAppend ==
  ASSUME NEW values, IsList(values), NEW v
  PROVE  StoredActions(Append(values, v)) =
           IF v.vst \in StoredVST THEN Append(StoredActions(values), v.sa)
           ELSE StoredActions(values)
<1> DEFINE more == Append(values, v)
           n == Len(values)
<1>1. n \in Nat /\ Len(more) = n + 1 /\ more[n + 1] = v /\ \A k \in 1..n : values[k] = more[k]
  BY AppendList DEF IsList
<1> HIDE DEF more, n
<1>2. PICK f : StoredTo(values, f, n) /\ StoredActions(values) = f[n]
  BY <1>1, StoredIs DEF n
<1>3. PICK g : StoredTo(more, g, n + 1) /\ StoredActions(more) = g[n + 1]
  BY <1>1, StoredIs
<1>8. n + 1 \in Nat /\ n <= n + 1
  BY <1>1
<1>9. SameActions(values, more, n)
  BY <1>1 DEF SameAction, SameActions
<1>4. f[n] = g[n]
  <2>1. \A i, j \in Nat : i <= j /\ SameActions(values, more, i) /\ StoredTo(values, f, i)
                           /\ StoredTo(more, g, j) => f[i] = g[i]
    BY StoredUnique
  <2> QED
    BY <1>1, <1>2, <1>3, <1>8, <1>9, <2>1
<1>5. n + 1 \in 0..n + 1 /\ n + 1 # 0 /\ n + 1 - 1 = n
  BY <1>1
<1>6. g[n + 1] = StoredStep(more, g[n], n + 1)
  BY <1>1, <1>3, <1>5 DEF StoredTo
<1>7. StoredActions(more) = StoredStep(more, StoredActions(values), n + 1)
  BY <1>2, <1>3, <1>4, <1>6
<1> QED
  BY <1>1, <1>5, <1>7 DEF StoredStep, more, n

LEMMA StoredNothing == StoredActions(<<>>) = <<>>
<1>1. PICK f : StoredTo(<<>>, f, 0) /\ StoredActions(<<>>) = f[0]
  BY StoredIs, EmptyList
<1> QED
  BY <1>1 DEF StoredTo

\* Values may change as long as they are stored where they were.
LEMMA StoredSame ==
  ASSUME NEW v, NEW w, Len(v) \in Nat, Len(w) = Len(v),
         SameActions(v, w, Len(v))
  PROVE  StoredActions(v) = StoredActions(w)
<1>1. PICK f : StoredTo(v, f, Len(v)) /\ StoredActions(v) = f[Len(v)]
  BY StoredIs
<1>2. PICK g : StoredTo(w, g, Len(v)) /\ StoredActions(w) = g[Len(v)]
  BY StoredIs
<1>3. Len(v) <= Len(v)
  OBVIOUS
<1>4. f[Len(v)] = g[Len(v)]
  <2>1. \A i, j \in Nat : i <= j /\ SameActions(v, w, i) /\ StoredTo(v, f, i)
                           /\ StoredTo(w, g, j) => f[i] = g[i]
    BY StoredUnique
  <2> QED
    BY <1>1, <1>2, <1>3, <2>1
<1> QED
  BY <1>1, <1>2, <1>4

LEMMA StoredIsList ==
  ASSUME NEW values, Len(values) \in Nat
  PROVE  IsList(StoredActions(values))
<1>1. PICK f : StoredTo(values, f, Len(values)) /\ StoredActions(values) = f[Len(values)]
  BY StoredIs
<1> DEFINE n == Len(values)
           S == {j \in Nat : j <= n => IsList(f[j])}
<1>2. 0 \in S
  BY <1>1, EmptyList DEF StoredTo
<1>3. ASSUME NEW j \in Nat, j \in S
      PROVE  j + 1 \in S
  <2> SUFFICES ASSUME j + 1 <= n
               PROVE  IsList(f[j + 1])
    OBVIOUS
  <2>1. j + 1 \in 0..n /\ j + 1 # 0 /\ j + 1 - 1 = j /\ IsList(f[j])
    BY <1>3
  <2>2. f[j + 1] = StoredStep(values, f[j], j + 1)
    BY <1>1, <2>1 DEF StoredTo
  <2>3. IsList(Append(f[j], values[j + 1].sa))
    BY <2>1, AppendList
  <2> QED
    BY <2>1, <2>2, <2>3 DEF StoredStep
<1> HIDE DEF S
<1>4. n \in S
  BY <1>2, <1>3, SetInduction
<1> QED
  BY <1>1, <1>4 DEF S

LEMMA ConcatLists ==
  ASSUME NEW s, NEW t, IsList(s), IsList(t), NEW x
  PROVE  /\ IsList(s \o t)
         /\ s \o Append(t, x) = Append(s \o t, x)
         /\ s \o <<>> = s
<1> DEFINE S == {s[k] : k \in 1..Len(s)} \cup {t[k] : k \in 1..Len(t)} \cup {x}
<1>1. s \in Seq({s[k] : k \in 1..Len(s)}) /\ t \in Seq({t[k] : k \in 1..Len(t)})
  BY ListInSeq
<1>2. s \in Seq(S) /\ t \in Seq(S) /\ x \in S
  BY <1>1, SeqMonotonic
<1> HIDE DEF S
<1>3. s \o t \in Seq(S) /\ <<x>> \in Seq(S)
  BY <1>2, ConcatProperties
<1>4. Append(t, x) = t \o <<x>> /\ Append(s \o t, x) = (s \o t) \o <<x>>
  BY <1>2, <1>3, AppendIsConcat
<1>5. (s \o t) \o <<x>> = s \o (t \o <<x>>)
  BY <1>2, <1>3, ConcatAssociative
<1>6. s \o <<>> = s
  BY <1>2, ConcatEmptySeq
<1> QED
  BY <1>3, <1>4, <1>5, <1>6, SeqIsList

LEMMA FrontOfAppend ==
  ASSUME NEW s, IsList(s), NEW x
  PROVE  SubSeq(Append(s, x), 1, Len(Append(s, x)) - 1) = s
<1> DEFINE t == Append(s, x)
           u == SubSeq(t, 1, Len(t) - 1)
<1>1. IsList(t) /\ Len(t) = Len(s) + 1 /\ Len(s) \in Nat /\ \A k \in 1..Len(s) : t[k] = s[k]
  BY AppendList DEF IsList
<1>2. t # <<>>
  BY <1>1, EmptyList
<1>3. IsList(u) /\ Len(u) = Len(t) - 1 /\ \A k \in 1..Len(t) - 1 : u[k] = t[k]
  BY <1>1, <1>2, FrontList
<1> HIDE DEF u, t
<1>4. Len(u) = Len(s) /\ \A k \in 1..Len(s) : u[k] = s[k]
  BY <1>1, <1>3
<1>5. u = [k \in 1..Len(s) |-> u[k]] /\ s = [k \in 1..Len(s) |-> s[k]]
  BY <1>3, <1>4 DEF IsList
<1>6. u = s
  BY <1>4, <1>5
<1> QED
  BY <1>6 DEF u, t

\* A list is its last element after the others.
LEMMA AppendToFront ==
  ASSUME NEW s, IsList(s), s # <<>>
  PROVE  s = Append(SubSeq(s, 1, Len(s) - 1), s[Len(s)])
<1> DEFINE t == SubSeq(s, 1, Len(s) - 1)
           u == Append(t, s[Len(s)])
<1>1. Len(s) >= 1 /\ IsList(t) /\ Len(t) = Len(s) - 1 /\ \A k \in 1..Len(s) - 1 : t[k] = s[k]
  BY FrontList
<1> HIDE DEF t
<1>2. IsList(u) /\ Len(u) = Len(t) + 1 /\ u[Len(t) + 1] = s[Len(s)]
      /\ \A k \in 1..Len(t) : u[k] = t[k]
  BY <1>1, AppendList
<1> HIDE DEF u
<1>3. Len(s) \in Nat /\ Len(u) = Len(s) /\ \A k \in 1..Len(s) : u[k] = s[k]
  BY <1>1, <1>2 DEF IsList
<1>4. u = [k \in 1..Len(s) |-> u[k]] /\ s = [k \in 1..Len(s) |-> s[k]]
  BY <1>2, <1>3 DEF IsList
<1>5. u = s
  BY <1>3, <1>4
<1> QED
  BY <1>5 DEF u, t

(***************************************************************************)
(* What the actions have pushed.                                           *)
(***************************************************************************)

ResultActions(r) == [k \in 1..r |-> k - 1]
LocalActions(ls) == [k \in 1..Len(ls) |-> ls[k].sa]

LEMMA PushedParts ==
  ASSUME NEW os, NEW ls, NEW r \in Nat, IsList(os), IsList(ls)
  PROVE  /\ IsList(ResultActions(r)) /\ Len(ResultActions(r)) = r
         /\ IsList(LocalActions(ls)) /\ Len(LocalActions(ls)) = Len(ls)
         /\ IsList(StoredActions(os))
         /\ IsList(ResultActions(r) \o LocalActions(ls))
         /\ Pushed(os, ls, r) = (ResultActions(r) \o LocalActions(ls)) \o StoredActions(os)
         /\ IsList(Pushed(os, ls, r))
<1>1. IsList(ResultActions(r)) /\ Len(ResultActions(r)) = r
  BY DEF IsList, ResultActions
<1>2. IsList(LocalActions(ls)) /\ Len(LocalActions(ls)) = Len(ls)
  BY DEF IsList, LocalActions
<1>3. IsList(StoredActions(os))
  BY StoredIsList DEF IsList
<1>4. IsList(ResultActions(r) \o LocalActions(ls))
  BY <1>1, <1>2, ConcatLists
<1>5. IsList((ResultActions(r) \o LocalActions(ls)) \o StoredActions(os))
  BY <1>3, <1>4, ConcatLists
<1>6. Pushed(os, ls, r) = (ResultActions(r) \o LocalActions(ls)) \o StoredActions(os)
  BY DEF Pushed, ResultActions, LocalActions
<1> QED
  BY <1>1, <1>2, <1>3, <1>4, <1>5, <1>6

LEMMA PushedValue ==
  ASSUME NEW os, NEW ls, NEW r \in Nat, IsList(os), IsList(ls), NEW v
  PROVE  Pushed(Append(os, v), ls, r) =
           IF v.vst \in StoredVST THEN Append(Pushed(os, ls, r), v.sa) ELSE Pushed(os, ls, r)
<1>1. IsList(Append(os, v))
  BY AppendList
<1> DEFINE A == ResultActions(r) \o LocalActions(ls)
<1>2. /\ Pushed(os, ls, r) = A \o StoredActions(os)
      /\ Pushed(Append(os, v), ls, r) = A \o StoredActions(Append(os, v))
      /\ IsList(A) /\ IsList(StoredActions(os))
  BY <1>1, PushedParts
<1> HIDE DEF A
<1>3. A \o Append(StoredActions(os), v.sa) = Append(A \o StoredActions(os), v.sa)
  BY <1>2, ConcatLists
<1> QED
  BY <1>2, <1>3, StoredAppend

LEMMA PushedLocal ==
  ASSUME NEW ls, NEW r \in Nat, IsList(ls), NEW l
  PROVE  Pushed(<<>>, Append(ls, l), r) = Append(Pushed(<<>>, ls, r), l.sa)
<1>1. IsList(Append(ls, l)) /\ Len(Append(ls, l)) = Len(ls) + 1 /\ Append(ls, l)[Len(ls) + 1] = l
      /\ (\A k \in 1..Len(ls) : Append(ls, l)[k] = ls[k]) /\ Len(ls) \in Nat
  BY AppendList DEF IsList
<1> DEFINE A == ResultActions(r)
           B == LocalActions(ls)
<1>2. /\ Pushed(<<>>, ls, r) = (A \o B) \o StoredActions(<<>>)
      /\ Pushed(<<>>, Append(ls, l), r) = (A \o LocalActions(Append(ls, l))) \o StoredActions(<<>>)
      /\ IsList(A) /\ IsList(B) /\ Len(B) = Len(ls) /\ IsList(A \o B)
      /\ IsList(A \o LocalActions(Append(ls, l)))
  BY <1>1, PushedParts, EmptyList
<1>3. LocalActions(Append(ls, l)) = Append(B, l.sa)
  <2> DEFINE C == LocalActions(Append(ls, l))
             D == Append(B, l.sa)
  <2>1. IsList(D) /\ Len(D) = Len(ls) + 1 /\ D[Len(ls) + 1] = l.sa
        /\ \A k \in 1..Len(ls) : D[k] = B[k]
    BY <1>2, AppendList
  <2>2. D = [k \in 1..Len(ls) + 1 |-> D[k]]
    BY <2>1 DEF IsList
  <2>3. \A k \in 1..Len(ls) : B[k] = ls[k].sa
    BY DEF LocalActions
  <2>4. C = [k \in 1..Len(ls) + 1 |-> Append(ls, l)[k].sa]
    BY <1>1 DEF LocalActions
  <2> HIDE DEF D, B
  <2>5. \A k \in 1..Len(ls) + 1 : D[k] = Append(ls, l)[k].sa
    BY <1>1, <2>1, <2>3
  <2> QED
    BY <2>2, <2>4, <2>5 DEF D
<1> HIDE DEF A, B
<1>4. A \o Append(B, l.sa) = Append(A \o B, l.sa)
  BY <1>2, ConcatLists
<1>5. (A \o B) \o <<>> = A \o B
  BY <1>2, ConcatLists
<1>6. IsList(Append(A \o B, l.sa))
  BY <1>2, AppendList
<1>7. Append(A \o B, l.sa) \o <<>> = Append(A \o B, l.sa)
  BY <1>6, EmptyList, ConcatLists
<1> QED
  BY <1>2, <1>3, <1>4, <1>5, <1>7, StoredNothing

LEMMA PushedResult ==
  ASSUME NEW r \in Nat
  PROVE  Pushed(<<>>, <<>>, r + 1) = Append(Pushed(<<>>, <<>>, r), r)
<1> DEFINE A == ResultActions(r)
           B == ResultActions(r + 1)
           E == LocalActions(<<>>)
<1>1. /\ Pushed(<<>>, <<>>, r) = (A \o E) \o StoredActions(<<>>)
      /\ Pushed(<<>>, <<>>, r + 1) = (B \o E) \o StoredActions(<<>>)
      /\ IsList(A) /\ Len(A) = r /\ IsList(B) /\ Len(B) = r + 1
  <2>1. r + 1 \in Nat
    OBVIOUS
  <2> QED
    BY <2>1, PushedParts, EmptyList
<1>2. E = <<>>
  BY EmptyList DEF LocalActions
<1>3. B = Append(A, r)
  <2>1. IsList(Append(A, r)) /\ Len(Append(A, r)) = r + 1 /\ Append(A, r)[r + 1] = r
        /\ \A k \in 1..r : Append(A, r)[k] = A[k]
    BY <1>1, AppendList
  <2>2. Append(A, r) = [k \in 1..r + 1 |-> Append(A, r)[k]]
    BY <2>1 DEF IsList
  <2>3. \A k \in 1..r : A[k] = k - 1
    BY DEF ResultActions
  <2>4. \A k \in 1..r + 1 : Append(A, r)[k] = k - 1
    <3> HIDE DEF A
    <3> QED BY <2>1, <2>3
  <2> QED
    BY <2>2, <2>4 DEF ResultActions
<1> HIDE DEF A, B, E
<1>4. A \o <<>> = A /\ B \o <<>> = B
  BY <1>1, EmptyList, ConcatLists
<1> QED
  BY <1>1, <1>2, <1>3, <1>4, StoredNothing

-----------------------------------------------------------------------------
(***************************************************************************)
(* The stacks and their journal.                                           *)
(***************************************************************************)

AllButLast(s) == SubSeq(s, 1, Len(s) - 1)

Entries(sj) == IsList(sj) /\ \A k \in 1..Len(sj) : IsEntry(sj[k])

LEMMA PushEntry ==
  ASSUME NEW sj, Entries(sj), NEW e, IsEntry(e)
  PROVE  Entries(Append(sj, e))
<1>1. IsList(Append(sj, e)) /\ Len(Append(sj, e)) = Len(sj) + 1 /\ Append(sj, e)[Len(sj) + 1] = e
      /\ (\A k \in 1..Len(sj) : Append(sj, e)[k] = sj[k]) /\ Len(sj) \in Nat
  BY AppendList DEF Entries, IsList
<1> QED
  BY <1>1 DEF Entries

LEMMA PopEntry ==
  ASSUME NEW sj, Entries(sj), sj # <<>>
  PROVE  Entries(AllButLast(sj)) /\ IsEntry(sj[Len(sj)])
<1>1. Len(sj) >= 1 /\ IsList(AllButLast(sj)) /\ Len(AllButLast(sj)) = Len(sj) - 1
      /\ (\A k \in 1..Len(sj) - 1 : AllButLast(sj)[k] = sj[k]) /\ Len(sj) \in Nat
  BY FrontList DEF Entries, IsList, AllButLast
<1> QED
  BY <1>1 DEF Entries

LEMMA PushMatched ==
  ASSUME NEW os, NEW ls, NEW sj, IsList(os), IsList(ls), Entries(sj), Matched(os, ls, sj),
         NEW v, NEW e, e.offset = v.offset, Placed(e) <=> v.vst \in StoredVST
  PROVE  Matched(Append(os, v), ls, Append(sj, e))
<1>1. Len(Append(sj, e)) = Len(sj) + 1 /\ Append(sj, e)[Len(sj) + 1] = e
      /\ (\A k \in 1..Len(sj) : Append(sj, e)[k] = sj[k]) /\ Len(sj) \in Nat
  BY AppendList DEF Entries, IsList
<1>2. Len(Append(os, v)) = Len(os) + 1 /\ Append(os, v)[Len(os) + 1] = v
      /\ (\A k \in 1..Len(os) : Append(os, v)[k] = os[k]) /\ Len(os) \in Nat
  BY AppendList DEF IsList
<1>3. Len(ls) \in Nat /\ Len(sj) = Len(ls) + Len(os)
  BY DEF IsList, Matched
<1> DEFINE t == Append(sj, e)
           u == Append(os, v)
<1> HIDE DEF t, u
<1>4. ASSUME NEW k \in 1..Len(ls)
      PROVE  t[k].offset = ls[k].offset /\ Placed(t[k])
  <2>1. k \in 1..Len(sj)
    BY <1>2, <1>3
  <2> QED
    BY <1>1, <2>1 DEF Matched, t
<1>5. ASSUME NEW k \in 1..Len(u)
      PROVE  /\ t[Len(ls) + k].offset = u[k].offset
             /\ Placed(t[Len(ls) + k]) <=> u[k].vst \in StoredVST
  <2>1. CASE k \in 1..Len(os)
    <3>1. Len(ls) + k \in 1..Len(sj)
      BY <1>2, <1>3, <2>1
    <3>2. t[Len(ls) + k] = sj[Len(ls) + k] /\ u[k] = os[k]
      BY <1>1, <1>2, <2>1, <3>1 DEF t, u
    <3> QED
      BY <2>1, <3>2 DEF Matched
  <2>2. CASE k = Len(os) + 1
    <3>1. Len(ls) + k = Len(sj) + 1
      BY <1>2, <1>3, <2>2
    <3> QED
      BY <1>1, <1>2, <2>2, <3>1 DEF t, u
  <2> QED
    BY <1>2, <2>1, <2>2 DEF u
<1>6. Len(t) = Len(ls) + Len(u)
  BY <1>1, <1>2, <1>3 DEF t, u
<1> QED
  BY <1>4, <1>5, <1>6 DEF Matched, t, u

LEMMA PopMatched ==
  ASSUME NEW os, NEW ls, NEW sj, IsList(os), IsList(ls), Entries(sj), Matched(os, ls, sj),
         os # <<>>
  PROVE  /\ sj # <<>> /\ Matched(AllButLast(os), ls, AllButLast(sj))
         /\ sj[Len(sj)].offset = os[Len(os)].offset
         /\ Placed(sj[Len(sj)]) <=> os[Len(os)].vst \in StoredVST
<1>1. Len(os) >= 1 /\ Len(AllButLast(os)) = Len(os) - 1
      /\ (\A k \in 1..Len(os) - 1 : AllButLast(os)[k] = os[k]) /\ Len(os) \in Nat
  BY FrontList DEF IsList, AllButLast
<1>2. Len(ls) \in Nat /\ Len(sj) = Len(ls) + Len(os)
  BY DEF IsList, Matched
<1>3. sj # <<>>
  BY <1>1, <1>2, EmptyList
<1>4. Len(AllButLast(sj)) = Len(sj) - 1
      /\ (\A k \in 1..Len(sj) - 1 : AllButLast(sj)[k] = sj[k])
  BY <1>3, FrontList DEF AllButLast, Entries
<1> DEFINE t == AllButLast(sj)
           u == AllButLast(os)
<1> HIDE DEF t, u
<1>5. \A k \in 1..Len(ls) : k \in 1..Len(sj) - 1
  BY <1>1, <1>2
<1>6. ASSUME NEW k \in 1..Len(u)
      PROVE  /\ t[Len(ls) + k].offset = u[k].offset
             /\ Placed(t[Len(ls) + k]) <=> u[k].vst \in StoredVST
  <2>1. Len(ls) + k \in 1..Len(sj) - 1 /\ k \in 1..Len(os) - 1 /\ k \in 1..Len(os)
    BY <1>1, <1>2 DEF u
  <2>2. t[Len(ls) + k] = sj[Len(ls) + k] /\ u[k] = os[k]
    BY <1>1, <1>4, <2>1 DEF t, u
  <2> QED
    BY <2>1, <2>2 DEF Matched
<1>7. Len(t) = Len(ls) + Len(u)
  BY <1>1, <1>2, <1>4 DEF t, u
<1>8. Matched(u, ls, t)
  BY <1>4, <1>5, <1>6, <1>7 DEF Matched, t
<1>9. Len(sj) = Len(ls) + Len(os) /\ Len(os) \in 1..Len(os)
  BY <1>1, <1>2
<1> QED
  BY <1>3, <1>8, <1>9 DEF Matched, t, u

LEMMA PushLocalMatched ==
  ASSUME NEW ls, NEW sj, IsList(ls), Entries(sj), Matched(<<>>, ls, sj),
         NEW l, NEW e, e.offset = l.offset, Placed(e)
  PROVE  Matched(<<>>, Append(ls, l), Append(sj, e))
<1>1. Len(Append(sj, e)) = Len(sj) + 1 /\ Append(sj, e)[Len(sj) + 1] = e
      /\ (\A k \in 1..Len(sj) : Append(sj, e)[k] = sj[k]) /\ Len(sj) \in Nat
  BY AppendList DEF Entries, IsList
<1>2. Len(Append(ls, l)) = Len(ls) + 1 /\ Append(ls, l)[Len(ls) + 1] = l
      /\ (\A k \in 1..Len(ls) : Append(ls, l)[k] = ls[k]) /\ Len(ls) \in Nat
  BY AppendList DEF IsList
<1> QED
  BY <1>1, <1>2, EmptyList DEF Matched

LEMMA PopLocalMatched ==
  ASSUME NEW ls, NEW sj, IsList(ls), Entries(sj), Matched(<<>>, ls, sj), ls # <<>>
  PROVE  sj # <<>> /\ Len(sj) = Len(ls) /\ Matched(<<>>, AllButLast(ls), AllButLast(sj))
<1>1. Len(ls) >= 1 /\ Len(AllButLast(ls)) = Len(ls) - 1
      /\ (\A k \in 1..Len(ls) - 1 : AllButLast(ls)[k] = ls[k]) /\ Len(ls) \in Nat
  BY FrontList DEF IsList, AllButLast
<1>2. Len(sj) = Len(ls)
  BY <1>1, EmptyList DEF Matched
<1>3. sj # <<>>
  BY <1>1, <1>2, EmptyList
<1>4. Len(AllButLast(sj)) = Len(sj) - 1
      /\ (\A k \in 1..Len(sj) - 1 : AllButLast(sj)[k] = sj[k])
  BY <1>3, FrontList DEF AllButLast, Entries
<1> QED
  BY <1>1, <1>2, <1>3, <1>4, EmptyList DEF Matched

\* What is pushed lies below everything.
LEMMA PushDescending ==
  ASSUME NEW sj, NEW n \in Nat, Entries(sj), Descending(sj, n), NEW e, IsEntry(e),
         sj # <<>> =>
           /\ e.offset <= sj[Len(sj)].offset
           /\ Len(sj) + 1 > n /\ Placed(e) => e.offset < sj[Len(sj)].offset
  PROVE  Descending(Append(sj, e), n)
<1> DEFINE t == Append(sj, e)
           m == Len(sj)
<1>1. Len(t) = m + 1 /\ t[m + 1] = e /\ (\A k \in 1..m : t[k] = sj[k]) /\ m \in Nat
  BY AppendList DEF Entries, IsList
<1>2. e.offset \in Int /\ \A k \in 1..m : sj[k].offset \in Int
  BY DEF Entries, IsEntry
<1>3. m >= 1 => sj # <<>>
  BY EmptyList
<1> HIDE DEF t
<1>4. ASSUME NEW k \in 1..m, NEW l \in 1..m, k < l
      PROVE  /\ t[l].offset <= t[k].offset
             /\ l > n /\ Placed(t[l]) => t[l].offset < t[k].offset
  BY <1>1, <1>4 DEF Descending
<1>5. ASSUME NEW k \in 1..m
      PROVE  /\ t[m + 1].offset <= t[k].offset
             /\ m + 1 > n /\ Placed(t[m + 1]) => t[m + 1].offset < t[k].offset
  <2>1. m >= 1 /\ m \in 1..m /\ sj # <<>> /\ k <= m
    BY <1>1, <1>3
  <2>2. sj[m].offset <= sj[k].offset
    <3>1. CASE k = m
      BY <1>2, <2>1, <3>1
    <3>2. CASE k # m
      BY <2>1, <3>2 DEF Descending
    <3> QED
      BY <3>1, <3>2
  <2>3. t[m + 1] = e /\ t[k] = sj[k] /\ e.offset \in Int /\ sj[m].offset \in Int /\ sj[k].offset \in Int
    BY <1>1, <1>2, <2>1
  <2> QED
    BY <2>1, <2>2, <2>3
<1> QED
  <2> SUFFICES ASSUME NEW k \in 1..Len(t), NEW l \in 1..Len(t), k < l
               PROVE  /\ t[l].offset <= t[k].offset
                      /\ l > n /\ Placed(t[l]) => t[l].offset < t[k].offset
    BY DEF Descending, t
  <2>1. k \in 1..m /\ (l \in 1..m \/ l = m + 1)
    BY <1>1
  <2> QED
    BY <1>4, <1>5, <2>1

LEMMA PopDescending ==
  ASSUME NEW sj, NEW n \in Nat, Entries(sj), Descending(sj, n), sj # <<>>
  PROVE  Descending(AllButLast(sj), n)
<1>1. Len(sj) \in Nat /\ Len(AllButLast(sj)) = Len(sj) - 1
      /\ (\A k \in 1..Len(sj) - 1 : AllButLast(sj)[k] = sj[k])
  BY FrontList DEF AllButLast, Entries, IsList
<1> QED
  BY <1>1 DEF Descending

\* The values of two stack journals have the same places, and what changed in
\* the second began anew, not after i.
Restarted(sj, t, i) ==
  /\ Entries(t) /\ Len(t) = Len(sj)
  /\ \A k \in 1..Len(sj) :
       /\ t[k].offset = sj[k].offset /\ (Placed(t[k]) <=> Placed(sj[k]))
       /\ t[k].start = sj[k].start \/ t[k].start = i

LEMMA RestartedMatched ==
  ASSUME NEW os, NEW ls, NEW sj, NEW t, NEW i, Len(os) \in Nat, Len(ls) \in Nat,
         Matched(os, ls, sj), Restarted(sj, t, i)
  PROVE  Matched(os, ls, t)
<1>1. Len(t) = Len(sj) /\ Len(sj) = Len(ls) + Len(os)
  BY DEF Matched, Restarted
<1>2. \A k \in 1..Len(ls) : k \in 1..Len(sj)
  BY <1>1
<1>3. \A k \in 1..Len(os) : Len(ls) + k \in 1..Len(sj)
  BY <1>1
<1> QED
  BY <1>1, <1>2, <1>3 DEF Matched, Restarted

LEMMA RestartedDescending ==
  ASSUME NEW sj, NEW t, NEW n, NEW i, Descending(sj, n), Restarted(sj, t, i)
  PROVE  Descending(t, n)
  BY DEF Descending, Restarted

\* The parts of Spans.
Begun(sj, n, i) == \A k \in 1..Len(sj) : k > n => sj[k].start \in 0..i

IsSpan(q, i) == q.start \in 0..i /\ q.end \in 0..i /\ q.offset \in Int

Precedes(q, sj, n) ==
  \A l \in 1..Len(sj) : l > n /\ Placed(sj[l]) /\ sj[l].offset = q.offset => q.end <= sj[l].start

EachSpan(sj, journal, n, i) ==
  \A k \in 1..Len(journal) : ~journal[k].parameter => IsSpan(journal[k], i) /\ Precedes(journal[k], sj, n)

AllApart(journal) ==
  \A k, l \in 1..Len(journal) :
    k < l /\ ~journal[k].parameter /\ ~journal[l].parameter => Apart(journal[k], journal[l])

LEMMA SpansParts ==
  \A sj, journal, n, i :
    Spans(sj, journal, n, i) <=>
      Begun(sj, n, i) /\ EachSpan(sj, journal, n, i) /\ AllApart(journal)
  BY DEF Spans, Begun, EachSpan, AllApart, IsSpan, Precedes

LEMMA PushSpans ==
  ASSUME NEW sj, NEW journal, NEW n \in Nat, NEW i \in Int, Entries(sj), Spans(sj, journal, n, i),
         NEW e, e.start = i, Len(sj) + 1 > n => i \in Nat
  PROVE  Spans(Append(sj, e), journal, n, i)
<1> DEFINE t == Append(sj, e)
           m == Len(sj)
<1>1. Len(t) = m + 1 /\ t[m + 1] = e /\ (\A k \in 1..m : t[k] = sj[k]) /\ m \in Nat
  BY AppendList DEF Entries, IsList
<1> HIDE DEF t
<1>2. Begun(sj, n, i) /\ EachSpan(sj, journal, n, i) /\ AllApart(journal)
  BY SpansParts
<1>3. Begun(t, n, i)
  BY <1>1, <1>2 DEF Begun
<1>4. ASSUME NEW k \in 1..Len(journal), ~journal[k].parameter
      PROVE  Precedes(journal[k], t, n)
  <2>1. IsSpan(journal[k], i) /\ Precedes(journal[k], sj, n)
    BY <1>2, <1>4 DEF EachSpan
  <2>2. journal[k].end <= i
    BY <2>1 DEF IsSpan
  <2> QED
    BY <1>1, <2>1, <2>2 DEF Precedes
<1>5. EachSpan(t, journal, n, i)
  BY <1>2, <1>4 DEF EachSpan
<1> QED
  BY <1>2, <1>3, <1>5, SpansParts DEF t

LEMMA PopSpans ==
  ASSUME NEW sj, NEW journal, NEW n, NEW i, Entries(sj), sj # <<>>, Spans(sj, journal, n, i)
  PROVE  Spans(AllButLast(sj), journal, n, i)
<1> DEFINE t == AllButLast(sj)
<1>1. Len(sj) \in Nat /\ Len(t) = Len(sj) - 1 /\ (\A k \in 1..Len(sj) - 1 : t[k] = sj[k])
  BY FrontList DEF AllButLast, Entries, IsList
<1> HIDE DEF t
<1>2. \A k \in 1..Len(t) : k \in 1..Len(sj) /\ t[k] = sj[k]
  BY <1>1
<1> QED
  BY <1>2 DEF Spans, t

LEMMA RestartedSpans ==
  ASSUME NEW sj, NEW t, NEW journal, NEW n \in Nat, NEW i \in Nat, Entries(sj), Restarted(sj, t, i),
         Spans(sj, journal, n, i)
  PROVE  Spans(t, journal, n, i)
<1>1. Begun(sj, n, i) /\ EachSpan(sj, journal, n, i) /\ AllApart(journal)
  BY SpansParts
<1>2. Begun(t, n, i)
  BY <1>1 DEF Begun, Restarted
<1>3. ASSUME NEW k \in 1..Len(journal), ~journal[k].parameter
      PROVE  Precedes(journal[k], t, n)
  <2>1. IsSpan(journal[k], i) /\ Precedes(journal[k], sj, n)
    BY <1>1, <1>3 DEF EachSpan
  <2>2. journal[k].end <= i
    BY <2>1 DEF IsSpan
  <2> QED
    BY <2>1, <2>2 DEF Precedes, Restarted
<1>4. EachSpan(t, journal, n, i)
  BY <1>1, <1>3 DEF EachSpan
<1> QED
  BY <1>1, <1>2, <1>4, SpansParts

\* A journal that begins after all others of its place have ended.
LEMMA AppendSpan ==
  ASSUME NEW sj, NEW t, NEW journal, NEW n, NEW i, IsList(journal), Spans(sj, journal, n, i),
         NEW q, Spans(t, journal, n, i),
         ~q.parameter =>
           /\ IsSpan(q, i) /\ Precedes(q, t, n)
           /\ \A k \in 1..Len(journal) :
                ~journal[k].parameter /\ journal[k].offset = q.offset => journal[k].end <= q.start
  PROVE  Spans(t, Append(journal, q), n, i)
<1> DEFINE m == Len(journal)
           j == Append(journal, q)
<1>1. Len(j) = m + 1 /\ j[m + 1] = q /\ (\A k \in 1..m : j[k] = journal[k]) /\ m \in Nat
  BY AppendList DEF IsList
<1> HIDE DEF j
<1>2. Begun(t, n, i) /\ EachSpan(t, journal, n, i) /\ AllApart(journal)
  BY SpansParts
<1>3. EachSpan(t, j, n, i)
  <2> SUFFICES ASSUME NEW k \in 1..Len(j), ~j[k].parameter
               PROVE  IsSpan(j[k], i) /\ Precedes(j[k], t, n)
    BY DEF EachSpan
  <2>1. k \in 1..m \/ k = m + 1
    BY <1>1
  <2> QED
    BY <1>1, <1>2, <2>1 DEF EachSpan
<1>4. ASSUME NEW k \in 1..m, NEW l \in 1..m, k < l, ~j[k].parameter, ~j[l].parameter
      PROVE  Apart(j[k], j[l])
  BY <1>1, <1>2, <1>4 DEF AllApart
<1>5. ASSUME NEW k \in 1..m, ~j[k].parameter, ~q.parameter
      PROVE  Apart(j[k], q)
  BY <1>1, <1>5 DEF Apart
<1>6. AllApart(j)
  <2> SUFFICES ASSUME NEW k \in 1..Len(j), NEW l \in 1..Len(j), k < l, ~j[k].parameter, ~j[l].parameter
               PROVE  Apart(j[k], j[l])
    BY DEF AllApart
  <2>1. k \in 1..m /\ (l \in 1..m \/ l = m + 1)
    BY <1>1
  <2> QED
    BY <1>1, <1>4, <1>5, <2>1
<1> QED
  BY <1>2, <1>3, <1>6, SpansParts DEF j

\* The journal of what is popped.
LEMMA PopSpan ==
  ASSUME NEW sj, NEW journal, NEW n \in Nat, NEW i \in Nat, Entries(sj), IsList(journal),
         sj # <<>>, Len(sj) > n, Placed(sj[Len(sj)]),
         Descending(sj, n), Spans(sj, journal, n, i),
         NEW q, ~q.parameter, q.start = sj[Len(sj)].start, q.end = i, q.offset = sj[Len(sj)].offset
  PROVE  Spans(AllButLast(sj), Append(journal, q), n, i)
<1> DEFINE t == AllButLast(sj)
           m == Len(sj)
<1>1. m \in Nat /\ m \in 1..m /\ Len(t) = m - 1 /\ (\A k \in 1..m - 1 : t[k] = sj[k])
      /\ IsEntry(sj[m])
  BY FrontList DEF AllButLast, Entries, IsList
<1> HIDE DEF t
<1>2. Spans(t, journal, n, i)
  BY PopSpans DEF t
<1>3. Begun(sj, n, i) /\ EachSpan(sj, journal, n, i)
  BY SpansParts
<1>4. IsSpan(q, i)
  BY <1>1, <1>3 DEF IsSpan, Begun, IsEntry
<1>5. Precedes(q, t, n)
  <2> SUFFICES ASSUME NEW l \in 1..Len(t)
               PROVE  t[l].offset # q.offset
    BY DEF Precedes
  <2>1. l \in 1..m /\ l < m /\ t[l] = sj[l]
    BY <1>1
  <2>2. sj[m].offset < sj[l].offset /\ sj[m].offset \in Int /\ sj[l].offset \in Int
    BY <1>1, <2>1 DEF Descending, Entries, IsEntry
  <2> QED
    BY <2>1, <2>2
<1>6. ASSUME NEW k \in 1..Len(journal), ~journal[k].parameter, journal[k].offset = q.offset
      PROVE  journal[k].end <= q.start
  BY <1>1, <1>3, <1>6 DEF EachSpan, Precedes
<1> QED
  BY <1>2, <1>4, <1>5, <1>6, AppendSpan DEF t

\* The journal of what becomes a value of another type, which begins anew.
LEMMA SplitSpan ==
  ASSUME NEW sj, NEW t, NEW journal, NEW n \in Nat, NEW i \in Nat, Entries(sj), IsList(journal),
         NEW m \in 1..Len(sj), m > n, Placed(sj[m]), sj[m].start < i,
         Descending(sj, n), Spans(sj, journal, n, i),
         Entries(t), Len(t) = Len(sj), \A k \in 1..Len(sj) : k # m => t[k] = sj[k],
         t[m].start = i - 1, t[m].offset = sj[m].offset,
         NEW q, ~q.parameter, q.start = sj[m].start, q.end = i - 1, q.offset = sj[m].offset
  PROVE  Spans(t, journal, n, i) /\ Spans(t, Append(journal, q), n, i)
<1>1. Begun(sj, n, i) /\ EachSpan(sj, journal, n, i) /\ AllApart(journal)
  BY SpansParts
<1>2. sj[m].start \in 0..i /\ sj[m].start <= i - 1 /\ i - 1 \in 0..i /\ sj[m].offset \in Int
  BY <1>1 DEF Begun, Entries, IsEntry
<1>3. Begun(t, n, i)
  BY <1>1, <1>2 DEF Begun
<1>4. ASSUME NEW k \in 1..Len(journal), ~journal[k].parameter
      PROVE  /\ IsSpan(journal[k], i) /\ Precedes(journal[k], t, n)
             /\ journal[k].offset = q.offset => journal[k].end <= q.start
  <2>1. IsSpan(journal[k], i) /\ Precedes(journal[k], sj, n)
    BY <1>1, <1>4 DEF EachSpan
  <2>2. journal[k].offset = sj[m].offset => journal[k].end <= sj[m].start
    BY <2>1 DEF Precedes
  <2>3. journal[k].end \in Int
    BY <2>1 DEF IsSpan
  <2>4. ASSUME NEW l \in 1..Len(t), l > n, Placed(t[l]), t[l].offset = journal[k].offset
        PROVE  journal[k].end <= t[l].start
    <3>1. CASE l = m
      BY <1>2, <2>2, <2>3, <2>4, <3>1
    <3>2. CASE l # m
      BY <2>1, <2>4, <3>2 DEF Precedes
    <3> QED
      BY <3>1, <3>2
  <2> QED
    BY <2>1, <2>2, <2>4 DEF Precedes
<1>5. Spans(t, journal, n, i)
  BY <1>1, <1>3, <1>4, SpansParts DEF EachSpan
<1>6. IsSpan(q, i)
  BY <1>2 DEF IsSpan
<1>7. Precedes(q, t, n)
  <2> SUFFICES ASSUME NEW l \in 1..Len(t), l > n, Placed(t[l]), t[l].offset = q.offset
               PROVE  q.end <= t[l].start
    BY DEF Precedes
  <2>1. l = m
    <3> SUFFICES ASSUME l # m
                 PROVE  FALSE
      OBVIOUS
    <3>1. t[l] = sj[l] /\ l \in 1..Len(sj) /\ Placed(sj[l]) /\ (l < m \/ m < l)
          /\ sj[l].offset = sj[m].offset
      <4>1. l \in Int /\ m \in Int
        OBVIOUS
      <4> QED
        BY <4>1
    <3>2. sj[l].offset \in Int
      BY <3>1 DEF Entries, IsEntry
    <3>3. sj[m].offset < sj[l].offset \/ sj[l].offset < sj[m].offset
      BY <3>1 DEF Descending
    <3> QED
      BY <1>2, <3>1, <3>2, <3>3
  <2> QED
    BY <1>2, <2>1
<1> QED
  BY <1>4, <1>5, <1>6, <1>7, AppendSpan

-----------------------------------------------------------------------------
(***************************************************************************)
(* The members, before and after the steps that all operations are made    *)
(* of.                                                                     *)
(***************************************************************************)

Context ==
  /\ Length \in Nat /\ NumParameters \in Nat /\ Len(method.returns) \in Nat
  /\ instrNum \in Nat /\ instrNum \in Labels

\* The members are sound up to the operation i, unless it is rejected.
SoundWith(c, i, n, r) == Shape(c) /\ (Recording /\ c.ok => Full(c, i, n, r))

Sound(c) == SoundWith(c, instrNum, NumParameters, Len(method.returns))

SameStacks(c, d) ==
  /\ d.opstack = c.opstack /\ d.localstack = c.localstack /\ d.stackjournal = c.stackjournal
  /\ d.actions = c.actions

LEMMA FullSame ==
  ASSUME NEW c, NEW d, NEW i, NEW n, NEW r, Full(c, i, n, r), SameStacks(c, d),
         d.il = c.il, d.journal = c.journal, d.meta = c.meta
  PROVE  Full(d, i, n, r)
<1>1. Lists(d)
  BY DEF Full, Lists, SameStacks
<1> QED
  BY <1>1 DEF Full, SameStacks

LEMMA RequireFields ==
  ASSUME NEW c, Shape(c), NEW condition
  PROVE  LET d == Require(c, condition)
         IN  /\ Shape(d) /\ (d.ok => c.ok /\ condition) /\ SameStacks(c, d)
             /\ d.il = c.il /\ d.journal = c.journal /\ d.meta = c.meta /\ d.v = c.v
             /\ (condition => d = c) /\ (~condition => ~d.ok)
<1>1. CASE condition
  BY <1>1 DEF Require, SameStacks
<1>2. CASE ~condition
  <2>1. Require(c, condition) = [c EXCEPT !["ok"] = FALSE]
    BY <1>2 DEF Require
  <2> DEFINE d == [c EXCEPT !["ok"] = FALSE]
  <2>2. "ok" \in CompFields
    BY DEF CompFields
  <2>3. /\ d = [g \in CompFields |-> d[g]] /\ d["ok"] = FALSE
        /\ \A g \in CompFields : g # "ok" => d[g] = c[g]
    BY <2>2 DEF Shape
  <2> HIDE DEF d
  <2>4. Shape(d) /\ ~d.ok /\ SameStacks(c, d) /\ d.il = c.il /\ d.journal = c.journal
        /\ d.meta = c.meta /\ d.v = c.v
    BY <2>3 DEF Shape, SameStacks, CompFields
  <2> QED
    BY <1>2, <2>1, <2>4 DEF d
<1> QED
  BY <1>1, <1>2

LEMMA RequireSound ==
  ASSUME NEW c, NEW i, NEW n, NEW r, SoundWith(c, i, n, r), NEW condition
  PROVE  SoundWith(Require(c, condition), i, n, r)
<1>1. Shape(c)
  BY DEF SoundWith
<1> QED
  BY <1>1, RequireFields, FullSame DEF SoundWith

\* A list that is no part of Full.
LEMMA PushOtherSound ==
  ASSUME NEW c, NEW i, NEW n, NEW r, SoundWith(c, i, n, r), NEW x, NEW list \in {"handlers", "recovery"}
  PROVE  SoundWith(PushList(c, list, x), i, n, r)
<1> DEFINE d == PushList(c, list, x)
<1>1. Shape(c) /\ list \in Stacks \cup Outputs
  BY DEF SoundWith, Outputs
<1>2. Shape(d) /\ \A g \in CompFields \ {list, "maximum"} : d[g] = c[g]
  BY <1>1, PushListFields
<1> HIDE DEF d
<1>3. SameStacks(c, d) /\ d.il = c.il /\ d.journal = c.journal /\ d.meta = c.meta /\ d.ok = c.ok
  BY <1>2 DEF SameStacks, CompFields
<1> QED
  BY <1>2, <1>3, FullSame DEF SoundWith, d

\* One more instruction, in the list or counted.
Emitted(c, d) ==
  /\ Shape(d) /\ d.ok = c.ok /\ SameStacks(c, d) /\ \E x : d.il = Append(c.il, x)
  /\ d.journal = c.journal /\ d.meta = c.meta /\ d.v = c.v

LEMMA EmitFields ==
  ASSUME NEW c, Shape(c), NEW code, NEW uses, NEW makes, NEW target
  PROVE  Emitted(c, Emit(c, code, uses, makes, target))
<1> DEFINE x == [code |-> code, by |-> instrNum, uses |-> uses, makes |-> makes, target |-> target]
           d == PushList(c, "il", x)
<1>1. "il" \in Stacks \cup Outputs
  BY DEF Outputs
<1>2. /\ Shape(d) /\ d["il"] = Append(c["il"], IF Allocated("il") THEN x ELSE Zeros["il"])
      /\ \A g \in CompFields \ {"il", "maximum"} : d[g] = c[g]
  BY <1>1, PushListFields
<1>3. Emit(c, code, uses, makes, target) = d
  BY DEF Emit
<1> HIDE DEF d, x
<1>4. \E y : d.il = Append(c.il, y)
  BY <1>2
<1> QED
  BY <1>2, <1>3, <1>4 DEF Emitted, SameStacks, CompFields

\* More instructions keep the operations' places.
LEMMA TimedMore ==
  ASSUME NEW meta, NEW il, NEW i, IsList(il), Timed(meta, il, i), NEW x
  PROVE  Timed(meta, Append(il, x), i)
<1>1. Len(Append(il, x)) = Len(il) + 1 /\ Len(il) \in Nat
  BY AppendList DEF IsList
<1>2. \A b \in 0..i : StartOf(meta, b) \in Int
  BY DEF Timed, StartOf
<1>3. \A b \in 0..i : StartOf(meta, b) <= Len(il) => StartOf(meta, b) <= Len(il) + 1
  BY <1>1, <1>2
<1> QED
  BY <1>1, <1>3 DEF Timed

LEMMA FullEmitted ==
  ASSUME NEW c, NEW d, NEW i, NEW n, NEW r, Full(c, i, n, r), SameStacks(c, d),
         NEW x, d.il = Append(c.il, x), d.journal = c.journal, d.meta = c.meta
  PROVE  Full(d, i, n, r)
<1>1. IsList(c.il) /\ IsList(Append(c.il, x))
  BY AppendList DEF Full, Lists
<1>2. Lists(d)
  BY <1>1 DEF Full, Lists, SameStacks
<1>3. Timed(d.meta, d.il, i)
  BY <1>1, TimedMore DEF Full
<1> QED
  BY <1>2, <1>3 DEF Full, SameStacks

LEMMA EmitSound ==
  ASSUME NEW c, NEW i, NEW n, NEW r, SoundWith(c, i, n, r),
         NEW code, NEW uses, NEW makes, NEW target
  PROVE  SoundWith(Emit(c, code, uses, makes, target), i, n, r)
<1> DEFINE d == Emit(c, code, uses, makes, target)
<1>1. Shape(c)
  BY DEF SoundWith
<1>2. Emitted(c, d)
  BY <1>1, EmitFields
<1> HIDE DEF d
<1>3. Full(c, i, n, r) => Full(d, i, n, r)
  BY <1>2, FullEmitted DEF Emitted
<1> QED
  BY <1>2, <1>3 DEF SoundWith, Emitted, d

\* Only the places of the operations have changed.
Retimed(c, d, meta) ==
  /\ Shape(d) /\ d.ok = c.ok /\ SameStacks(c, d)
  /\ d.il = c.il /\ d.journal = c.journal /\ d.v = c.v /\ d.meta = meta

LEMMA RetimedExcept ==
  ASSUME NEW c, Shape(c), NEW meta, meta = [b \in Labels |-> meta[b]]
  PROVE  Retimed(c, [c EXCEPT !.meta = meta], meta)
<1> DEFINE d == [c EXCEPT !.meta = meta]
<1>1. /\ d = [g \in CompFields |-> d[g]] /\ d["meta"] = meta
      /\ \A g \in CompFields : g # "meta" => d[g] = c[g]
  <2>1. "meta" \in CompFields
    BY DEF CompFields
  <2> QED
    BY <2>1 DEF Shape
<1> HIDE DEF d
<1>2. Retimed(c, d, meta)
  BY <1>1 DEF Shape, SameStacks, CompFields, Retimed
<1> QED
  BY <1>2 DEF d

LEMMA FullRetimed ==
  ASSUME NEW c, NEW d, NEW i, NEW n, NEW r, Full(c, i, n, r), SameStacks(c, d),
         d.journal = c.journal, IsList(d.il), Timed(d.meta, d.il, i)
  PROVE  Full(d, i, n, r)
<1>1. Lists(d)
  BY DEF Full, Lists, SameStacks
<1> QED
  BY <1>1 DEF Full, SameStacks

\* The last operation's place moves with the instructions.
LEMMA TimedBumped ==
  ASSUME NEW meta, NEW il, NEW i \in Nat, IsList(il), Timed(meta, il, i), NEW x, NEW m,
         \A a \in 0..i : a # i => m[a] = meta[a],
         IsRecord(m[i], MetaFields), m[i].translated \in Nat, m[i].validation \in Nat,
         meta[i].translated <= m[i].translated, StartOf(m, i) <= StartOf(meta, i) + 1
  PROVE  Timed(m, Append(il, x), i)
<1>1. Len(Append(il, x)) = Len(il) + 1 /\ Len(il) \in Nat
  BY AppendList DEF IsList
<1>2. \A b \in 0..i : StartOf(meta, b) \in Int /\ StartOf(meta, b) <= Len(il)
                      /\ meta[b].translated \in Nat
  BY DEF Timed, StartOf
<1>3. StartOf(m, i) \in Int
  BY DEF StartOf
<1>4. ASSUME NEW b \in 0..i
      PROVE  /\ b \in Labels /\ IsRecord(m[b], MetaFields)
             /\ m[b].translated \in Nat /\ m[b].validation \in Nat
             /\ StartOf(m, b) <= Len(il) + 1
  <2>1. CASE b = i
    BY <1>1, <1>2, <1>3, <2>1 DEF Timed
  <2>2. CASE b # i
    <3>1. m[b] = meta[b] /\ StartOf(m, b) = StartOf(meta, b)
      BY <2>2 DEF StartOf
    <3> QED
      BY <1>1, <1>2, <3>1 DEF Timed
  <2> QED
    BY <2>1, <2>2
<1>5. ASSUME NEW a \in 0..i, NEW b \in 0..i, a < b
      PROVE  StartOf(m, a) <= m[b].translated
  <2>1. m[a] = meta[a] /\ StartOf(m, a) = StartOf(meta, a)
    BY <1>5 DEF StartOf
  <2>2. StartOf(meta, a) <= meta[b].translated
    BY <1>5 DEF Timed
  <2>3. meta[b].translated <= m[b].translated
    BY <1>2
  <2> QED
    BY <1>2, <1>4, <2>1, <2>2, <2>3
<1> QED
  BY <1>1, <1>4, <1>5 DEF Timed

LEMMA TickSound ==
  ASSUME Context, NEW c, Sound(c), NEW code
  PROVE  Sound([EmitSimple(c, code) EXCEPT !.meta[instrNum].translated = @ + 1])
<1> DEFINE e == EmitSimple(c, code)
           m == [e.meta EXCEPT ![instrNum].translated = @ + 1]
           d == [e EXCEPT !.meta[instrNum].translated = @ + 1]
<1>1. Shape(c) /\ instrNum \in Labels /\ instrNum \in Nat
  BY DEF Sound, SoundWith, Context
<1>2. Emitted(c, e)
  BY <1>1, EmitFields DEF EmitSimple
<1> HIDE DEF e
<1>3. m = [b \in Labels |-> m[b]]
  BY <1>2 DEF Emitted, Shape
<1>4. d = [e EXCEPT !.meta = m]
  BY <1>2 DEF Emitted, Shape
<1>5. Retimed(e, d, m)
  <2> HIDE DEF m, d
  <2> QED
    BY <1>2, <1>3, <1>4, RetimedExcept DEF Emitted
<1>6. PICK x : e.il = Append(c.il, x)
  BY <1>2 DEF Emitted
<1>7. SUFFICES ASSUME Recording, d.ok
               PROVE  Full(d, instrNum, NumParameters, Len(method.returns))
  BY <1>5 DEF Sound, SoundWith, Retimed, e
<1>8. Full(c, instrNum, NumParameters, Len(method.returns))
  BY <1>2, <1>5, <1>7 DEF Sound, SoundWith, Retimed, Emitted
<1>9. IsList(c.il) /\ Timed(c.meta, c.il, instrNum) /\ e.meta = c.meta
  BY <1>2, <1>8 DEF Full, Lists, Emitted
<1>10. /\ \A a \in 0..instrNum : a # instrNum => m[a] = c.meta[a]
       /\ IsRecord(m[instrNum], MetaFields) /\ m[instrNum].translated \in Nat
       /\ m[instrNum].validation \in Nat /\ c.meta[instrNum].translated <= m[instrNum].translated
       /\ StartOf(m, instrNum) <= StartOf(c.meta, instrNum) + 1
  <2>1. instrNum \in 0..instrNum
    BY <1>1
  <2>2. IsRecord(c.meta[instrNum], MetaFields) /\ c.meta[instrNum].translated \in Nat
        /\ c.meta[instrNum].validation \in Nat
    BY <1>9, <2>1 DEF Timed
  <2>3. m[instrNum] = [c.meta[instrNum] EXCEPT !.translated = @ + 1]
    BY <1>1, <1>2, <1>9 DEF Emitted, Shape
  <2>4. \A a : a # instrNum => m[a] = c.meta[a]
    BY <1>2, <1>9 DEF Emitted, Shape
  <2> HIDE DEF m
  <2>5. IsRecord(m[instrNum], MetaFields) /\ m[instrNum].translated = c.meta[instrNum].translated + 1
        /\ m[instrNum].validation = c.meta[instrNum].validation
    BY <2>2, <2>3 DEF IsRecord, MetaFields
  <2> QED
    BY <2>2, <2>4, <2>5 DEF StartOf
<1> HIDE DEF m, d
<1>11. Timed(m, Append(c.il, x), instrNum) /\ IsList(Append(c.il, x))
  BY <1>1, <1>9, <1>10, TimedBumped, AppendList
<1>12. SameStacks(c, d) /\ d.journal = c.journal /\ d.il = Append(c.il, x) /\ d.meta = m
  BY <1>2, <1>5, <1>6 DEF Retimed, Emitted, SameStacks
<1> QED
  BY <1>8, <1>11, <1>12, FullRetimed

\* What is on the stacks was there before the operation.
Old(c) ==
  \A k \in 1..Len(c.stackjournal) : k > NumParameters => c.stackjournal[k].start < instrNum

Ready(c) == Sound(c) /\ (Recording /\ c.ok => Old(c))

LEMMA AddDebugInfoReady ==
  ASSUME Context, NEW c, Ready(c)
  PROVE  Ready(AddDebugInfo(c))
<1> DEFINE e == [EmitSimple(c, "debuginfo") EXCEPT !.meta[instrNum].translated = @ + 1]
           d == IF Len(c.il) = c.lastDebug THEN c ELSE e
           f == [d EXCEPT !.lastDebug = Len(d.il)]
<1>1. Shape(c) /\ Sound(c)
  BY DEF Ready, Sound, SoundWith
<1>2. Sound(e)
  BY <1>1, TickSound
<1>3. Ready(d)
  <2>1. CASE d = c
    BY <2>1
  <2>2. CASE d = e
    <3>1. Emitted(c, EmitSimple(c, "debuginfo"))
      BY <1>1, EmitFields DEF EmitSimple
    <3>2. e.stackjournal = c.stackjournal /\ e.ok = c.ok
      <4> DEFINE g == EmitSimple(c, "debuginfo")
      <4> HIDE DEF g
      <4>1. [g EXCEPT !.meta[instrNum].translated = @ + 1].stackjournal = g.stackjournal
            /\ [g EXCEPT !.meta[instrNum].translated = @ + 1].ok = g.ok
        BY <3>1 DEF Emitted, Shape, CompFields, g
      <4> QED
        BY <3>1, <4>1 DEF Emitted, SameStacks, g
    <3> HIDE DEF e
    <3> QED
      BY <1>2, <2>2, <3>2 DEF Ready, Old
  <2> QED
    BY <2>1, <2>2
<1> HIDE DEF d
<1>4. Shape(f) /\ SameStacks(d, f) /\ f.il = d.il /\ f.journal = d.journal /\ f.meta = d.meta
      /\ f.ok = d.ok
  <2>1. Shape(d)
    BY <1>3 DEF Ready, Sound, SoundWith
  <2>2. /\ f = [g \in CompFields |-> f[g]] /\ \A g \in CompFields : g # "lastDebug" => f[g] = d[g]
    BY <2>1 DEF Shape
  <2> HIDE DEF f
  <2> QED
    BY <2>1, <2>2 DEF Shape, SameStacks, CompFields
<1> HIDE DEF f
<1>5. Ready(f)
  BY <1>3, <1>4, FullSame DEF Ready, Sound, SoundWith, Old, SameStacks
<1>6. AddDebugInfo(c) \in {c, f}
  BY DEF AddDebugInfo, d, f
<1> QED
  BY <1>5, <1>6

LEMMA MarkOpReady ==
  ASSUME Context, NEW c, SoundWith(c, instrNum - 1, NumParameters, Len(method.returns))
  PROVE  Ready(MarkOp(c))
<1> DEFINE i == instrNum
           new == [translated |-> Len(c.il), validation |-> 0,
                   min |-> IF pass = "stitch" THEN c.meta[i].min ELSE 0,
                   max |-> IF pass = "stitch" THEN c.meta[i].max ELSE Length - 1,
                   valid |-> Generating /\ EmptyOrBarrier(c)]
           m == [c.meta EXCEPT ![i] = new]
           d == MarkOp(c)
<1>1. Shape(c) /\ i \in Labels /\ i \in Nat
  BY DEF SoundWith, Context
<1>2. m = [b \in Labels |-> m[b]] /\ m[i] = new /\ \A a : a # i => m[a] = c.meta[a]
  <2> HIDE DEF new
  <2> QED
    BY <1>1 DEF Shape
<1>3. d = [c EXCEPT !.meta = m]
  BY <1>1 DEF Shape, MarkOp
<1>4. Retimed(c, d, m)
  <2> HIDE DEF m, d
  <2> QED
    BY <1>1, <1>2, <1>3, RetimedExcept
<1>5. IsRecord(new, MetaFields) /\ new.translated = Len(c.il) /\ new.validation = 0
  BY DEF IsRecord, MetaFields
<1> HIDE DEF new, m, d
<1>6. SUFFICES ASSUME Recording, d.ok
               PROVE  Full(d, i, NumParameters, Len(method.returns)) /\ Old(d)
  BY <1>4 DEF Ready, Sound, SoundWith, Retimed, d
<1>7. Full(c, i - 1, NumParameters, Len(method.returns))
  BY <1>4, <1>6 DEF SoundWith, Retimed
<1>8. IsList(c.il) /\ Len(c.il) \in Nat /\ Timed(c.meta, c.il, i - 1)
      /\ Spans(c.stackjournal, c.journal, NumParameters, i - 1)
  BY <1>7 DEF Full, Lists, IsList
<1>9. Timed(m, c.il, i)
  <2>1. \A b \in 0..i : b = i \/ b \in 0..i - 1
    BY <1>1
  <2>6. \A b \in 0..i - 1 : b # i
    BY <1>1
  <2>7. \A b \in 0..i - 1 : m[b] = c.meta[b]
    BY <1>2, <2>6
  <2>2. \A b \in 0..i - 1 : m[b] = c.meta[b] /\ StartOf(m, b) = StartOf(c.meta, b)
    BY <2>7 DEF StartOf
  <2>3. StartOf(m, i) = Len(c.il) /\ m[i].translated = Len(c.il)
    BY <1>2, <1>5, <1>8 DEF StartOf
  <2>4. ASSUME NEW b \in 0..i
        PROVE  /\ b \in Labels /\ IsRecord(m[b], MetaFields)
               /\ m[b].translated \in Nat /\ m[b].validation \in Nat
               /\ StartOf(m, b) <= Len(c.il)
    <3>1. CASE b = i
      BY <1>1, <1>2, <1>5, <1>8, <2>3, <3>1
    <3>2. CASE b # i
      BY <1>8, <2>1, <2>2, <3>2 DEF Timed
    <3> QED
      BY <3>1, <3>2
  <2>5. ASSUME NEW a \in 0..i, NEW b \in 0..i, a < b
        PROVE  StartOf(m, a) <= m[b].translated
    <3>1. a \in 0..i - 1
      BY <1>1, <2>5
    <3>2. CASE b = i
      BY <1>8, <2>2, <2>3, <3>1, <3>2 DEF Timed
    <3>3. CASE b # i
      <4>1. b \in 0..i - 1
        BY <2>1, <3>3
      <4> QED
        BY <1>8, <2>2, <2>5, <3>1, <4>1 DEF Timed
    <3> QED
      BY <3>2, <3>3
  <2> QED
    BY <2>4, <2>5 DEF Timed
<1>10. Spans(c.stackjournal, c.journal, NumParameters, i)
  <2>1. 0..i - 1 \subseteq 0..i
    BY <1>1
  <2> QED
    BY <1>8, <2>1 DEF Spans
<1>12. Lists(d)
  BY <1>4, <1>7 DEF Full, Lists, Retimed, SameStacks
<1>13. Full(d, i, NumParameters, Len(method.returns))
  BY <1>4, <1>7, <1>9, <1>10, <1>12 DEF Full, Retimed, SameStacks
<1>14. Old(d)
  <2>1. \A k \in 1..Len(c.stackjournal) : k > NumParameters => c.stackjournal[k].start \in 0..i - 1
    BY <1>8 DEF Spans
  <2>2. \A s \in 0..i - 1 : s < i
    BY <1>1
  <2> QED
    BY <1>4, <2>1, <2>2 DEF Old, Retimed, SameStacks
<1> QED
  BY <1>13, <1>14

\* Narrowing the jumps moves no operation.
LEMMA NarrowJumpsSound ==
  ASSUME Context, NEW c, Sound(c), NEW first, NEW min
  PROVE  Sound(NarrowJumps(c, first, min)) /\ SameStacks(c, NarrowJumps(c, first, min))
<1> DEFINE m == [i \in Labels |-> IF i \in first..instrNum - 1 THEN Narrowed(c.meta[i], min)
                                   ELSE c.meta[i]]
           d == NarrowJumps(c, first, min)
<1>1. Shape(c)
  BY DEF Sound, SoundWith
<1>2. d = [c EXCEPT !.meta = m]
  BY DEF NarrowJumps
<1>3. m = [b \in Labels |-> m[b]]
  OBVIOUS
<1>4. ASSUME NEW b \in Labels, IsRecord(c.meta[b], MetaFields)
      PROVE  /\ IsRecord(m[b], MetaFields) /\ m[b].translated = c.meta[b].translated
             /\ m[b].validation = c.meta[b].validation
  <2> DEFINE v == c.meta[b]
             w == Narrowed(v, min)
  <2>1. m[b] \in {v, w}
    OBVIOUS
  <2>2. IsRecord(v, MetaFields)
    BY <1>4
  <2> HIDE DEF v
  <2>3. IsRecord(w, MetaFields) /\ w.translated = v.translated /\ w.validation = v.validation
    BY <2>2 DEF IsRecord, MetaFields, Narrowed
  <2> QED
    BY <2>1, <2>2, <2>3 DEF v
<1> HIDE DEF m, d
<1>5. Retimed(c, d, m)
  BY <1>1, <1>2, <1>3, RetimedExcept
<1>6. ASSUME Recording, d.ok
      PROVE  Full(d, instrNum, NumParameters, Len(method.returns))
  <2>1. Full(c, instrNum, NumParameters, Len(method.returns))
    BY <1>5, <1>6 DEF Sound, SoundWith, Retimed
  <2>2. Timed(c.meta, c.il, instrNum) /\ IsList(c.il)
    BY <2>1 DEF Full, Lists
  <2>3. ASSUME NEW b \in 0..instrNum
        PROVE  /\ b \in Labels /\ IsRecord(m[b], MetaFields) /\ m[b].translated = c.meta[b].translated
               /\ m[b].validation = c.meta[b].validation /\ StartOf(m, b) = StartOf(c.meta, b)
    BY <1>4, <2>2 DEF Timed, StartOf
  <2>4. Timed(m, c.il, instrNum)
    BY <2>2, <2>3 DEF Timed
  <2> QED
    BY <1>5, <2>1, <2>2, <2>4, FullRetimed DEF Retimed
<1> QED
  BY <1>5, <1>6 DEF Sound, SoundWith, Retimed, d

(***************************************************************************)
(* What is on the stacks changes in place.                                 *)
(***************************************************************************)

\* Only the members f and v of d differ from those of c.
ChangedIn(c, d, f) ==
  /\ d = [g \in CompFields |-> d[g]]
  /\ \A g \in CompFields : g # f => d[g] = c[g]

LEMMA FullRestarted ==
  ASSUME NEW c, NEW d, NEW i \in Nat, NEW n \in Nat, NEW r, Full(c, i, n, r),
         Restarted(c.stackjournal, d.stackjournal, i),
         d.opstack = c.opstack, d.localstack = c.localstack, d.actions = c.actions,
         d.il = c.il, d.journal = c.journal, d.meta = c.meta
  PROVE  Full(d, i, n, r)
<1>1. Entries(c.stackjournal) /\ Entries(d.stackjournal)
  BY DEF Full, Lists, Entries, Restarted
<1>2. Lists(d)
  BY <1>1 DEF Full, Lists, Entries
<1>3. Matched(d.opstack, d.localstack, d.stackjournal)
  BY RestartedMatched DEF Full, Lists, IsList
<1>4. Descending(d.stackjournal, n)
  BY RestartedDescending DEF Full
<1>5. Spans(d.stackjournal, d.journal, n, i)
  BY <1>1, RestartedSpans DEF Full
<1> QED
  BY <1>2, <1>3, <1>4, <1>5 DEF Full

LEMMA RestartSound ==
  ASSUME Context, NEW c, Sound(c), NEW t,
         Recording /\ c.ok => Restarted(c.stackjournal, t, instrNum)
  PROVE  Sound([c EXCEPT !.stackjournal = t])
<1> DEFINE d == [c EXCEPT !.stackjournal = t]
<1>1. Shape(c) /\ instrNum \in Nat /\ NumParameters \in Nat
  BY DEF Sound, SoundWith, Context
<1>2. ChangedIn(c, d, "stackjournal") /\ d.stackjournal = t
  BY <1>1 DEF Shape, ChangedIn, CompFields
<1> HIDE DEF d
<1>3. /\ Shape(d) /\ d.ok = c.ok /\ d.opstack = c.opstack /\ d.localstack = c.localstack
      /\ d.actions = c.actions /\ d.il = c.il /\ d.journal = c.journal /\ d.meta = c.meta
  BY <1>1, <1>2 DEF Shape, ChangedIn, CompFields
<1>4. ASSUME Recording, d.ok
      PROVE  Full(d, instrNum, NumParameters, Len(method.returns))
  <2>1. Full(c, instrNum, NumParameters, Len(method.returns))
    BY <1>3, <1>4 DEF Sound, SoundWith
  <2>2. Restarted(c.stackjournal, d.stackjournal, instrNum)
    BY <1>2, <1>3, <1>4
  <2> QED
    BY <1>1, <1>3, <2>1, <2>2, FullRestarted
<1> QED
  BY <1>3, <1>4 DEF Sound, SoundWith, d

\* An entry that begins anew, and one that may be told of.
LEMMA EntryExcept ==
  ASSUME NEW e, IsEntry(e), NEW i \in Int
  PROVE  LET f == [e EXCEPT !.start = i]
         IN  IsEntry(f) /\ f.start = i /\ f.offset = e.offset /\ f.vst = e.vst
  BY DEF IsEntry, IsRecord, EntryFields

LEMMA EntryRecorded ==
  ASSUME NEW e, IsEntry(e)
  PROVE  LET f == [e EXCEPT !.record = TRUE]
         IN  IsEntry(f) /\ f.start = e.start /\ f.offset = e.offset /\ f.vst = e.vst
  BY DEF IsEntry, IsRecord, EntryFields

LEMMA SyncJournalSound ==
  ASSUME Context, NEW c, Sound(c)
  PROVE  Sound(SyncJournal(c))
<1> DEFINE t == [k \in DOMAIN c.stackjournal |-> [c.stackjournal[k] EXCEPT !.record = TRUE]]
<1>1. CASE Allocated("stackjournal")
  <2>1. SyncJournal(c) = [c EXCEPT !.stackjournal = t]
    BY <1>1 DEF SyncJournal
  <2>2. ASSUME Recording, c.ok
        PROVE  Restarted(c.stackjournal, t, instrNum)
    <3>1. Entries(c.stackjournal)
      BY <2>2 DEF Sound, SoundWith, Full, Lists, Entries
    <3> DEFINE s == c.stackjournal
    <3> HIDE DEF s
    <3>2. Len(s) \in Nat /\ DOMAIN s = 1..Len(s) /\ \A k \in 1..Len(s) : IsEntry(s[k])
      BY <3>1, ListInSeq DEF Entries, IsList, s
    <3>3. t = [k \in 1..Len(s) |-> [s[k] EXCEPT !.record = TRUE]]
      BY <3>2 DEF s
    <3> HIDE DEF t
    <3>4. IsList(t) /\ Len(t) = Len(s)
      BY <3>2, <3>3 DEF IsList
    <3>6. ASSUME NEW k \in 1..Len(s)
          PROVE  /\ IsEntry(t[k]) /\ t[k].start = s[k].start /\ t[k].offset = s[k].offset
                 /\ t[k].vst = s[k].vst
      <4>1. IsEntry(s[k]) /\ t[k] = [s[k] EXCEPT !.record = TRUE]
        BY <3>2, <3>3
      <4> QED
        BY <4>1, EntryRecorded
    <3> QED
      BY <3>4, <3>6 DEF Restarted, Entries, Placed, s
  <2> HIDE DEF t
  <2> QED
    BY <2>1, <2>2, RestartSound
<1>2. CASE ~Allocated("stackjournal")
  BY <1>2 DEF SyncJournal
<1> QED
  BY <1>1, <1>2

LEMMA LivenJournalSound ==
  ASSUME Context, NEW c, Sound(c), NEW ids
  PROVE  Sound(LivenJournal(c, ids))
<1> DEFINE t == [k \in DOMAIN c.stackjournal |->
                   IF c.stackjournal[k].id \in ids THEN [c.stackjournal[k] EXCEPT !.start = instrNum]
                   ELSE c.stackjournal[k]]
<1>1. LivenJournal(c, ids) = [c EXCEPT !.stackjournal = t]
  BY DEF LivenJournal
<1>2. ASSUME Recording, c.ok
      PROVE  Restarted(c.stackjournal, t, instrNum)
  <2>1. Entries(c.stackjournal)
    BY <1>2 DEF Sound, SoundWith, Full, Lists, Entries
  <2> DEFINE s == c.stackjournal
  <2> HIDE DEF s
  <2>2. Len(s) \in Nat /\ DOMAIN s = 1..Len(s) /\ \A k \in 1..Len(s) : IsEntry(s[k])
    BY <2>1, ListInSeq DEF Entries, IsList, s
  <2>3. t = [k \in 1..Len(s) |-> IF s[k].id \in ids THEN [s[k] EXCEPT !.start = instrNum] ELSE s[k]]
    BY <2>2 DEF s
  <2> HIDE DEF t
  <2>4. IsList(t) /\ Len(t) = Len(s)
    BY <2>2, <2>3 DEF IsList
  <2>5. instrNum \in Int
    BY DEF Context
  <2>6. ASSUME NEW k \in 1..Len(s)
        PROVE  /\ IsEntry(t[k]) /\ t[k].offset = s[k].offset /\ t[k].vst = s[k].vst
               /\ t[k].start = s[k].start \/ t[k].start = instrNum
    <3>1. IsEntry(s[k]) /\ t[k] \in {s[k], [s[k] EXCEPT !.start = instrNum]}
      BY <2>2, <2>3
    <3>2. CASE t[k] = s[k]
      BY <3>1, <3>2
    <3>3. CASE t[k] = [s[k] EXCEPT !.start = instrNum]
      BY <2>5, <3>1, <3>3, EntryExcept
    <3> QED
      BY <3>1, <3>2, <3>3
  <2> QED
    BY <2>4, <2>6 DEF Restarted, Entries, Placed, s
<1> HIDE DEF t
<1> QED
  BY <1>1, <1>2, RestartSound

\* The values are stored where they were.
SameValues(os, u) ==
  /\ IsList(u) /\ Len(u) = Len(os)
  /\ \A k \in 1..Len(os) : IsValue(u[k]) /\ u[k].offset = os[k].offset /\ SameAction(os[k], u[k])

LEMMA FullRevalued ==
  ASSUME NEW c, NEW d, NEW i, NEW n, NEW r, Full(c, i, n, r),
         SameValues(c.opstack, d.opstack),
         d.stackjournal = c.stackjournal, d.localstack = c.localstack, d.actions = c.actions,
         d.il = c.il, d.journal = c.journal, d.meta = c.meta
  PROVE  Full(d, i, n, r)
<1>1. Lists(d)
  BY DEF Full, Lists, SameValues
<1>2. Len(c.opstack) \in Nat
  BY DEF Full, Lists, IsList
<1>3. StoredActions(c.opstack) = StoredActions(d.opstack)
  BY <1>2, StoredSame DEF SameValues, SameActions
<1>4. Matched(d.opstack, d.localstack, d.stackjournal)
  BY DEF Full, Matched, SameValues, SameAction
<1>5. Pushed(d.opstack, d.localstack, r) = Pushed(c.opstack, c.localstack, r)
  BY <1>3 DEF Pushed
<1> QED
  BY <1>1, <1>4, <1>5 DEF Full

LEMMA RevalueSound ==
  ASSUME Context, NEW c, Sound(c), NEW u, Recording /\ c.ok => SameValues(c.opstack, u)
  PROVE  Sound([c EXCEPT !.opstack = u])
<1> DEFINE d == [c EXCEPT !.opstack = u]
<1>1. Shape(c)
  BY DEF Sound, SoundWith
<1>2. ChangedIn(c, d, "opstack") /\ d.opstack = u
  BY <1>1 DEF Shape, ChangedIn, CompFields
<1> HIDE DEF d
<1>3. /\ Shape(d) /\ d.ok = c.ok /\ d.stackjournal = c.stackjournal /\ d.localstack = c.localstack
      /\ d.actions = c.actions /\ d.il = c.il /\ d.journal = c.journal /\ d.meta = c.meta
  BY <1>1, <1>2 DEF Shape, ChangedIn, CompFields
<1>4. ASSUME Recording, d.ok
      PROVE  Full(d, instrNum, NumParameters, Len(method.returns))
  <2>1. Full(c, instrNum, NumParameters, Len(method.returns))
    BY <1>3, <1>4 DEF Sound, SoundWith
  <2>2. SameValues(c.opstack, d.opstack)
    BY <1>2, <1>3, <1>4
  <2> QED
    BY <1>3, <2>1, <2>2, FullRevalued
<1> QED
  BY <1>3, <1>4 DEF Sound, SoundWith, d

\* A value that turns into another kind of stored value.
LEMMA ValueExcept ==
  ASSUME NEW v, IsValue(v), v.vst \in StoredVST, NEW vst \in StoredVST
  PROVE  LET w == [v EXCEPT !.vst = vst]
         IN  IsValue(w) /\ w.offset = v.offset /\ SameAction(v, w)
<1> DEFINE w == [v EXCEPT !.vst = vst]
<1>1. IsRecord(w, ValueFields) /\ w.vst = vst /\ w.offset = v.offset /\ w.sa = v.sa
  BY DEF IsValue, IsRecord, ValueFields
<1> HIDE DEF w
<1>2. IsValue(w) /\ SameAction(v, w) /\ w.offset = v.offset
  BY <1>1 DEF IsValue, SameAction
<1> QED
  BY <1>2 DEF w

\* The kind of the values of u, some of those of os, has turned into vst.
LEMMA TurnedValues ==
  ASSUME NEW os, IsList(os), \A k \in 1..Len(os) : IsValue(os[k]),
         NEW K, NEW vst \in StoredVST, \A k \in K : k \in 1..Len(os) => os[k].vst \in StoredVST
  PROVE  SameValues(os, [k \in DOMAIN os |-> IF k \in K THEN [os[k] EXCEPT !.vst = vst] ELSE os[k]])
<1> DEFINE u == [k \in DOMAIN os |-> IF k \in K THEN [os[k] EXCEPT !.vst = vst] ELSE os[k]]
<1>1. Len(os) \in Nat /\ DOMAIN os = 1..Len(os)
  BY ListInSeq DEF IsList
<1>2. IsList(u) /\ Len(u) = Len(os)
  BY <1>1 DEF IsList
<1>3. ASSUME NEW k \in 1..Len(os)
      PROVE  IsValue(u[k]) /\ u[k].offset = os[k].offset /\ SameAction(os[k], u[k])
  <2>1. CASE k \in K
    <3>1. IsValue(os[k]) /\ os[k].vst \in StoredVST /\ u[k] = [os[k] EXCEPT !.vst = vst]
      BY <1>1, <2>1
    <3> HIDE DEF u
    <3> QED
      BY <3>1, ValueExcept
  <2>2. CASE k \notin K
    <3>1. u[k] = os[k]
      BY <1>1, <2>2
    <3> HIDE DEF u
    <3> QED
      BY <3>1 DEF SameAction
  <2> QED
    BY <2>1, <2>2
<1> HIDE DEF u
<1>4. SameValues(os, u)
  BY <1>2, <1>3 DEF SameValues
<1> QED
  BY <1>4 DEF u

LEMMA LivenShellsSound ==
  ASSUME Context, NEW c, Sound(c), NEW n
  PROVE  Sound(LivenShells(c, n))
<1> DEFINE top == {k \in DOMAIN c.opstack : k > Len(c.opstack) - n}
           shells == {k \in top : c.opstack[k].vst = "ValueShell"}
           u == [k \in DOMAIN c.opstack |-> IF k \in shells THEN [c.opstack[k] EXCEPT !.vst = "Value"]
                                            ELSE c.opstack[k]]
           d == [c EXCEPT !.opstack = u]
<1>1. LivenShells(c, n) = LivenJournal(d, {c.opstack[k].id : k \in shells})
  BY DEF LivenShells
<1>2. ASSUME Recording, c.ok
      PROVE  SameValues(c.opstack, u)
  <2>1. IsList(c.opstack) /\ \A k \in 1..Len(c.opstack) : IsValue(c.opstack[k])
    BY <1>2 DEF Sound, SoundWith, Full, Lists
  <2>2. \A k \in shells : k \in 1..Len(c.opstack) => c.opstack[k].vst \in StoredVST
    BY DEF StoredVST
  <2>3. "Value" \in StoredVST
    BY DEF StoredVST
  <2> HIDE DEF shells
  <2> QED
    BY <2>1, <2>2, <2>3, TurnedValues
<1> HIDE DEF u
<1>3. Sound(d)
  BY <1>2, RevalueSound
<1> HIDE DEF d, shells
<1> QED
  BY <1>1, <1>3, LivenJournalSound

LEMMA MakeReturnsSound ==
  ASSUME Context, NEW c, Sound(c), NEW returns
  PROVE  Sound(MakeReturns(c, returns))
<1> DEFINE below == Len(c.opstack) - Len(returns)
           K == {k \in DOMAIN c.opstack : k > below /\ c.opstack[k].vst = "Pointer"}
           u == [k \in DOMAIN c.opstack |-> IF k > below /\ c.opstack[k].vst = "Pointer"
                                            THEN [c.opstack[k] EXCEPT !.vst = "ConstPointer"]
                                            ELSE c.opstack[k]]
           w == [k \in DOMAIN c.opstack |-> IF k \in K
                                            THEN [c.opstack[k] EXCEPT !.vst = "ConstPointer"]
                                            ELSE c.opstack[k]]
           d == [c EXCEPT !.opstack = u]
<1>1. MakeReturns(c, returns) \in {LivenShells(d, Len(returns)), Require(c, FALSE)}
  BY DEF MakeReturns
<1>2. ASSUME Recording, c.ok
      PROVE  SameValues(c.opstack, u)
  <2>1. IsList(c.opstack) /\ \A k \in 1..Len(c.opstack) : IsValue(c.opstack[k])
    BY <1>2 DEF Sound, SoundWith, Full, Lists
  <2>2. \A k \in K : k \in 1..Len(c.opstack) => c.opstack[k].vst \in StoredVST
    BY DEF StoredVST, PointerVST
  <2>3. "ConstPointer" \in StoredVST
    BY DEF StoredVST, PointerVST
  <2>4. u = w
    OBVIOUS
  <2>5. SameValues(c.opstack, w)
    <3> HIDE DEF K
    <3> QED
      BY <2>1, <2>2, <2>3, TurnedValues
  <2> QED
    BY <2>4, <2>5
<1> HIDE DEF u
<1>3. Sound(d)
  BY <1>2, RevalueSound
<1> HIDE DEF d
<1>4. Sound(LivenShells(d, Len(returns)))
  BY <1>3, LivenShellsSound
<1>5. Sound(Require(c, FALSE))
  BY RequireSound DEF Sound
<1> QED
  BY <1>1, <1>4, <1>5

(***************************************************************************)
(* Values and locals come and go.                                          *)
(***************************************************************************)

LEMMA RecordingAllocates ==
  ASSUME Recording, NEW list \in Stacks \cup Outputs
  PROVE  Allocated(list)
  BY DEF Recording

\* What AppendOpstack has done to the members: p is the value, of kind vst, e
\* its entry.
Appended(c, d, vst, p, e) ==
  /\ Shape(d) /\ d.ok = c.ok /\ d.il = c.il /\ d.journal = c.journal /\ d.meta = c.meta
  /\ d.localstack = c.localstack /\ d.v = p
  /\ Recording =>
       /\ d.opstack = Append(c.opstack, p) /\ d.stackjournal = Append(c.stackjournal, e)
       /\ IF vst \in StoredVST THEN \E a : a # "Pop" /\ d.actions = Append(c.actions, a)
          ELSE d.actions = c.actions

PlacedValue(c, v) ==
  IF ~Generating THEN v
  ELSE [v EXCEPT !.offset = OpstackBaseLocation(c) - OpstackUsed(v.vst),
                 !.sa = Len(c.actions), !.id = c.nextID]

PlacedEntry(p) ==
  [start |-> instrNum, type |-> p.type, offset |-> p.offset, vst |-> p.vst, id |-> p.id,
   record |-> FALSE]

LEMMA AppendOpstackFields ==
  ASSUME NEW c, Shape(c), NEW v
  PROVE  Appended(c, AppendOpstack(c, v), v.vst, PlacedValue(c, v), PlacedEntry(PlacedValue(c, v)))
<1> DEFINE p == PlacedValue(c, v)
           e == PlacedEntry(p)
           numbered == IF Generating THEN [c EXCEPT !.nextID = @ + 1,
                                                    !.lowest = -Larger(-@, -p.offset)]
                       ELSE c
           first == PushList(numbered, "opstack", p)
           pushed == PushList(first, "stackjournal", e)
           action == IF v.vst \in PointerVST THEN "PushPointer"
                     ELSE IF v.vst = "Varying" THEN "PushVarying" ELSE "PushValue"
           acted == PushList(pushed, "actions", action)
           more == IF Generating /\ v.vst \in StoredVST THEN acted ELSE pushed
           d == [more EXCEPT !.v = p]
<1>1. AppendOpstack(c, v) = d
  BY DEF AppendOpstack, PlacedValue, PlacedEntry
<1> HIDE DEF p, e, action
<1>2. Shape(numbered) /\ \A g \in CompFields \ {"nextID", "lowest"} : numbered[g] = c[g]
  <2>1. CASE Generating
    <3> DEFINE a == [c EXCEPT !.nextID = @ + 1, !.lowest = -Larger(-@, -p.offset)]
    <3>1. a = [g \in CompFields |-> a[g]]
          /\ \A g \in CompFields : g # "nextID" /\ g # "lowest" => a[g] = c[g]
      BY DEF Shape
    <3> HIDE DEF a
    <3>2. Shape(a)
      BY <3>1 DEF Shape, CompFields
    <3> QED
      BY <2>1, <3>1, <3>2 DEF a
  <2>2. CASE ~Generating
    BY <2>2
  <2> QED
    BY <2>1, <2>2
<1> HIDE DEF numbered
<1>3. /\ Shape(first) /\ \A g \in CompFields \ {"opstack", "maximum"} : first[g] = numbered[g]
      /\ Recording => first["opstack"] = Append(numbered["opstack"], p)
  <2>1. "opstack" \in Stacks \cup Outputs
    BY DEF Stacks
  <2> QED
    BY <1>2, <2>1, PushListFields, RecordingAllocates
<1> HIDE DEF first
<1>4. /\ Shape(pushed) /\ \A g \in CompFields \ {"stackjournal", "maximum"} : pushed[g] = first[g]
      /\ Recording => pushed["stackjournal"] = Append(first["stackjournal"], e)
  <2>1. "stackjournal" \in Stacks \cup Outputs
    BY DEF Stacks
  <2> QED
    BY <1>3, <2>1, PushListFields, RecordingAllocates
<1> HIDE DEF pushed
<1>5. /\ Shape(acted) /\ \A g \in CompFields \ {"actions", "maximum"} : acted[g] = pushed[g]
      /\ Recording => acted["actions"] = Append(pushed["actions"], action)
  <2>1. "actions" \in Stacks \cup Outputs
    BY DEF Outputs
  <2> QED
    BY <1>4, <2>1, PushListFields, RecordingAllocates
<1> HIDE DEF acted
<1>6. Shape(more) /\ \A g \in CompFields \ {"actions", "maximum"} : more[g] = pushed[g]
  BY <1>4, <1>5
<1>7. Recording => more["actions"] = IF v.vst \in StoredVST THEN Append(pushed["actions"], action)
                                     ELSE pushed["actions"]
  BY <1>5 DEF Recording
<1> HIDE DEF more
<1>8. Shape(d) /\ d["v"] = p /\ \A g \in CompFields : g # "v" => d[g] = more[g]
  <2>1. "v" \in CompFields
    BY DEF CompFields
  <2>2. d = [g \in CompFields |-> d[g]] /\ d["v"] = p /\ \A g \in CompFields : g # "v" => d[g] = more[g]
    BY <1>6, <2>1 DEF Shape
  <2> HIDE DEF d
  <2> QED
    BY <1>6, <2>2 DEF Shape, CompFields
<1> HIDE DEF d
<1>9. /\ d.ok = c.ok /\ d.il = c.il /\ d.journal = c.journal /\ d.meta = c.meta
      /\ d.localstack = c.localstack /\ d.v = p
  BY <1>2, <1>3, <1>4, <1>6, <1>8 DEF CompFields
<1>10. Recording => d.opstack = Append(c.opstack, p) /\ d.stackjournal = Append(c.stackjournal, e)
  BY <1>2, <1>3, <1>4, <1>6, <1>8 DEF CompFields
<1>11. Recording => d.actions = IF v.vst \in StoredVST THEN Append(c.actions, action) ELSE c.actions
  BY <1>2, <1>3, <1>4, <1>7, <1>8 DEF CompFields
<1>12. action # "Pop"
  BY DEF action
<1> QED
  BY <1>1, <1>8, <1>9, <1>10, <1>11, <1>12 DEF Appended, p, e

LEMMA EmptyListIs ==
  ASSUME NEW s, IsList(s)
  PROVE  Len(s) \in Nat /\ (s = <<>> <=> Len(s) = 0)
<1>1. Len(s) \in Nat /\ s = [k \in 1..Len(s) |-> s[k]]
  BY DEF IsList
<1>2. ASSUME Len(s) = 0
      PROVE  s = <<>>
  <2>1. s \in Seq({s[k] : k \in 1..Len(s)})
    BY ListInSeq
  <2> QED
    BY <1>2, <2>1, EmptySeq
<1> QED
  BY <1>1, <1>2, EmptyList

\* Where the next value is placed.
BaseOf(sj) == IF sj = <<>> THEN 0 ELSE sj[Len(sj)].offset

LEMMA BaseLocation ==
  ASSUME NEW c, NEW i, NEW n, NEW r, Full(c, i, n, r)
  PROVE  OpstackBaseLocation(c) = BaseOf(c.stackjournal) /\ BaseOf(c.stackjournal) \in Int
<1> DEFINE os == c.opstack
           ls == c.localstack
           sj == c.stackjournal
<1>1. IsList(os) /\ IsList(ls) /\ IsList(sj) /\ Entries(sj) /\ Matched(os, ls, sj) /\ Leading(ls, n)
  BY DEF Full, Lists, Entries
<1>2. /\ Len(os) \in Nat /\ (os = <<>> <=> Len(os) = 0)
      /\ Len(ls) \in Nat /\ (ls = <<>> <=> Len(ls) = 0)
      /\ Len(sj) \in Nat /\ (sj = <<>> <=> Len(sj) = 0)
  BY <1>1, EmptyListIs
<1>3. Len(sj) = Len(ls) + Len(os)
  BY <1>1 DEF Matched
<1>4. BaseOf(sj) \in Int
  <2>1. CASE sj = <<>>
    BY <2>1 DEF BaseOf
  <2>2. CASE sj # <<>>
    BY <1>1, <1>2, <2>2 DEF BaseOf, Entries, IsEntry
  <2> QED
    BY <2>1, <2>2
<1>5. CASE os # <<>>
  <2>1. Top(c, "opstack", 0) = os[Len(os)]
    BY <1>2, <1>5 DEF Top
  <2>2. sj # <<>> /\ sj[Len(sj)].offset = os[Len(os)].offset
    BY <1>1, <1>5, PopMatched
  <2> QED
    BY <1>4, <1>5, <2>1, <2>2 DEF OpstackBaseLocation, BaseOf
<1>6. CASE os = <<>> /\ ls = <<>>
  <2>1. Top(c, "localstack", 0) = NoLocal
    BY <1>2, <1>6 DEF Top, Zeros
  <2>2. sj = <<>>
    BY <1>2, <1>3, <1>6
  <2> QED
    BY <1>4, <1>6, <2>1, <2>2 DEF OpstackBaseLocation, BaseOf, NoLocal
<1>7. CASE os = <<>> /\ ls # <<>>
  <2>1. Top(c, "localstack", 0) = ls[Len(ls)]
    BY <1>2, <1>7 DEF Top
  <2>2. Len(ls) \in 1..Len(ls) /\ Len(sj) = Len(ls) /\ sj # <<>>
    BY <1>2, <1>3, <1>7
  <2>3. sj[Len(sj)].offset = ls[Len(ls)].offset
    BY <1>1, <2>2 DEF Matched
  <2>4. ls[Len(ls)].parameter => ls[Len(ls)].offset = 0
    BY <1>1, <2>2 DEF Leading
  <2> QED
    BY <1>4, <1>7, <2>1, <2>2, <2>3, <2>4 DEF OpstackBaseLocation, BaseOf
<1> QED
  BY <1>5, <1>6, <1>7

LEMMA PlacedValueIs ==
  ASSUME NEW c, NEW v, IsValue(v), Generating, OpstackBaseLocation(c) \in Int
  PROVE  LET p == PlacedValue(c, v)
             e == PlacedEntry(p)
         IN  /\ IsValue(p) /\ p.vst = v.vst /\ p.sa = Len(c.actions)
             /\ p.offset = OpstackBaseLocation(c) - OpstackUsed(v.vst)
             /\ instrNum \in Int => IsEntry(e)
             /\ e.start = instrNum /\ e.offset = p.offset /\ e.vst = v.vst
<1> DEFINE p == PlacedValue(c, v)
           e == PlacedEntry(p)
<1>1. p = [v EXCEPT !.offset = OpstackBaseLocation(c) - OpstackUsed(v.vst),
                    !.sa = Len(c.actions), !.id = c.nextID]
  BY DEF PlacedValue
<1> HIDE DEF p
<1>2. /\ IsRecord(p, ValueFields) /\ p.vst = v.vst /\ p.sa = Len(c.actions)
      /\ p.offset = OpstackBaseLocation(c) - OpstackUsed(v.vst)
  BY <1>1 DEF IsValue, IsRecord, ValueFields
<1>3. IsValue(p)
  BY <1>2 DEF IsValue
<1>4. e.start = instrNum /\ e.offset = p.offset /\ e.vst = p.vst /\ IsRecord(e, EntryFields)
  BY DEF PlacedEntry, IsRecord, EntryFields
<1> HIDE DEF e
<1>5. OpstackUsed(v.vst) \in {0, 1}
  BY DEF OpstackUsed
<1>6. p.offset \in Int
  BY <1>2, <1>5
<1>7. instrNum \in Int => IsEntry(e)
  BY <1>4, <1>6 DEF IsEntry
<1> QED
  BY <1>2, <1>3, <1>4, <1>7 DEF p, e

LEMMA AppendOpstackSound ==
  ASSUME Context, NEW c, Sound(c), NEW v, Recording /\ c.ok => IsValue(v)
  PROVE  Sound(AppendOpstack(c, v))
<1> DEFINE n == NumParameters
           r == Len(method.returns)
           p == PlacedValue(c, v)
           e == PlacedEntry(p)
           d == AppendOpstack(c, v)
<1>1. Appended(c, d, v.vst, p, e)
  BY AppendOpstackFields DEF Sound, SoundWith
<1>2. n \in Nat /\ r \in Nat /\ instrNum \in Nat
  BY DEF Context
<1> HIDE DEF d
<1>3. SUFFICES ASSUME Recording, d.ok
               PROVE  Full(d, instrNum, n, r)
  BY <1>1 DEF Sound, SoundWith, Appended, d
<1>4. Full(c, instrNum, n, r) /\ IsValue(v)
  BY <1>1, <1>3 DEF Sound, SoundWith, Appended
<1>5. OpstackBaseLocation(c) = BaseOf(c.stackjournal) /\ BaseOf(c.stackjournal) \in Int
  BY <1>4, BaseLocation
<1>6. /\ IsValue(p) /\ p.vst = v.vst /\ p.sa = Len(c.actions)
      /\ p.offset = OpstackBaseLocation(c) - OpstackUsed(v.vst)
      /\ IsEntry(e) /\ e.start = instrNum /\ e.offset = p.offset /\ e.vst = v.vst
  BY <1>2, <1>3, <1>4, <1>5, PlacedValueIs DEF Recording
<1> HIDE DEF p, e
<1> DEFINE os == c.opstack
           ls == c.localstack
           sj == c.stackjournal
<1>7. /\ IsList(os) /\ IsList(ls) /\ Entries(sj) /\ IsList(c.il) /\ IsList(c.journal) /\ IsList(c.actions)
      /\ Matched(os, ls, sj) /\ Leading(ls, n) /\ Descending(sj, n)
      /\ Spans(sj, c.journal, n, instrNum) /\ Timed(c.meta, c.il, instrNum)
      /\ Replay(c.actions) = Pushed(os, ls, r)
      /\ \A k \in 1..Len(os) : IsValue(os[k])
      /\ \A k \in 1..Len(c.journal) : IsRecord(c.journal[k], SpanFields)
  BY <1>4 DEF Full, Lists, Entries
<1>8. /\ d.opstack = Append(os, p) /\ d.stackjournal = Append(sj, e) /\ d.localstack = ls
      /\ d.il = c.il /\ d.journal = c.journal /\ d.meta = c.meta
      /\ IF v.vst \in StoredVST THEN \E a : a # "Pop" /\ d.actions = Append(c.actions, a)
         ELSE d.actions = c.actions
  BY <1>1, <1>3 DEF Appended
<1> HIDE DEF os, ls, sj
<1>9. Placed(e) <=> p.vst \in StoredVST
  BY <1>4, <1>6 DEF Placed, IsValue, StoredVST, PointerVST
<1>10. Entries(d.stackjournal)
  BY <1>6, <1>7, <1>8, PushEntry
<1>11. Matched(d.opstack, d.localstack, d.stackjournal)
  BY <1>6, <1>7, <1>8, <1>9, PushMatched
<1>12. Descending(d.stackjournal, n)
  <2>1. OpstackUsed(v.vst) \in {0, 1} /\ (p.vst \in StoredVST => OpstackUsed(v.vst) = 1)
    BY <1>6 DEF OpstackUsed
  <2>2. sj # <<>> => e.offset <= sj[Len(sj)].offset /\ (Placed(e) => e.offset < sj[Len(sj)].offset)
    <3>1. SUFFICES ASSUME sj # <<>>
                   PROVE  e.offset <= sj[Len(sj)].offset /\ (Placed(e) => e.offset < sj[Len(sj)].offset)
      OBVIOUS
    <3>2. BaseOf(sj) = sj[Len(sj)].offset
      BY <3>1 DEF BaseOf
    <3> QED
      BY <1>5, <1>6, <1>9, <2>1, <3>2 DEF sj
  <2> QED
    BY <1>2, <1>6, <1>7, <1>8, <2>2, PushDescending
<1>13. Spans(d.stackjournal, d.journal, n, instrNum)
  BY <1>2, <1>6, <1>7, <1>8, PushSpans
<1>14. Lists(d)
  <2>1. IsList(d.opstack) /\ Len(d.opstack) = Len(os) + 1 /\ d.opstack[Len(os) + 1] = p
        /\ (\A k \in 1..Len(os) : d.opstack[k] = os[k]) /\ Len(os) \in Nat
    BY <1>7, <1>8, AppendList, EmptyListIs
  <2>2. \A k \in 1..Len(d.opstack) : IsValue(d.opstack[k])
    BY <1>6, <1>7, <2>1
  <2>3. IsList(d.actions)
    <3>1. CASE v.vst \in StoredVST
      <4>1. PICK a : a # "Pop" /\ d.actions = Append(c.actions, a)
        BY <1>8, <3>1
      <4> QED
        BY <1>7, <4>1, AppendList
    <3>2. CASE v.vst \notin StoredVST
      BY <1>7, <1>8, <3>2
    <3> QED
      BY <3>1, <3>2
  <2>4. IsList(d.stackjournal) /\ \A k \in 1..Len(d.stackjournal) : IsEntry(d.stackjournal[k])
    BY <1>10 DEF Entries
  <2> QED
    BY <1>7, <1>8, <2>1, <2>2, <2>3, <2>4 DEF Lists
<1>15. Replay(d.actions) = Pushed(d.opstack, d.localstack, r)
  <2>1. Pushed(d.opstack, d.localstack, r) =
          IF p.vst \in StoredVST THEN Append(Pushed(os, ls, r), p.sa) ELSE Pushed(os, ls, r)
    <3>1. Pushed(Append(os, p), ls, r) =
            IF p.vst \in StoredVST THEN Append(Pushed(os, ls, r), p.sa) ELSE Pushed(os, ls, r)
      <4> HIDE DEF r
      <4> QED
        BY <1>2, <1>7, PushedValue
    <3> QED
      BY <1>8, <3>1
  <2>2. CASE v.vst \in StoredVST
    <3>1. PICK a : a # "Pop" /\ d.actions = Append(c.actions, a)
      BY <1>8, <2>2
    <3>2. Replay(d.actions) = Append(Replay(c.actions), Len(c.actions))
      BY <1>7, <3>1, ReplayAppend
    <3> QED
      BY <1>6, <1>7, <2>1, <2>2, <3>2
  <2>3. CASE v.vst \notin StoredVST
    BY <1>6, <1>7, <1>8, <2>1, <2>3
  <2> QED
    BY <2>2, <2>3
<1> QED
  BY <1>7, <1>8, <1>11, <1>12, <1>13, <1>14, <1>15 DEF Full


LEMMA PopListFields ==
  ASSUME NEW c, Shape(c), NEW list \in Stacks
  PROVE  LET d == PopList(c, list)
         IN  /\ Shape(d) /\ (d.ok => c.ok /\ c[list] # <<>> /\ d[list] = AllButLast(c[list]))
             /\ \A g \in CompFields \ {list, "ok"} : d[g] = c[g]
<1> DEFINE d == PopList(c, list)
<1>1. list \in CompFields /\ list # "maximum" /\ list # "meta" /\ list # "ok" /\ "ok" \in CompFields
      /\ "meta" \in CompFields
  BY DEF Stacks, CompFields
<1>2. CASE c[list] = <<>>
  <2>1. d = [g \in CompFields |-> IF g = "ok" THEN FALSE ELSE c[g]]
    BY <1>1, <1>2 DEF PopList, Shape
  <2> HIDE DEF d
  <2>2. Shape(d) /\ ~d.ok /\ \A g \in CompFields \ {list, "ok"} : d[g] = c[g]
    BY <1>1, <2>1 DEF Shape
  <2> QED
    BY <2>2 DEF d
<1>3. CASE c[list] # <<>>
  <2>1. d = [g \in CompFields |-> IF g = list THEN AllButLast(c[list]) ELSE c[g]]
    BY <1>1, <1>3 DEF PopList, Shape, AllButLast
  <2> HIDE DEF d
  <2>2. Shape(d) /\ d.ok = c.ok /\ d[list] = AllButLast(c[list])
        /\ \A g \in CompFields \ {list, "ok"} : d[g] = c[g]
    BY <1>1, <2>1 DEF Shape
  <2> QED
    BY <1>3, <2>2 DEF d
<1> QED
  BY <1>2, <1>3

\* What PopOpstack has done to the members: v is the value, e its entry.
Popped(c, d, expected, v, e) ==
  /\ Shape(d) /\ d.il = c.il /\ d.meta = c.meta /\ d.localstack = c.localstack /\ d.v = v
  /\ d.ok => c.ok /\ c.opstack # <<>> /\ c.stackjournal # <<>> /\ (Generating => PopMatches(expected, v))
  /\ d.ok => d.opstack = AllButLast(c.opstack) /\ d.stackjournal = AllButLast(c.stackjournal)
  /\ Recording =>
       /\ \/ d.journal = c.journal
          \/ /\ Placed(e)
             /\ \E t : d.journal = Append(c.journal, [start |-> e.start, end |-> instrNum,
                                       offset |-> e.offset, type |-> t, parameter |-> FALSE])
       /\ d.actions = IF v.vst \in StoredVST THEN Append(c.actions, "Pop") ELSE c.actions

LEMMA PopOpstackFields ==
  ASSUME NEW c, Shape(c), NEW expected
  PROVE  Popped(c, PopOpstack(c, expected), expected, Top(c, "opstack", 0), Top(c, "stackjournal", 0))
<1> DEFINE w == Top(c, "opstack", 0)
           e == Top(c, "stackjournal", 0)
           t == IF w.demoted THEN w.type ELSE e.type
           q == [start |-> e.start, end |-> instrNum, offset |-> e.offset, type |-> t, parameter |-> FALSE]
           checked == Require(PopList(PopList(c, "opstack"), "stackjournal"), Generating => PopMatches(expected, w))
           journaled == JournalPopped(checked, e, w)
           d == RecordPop(journaled, w)
<1>1. PopOpstack(c, expected) = d
  BY DEF PopOpstack
<1>13. q = [start |-> e.start, end |-> instrNum, offset |-> e.offset, type |-> t, parameter |-> FALSE]
  OBVIOUS
<1> HIDE DEF w, e, t, q, checked, journaled, d
<1> DEFINE first == PopList(c, "opstack")
           popped == PopList(first, "stackjournal")
           written == Journal(checked, e, w)
           acted == PushList(journaled, "actions", "Pop")
           more == IF Generating /\ w.vst \in StoredVST THEN acted ELSE journaled
<1>20. checked = Require(popped, Generating => PopMatches(expected, w))
  BY DEF checked
<1>21. journaled = IF Generating /\ e.record /\ e.vst \notin {"Barrier", "LocalRef"} THEN written ELSE checked
  BY DEF journaled, JournalPopped
<1>22. d = [more EXCEPT !.v = w]
  BY DEF d, RecordPop
<1>2. /\ Shape(first) /\ (first.ok => c.ok /\ c["opstack"] # <<>> /\ first["opstack"] = AllButLast(c["opstack"]))
      /\ \A g \in CompFields \ {"opstack", "ok"} : first[g] = c[g]
  <2>1. "opstack" \in Stacks
    BY DEF Stacks
  <2> QED
    BY <2>1, PopListFields
<1> HIDE DEF first
<1>3. /\ Shape(popped)
      /\ (popped.ok => first.ok /\ first["stackjournal"] # <<>>
                       /\ popped["stackjournal"] = AllButLast(first["stackjournal"]))
      /\ \A g \in CompFields \ {"stackjournal", "ok"} : popped[g] = first[g]
  <2>1. "stackjournal" \in Stacks
    BY DEF Stacks
  <2> QED
    BY <1>2, <2>1, PopListFields
<1> HIDE DEF popped
<1>4. /\ Shape(checked) /\ (checked.ok => popped.ok /\ (Generating => PopMatches(expected, w)))
      /\ SameStacks(popped, checked)
      /\ checked.il = popped.il /\ checked.journal = popped.journal /\ checked.meta = popped.meta
  <2> DEFINE condition == Generating => PopMatches(expected, w)
  <2> HIDE DEF condition
  <2>1. LET x == Require(popped, condition)
        IN  /\ Shape(x) /\ (x.ok => popped.ok /\ condition) /\ SameStacks(popped, x)
            /\ x.il = popped.il /\ x.journal = popped.journal /\ x.meta = popped.meta
    BY <1>3, RequireFields
  <2> QED
    BY <1>20, <2>1 DEF condition
<1>5. /\ Shape(written) /\ \A g \in CompFields \ {"journal", "maximum"} : written[g] = checked[g]
      /\ Recording => written["journal"] = Append(checked["journal"], q)
  <2>1. "journal" \in Stacks \cup Outputs
    BY DEF Outputs
  <2>2. written = PushList(checked, "journal", q)
    BY DEF Journal, q, t
  <2> HIDE DEF written
  <2> QED
    BY <1>4, <2>1, <2>2, PushListFields, RecordingAllocates
<1> HIDE DEF written
<1>6. Shape(journaled) /\ \A g \in CompFields \ {"journal", "maximum"} : journaled[g] = checked[g]
  BY <1>4, <1>5, <1>21
<1>7. Recording => \/ journaled["journal"] = checked["journal"]
                   \/ Placed(e) /\ journaled["journal"] = Append(checked["journal"], q)
  BY <1>5, <1>21 DEF Placed
<1>8. /\ Shape(acted) /\ \A g \in CompFields \ {"actions", "maximum"} : acted[g] = journaled[g]
      /\ Recording => acted["actions"] = Append(journaled["actions"], "Pop")
  <2>1. "actions" \in Stacks \cup Outputs
    BY DEF Outputs
  <2> QED
    BY <1>6, <2>1, PushListFields, RecordingAllocates
<1> HIDE DEF acted
<1>9. Shape(more) /\ \A g \in CompFields \ {"actions", "maximum"} : more[g] = journaled[g]
  BY <1>6, <1>8
<1>10. Recording => more["actions"] = IF w.vst \in StoredVST THEN Append(journaled["actions"], "Pop")
                                      ELSE journaled["actions"]
  BY <1>8 DEF Recording
<1> HIDE DEF more
<1>11. Shape(d) /\ d["v"] = w /\ \A g \in CompFields : g # "v" => d[g] = more[g]
  <2>1. "v" \in CompFields
    BY DEF CompFields
  <2>2. d = [g \in CompFields |-> d[g]] /\ d["v"] = w /\ \A g \in CompFields : g # "v" => d[g] = more[g]
    BY <1>9, <1>22, <2>1 DEF Shape
  <2> QED
    BY <1>9, <2>2 DEF Shape, CompFields
<1>12. d.il = checked.il /\ d.meta = checked.meta /\ d.localstack = checked.localstack /\ d.v = w
       /\ d.ok = checked.ok /\ d.opstack = checked.opstack /\ d.stackjournal = checked.stackjournal
       /\ d.journal = journaled.journal /\ d.actions = more.actions
  BY <1>6, <1>9, <1>11 DEF CompFields
<1>14. /\ checked.il = c.il /\ checked.meta = c.meta /\ checked.localstack = c.localstack
       /\ checked.journal = c.journal /\ checked.actions = c.actions
       /\ checked.opstack = first.opstack /\ first.stackjournal = c.stackjournal
       /\ checked.stackjournal = popped.stackjournal
  BY <1>2, <1>3, <1>4 DEF CompFields, SameStacks
<1>15. journaled.actions = c.actions
  BY <1>6, <1>14 DEF CompFields
<1>16. d.ok => /\ c.ok /\ c.opstack # <<>> /\ c.stackjournal # <<>> /\ (Generating => PopMatches(expected, w))
               /\ d.opstack = AllButLast(c.opstack) /\ d.stackjournal = AllButLast(c.stackjournal)
  BY <1>2, <1>3, <1>4, <1>12, <1>14
<1>17. Recording => /\ \/ d.journal = c.journal
                       \/ Placed(e) /\ d.journal = Append(c.journal, q)
                    /\ d.actions = IF w.vst \in StoredVST THEN Append(c.actions, "Pop") ELSE c.actions
  BY <1>7, <1>10, <1>12, <1>14, <1>15
<1>18. Shape(d) /\ d.il = c.il /\ d.meta = c.meta /\ d.localstack = c.localstack /\ d.v = w
  BY <1>11, <1>12, <1>14
<1>19. Popped(c, d, expected, w, e)
  BY <1>13, <1>16, <1>17, <1>18 DEF Popped
<1> QED
  BY <1>1, <1>19 DEF w, e

LEMMA PopOpstackSound ==
  ASSUME Context, NEW c, Sound(c), NEW expected
  PROVE  /\ Sound(PopOpstack(c, expected))
         /\ Recording /\ PopOpstack(c, expected).ok => IsValue(PopOpstack(c, expected).v)
<1> DEFINE n == NumParameters
           r == Len(method.returns)
           w == Top(c, "opstack", 0)
           e == Top(c, "stackjournal", 0)
           d == PopOpstack(c, expected)
<1>1. Popped(c, d, expected, w, e)
  BY PopOpstackFields DEF Sound, SoundWith
<1>2. n \in Nat /\ r \in Nat /\ instrNum \in Nat
  BY DEF Context
<1> HIDE DEF d
<1>3. SUFFICES ASSUME Recording, d.ok
               PROVE  Full(d, instrNum, n, r) /\ IsValue(d.v)
  BY <1>1 DEF Sound, SoundWith, Popped, d
<1>4. Full(c, instrNum, n, r)
  BY <1>1, <1>3 DEF Sound, SoundWith, Popped
<1> DEFINE os == c.opstack
           ls == c.localstack
           sj == c.stackjournal
<1>5. /\ IsList(os) /\ IsList(ls) /\ Entries(sj) /\ IsList(c.il) /\ IsList(c.journal) /\ IsList(c.actions)
      /\ Matched(os, ls, sj) /\ Leading(ls, n) /\ Descending(sj, n)
      /\ Spans(sj, c.journal, n, instrNum) /\ Timed(c.meta, c.il, instrNum)
      /\ Replay(c.actions) = Pushed(os, ls, r)
      /\ \A k \in 1..Len(os) : IsValue(os[k])
      /\ \A k \in 1..Len(c.journal) : IsRecord(c.journal[k], SpanFields)
  BY <1>4 DEF Full, Lists, Entries
<1>6. os # <<>> /\ sj # <<>> /\ d.opstack = AllButLast(os) /\ d.stackjournal = AllButLast(sj)
      /\ d.il = c.il /\ d.meta = c.meta /\ d.localstack = ls /\ d.v = w
  BY <1>1, <1>3 DEF Popped
<1>7. /\ \/ d.journal = c.journal
         \/ /\ Placed(e)
            /\ \E t : d.journal = Append(c.journal, [start |-> e.start, end |-> instrNum,
                                      offset |-> e.offset, type |-> t, parameter |-> FALSE])
      /\ d.actions = IF w.vst \in StoredVST THEN Append(c.actions, "Pop") ELSE c.actions
  BY <1>1, <1>3 DEF Popped
<1>8. /\ Len(os) \in Nat /\ (os = <<>> <=> Len(os) = 0)
      /\ Len(ls) \in Nat /\ (ls = <<>> <=> Len(ls) = 0)
      /\ Len(sj) \in Nat /\ (sj = <<>> <=> Len(sj) = 0)
  BY <1>5, EmptyListIs DEF Entries
<1>9. w = os[Len(os)] /\ e = sj[Len(sj)] /\ Len(os) \in 1..Len(os)
  BY <1>6, <1>8 DEF Top
<1> HIDE DEF os, ls, sj, w, e
<1>10. Len(sj) > n /\ n <= Len(ls)
  BY <1>2, <1>5, <1>6, <1>8 DEF Matched, Leading
<1>11. Matched(d.opstack, d.localstack, d.stackjournal)
  BY <1>5, <1>6, PopMatched
<1>12. Descending(d.stackjournal, n)
  BY <1>2, <1>5, <1>6, PopDescending
<1>13. Spans(d.stackjournal, d.journal, n, instrNum) /\ IsList(d.journal)
       /\ \A k \in 1..Len(d.journal) : IsRecord(d.journal[k], SpanFields)
  <2>1. CASE d.journal = c.journal
    BY <1>5, <1>6, <2>1, PopSpans
  <2>2. CASE d.journal # c.journal
    <3>1. Placed(e)
      BY <1>7, <2>2
    <3>2. PICK t : d.journal = Append(c.journal, [start |-> e.start, end |-> instrNum,
                                      offset |-> e.offset, type |-> t, parameter |-> FALSE])
      BY <1>7, <2>2
    <3> DEFINE q == [start |-> e.start, end |-> instrNum, offset |-> e.offset, type |-> t,
                     parameter |-> FALSE]
    <3>3. ~q.parameter /\ q.start = sj[Len(sj)].start /\ q.end = instrNum
          /\ q.offset = sj[Len(sj)].offset /\ IsRecord(q, SpanFields)
      BY <1>9 DEF IsRecord, SpanFields
    <3>4. d.journal = Append(c.journal, q)
      BY <3>2
    <3> HIDE DEF q
    <3>5. Spans(AllButLast(sj), Append(c.journal, q), n, instrNum)
      BY <1>2, <1>5, <1>6, <1>9, <1>10, <3>1, <3>3, PopSpan
    <3>6. IsList(Append(c.journal, q)) /\ Len(Append(c.journal, q)) = Len(c.journal) + 1
          /\ Append(c.journal, q)[Len(c.journal) + 1] = q /\ Len(c.journal) \in Nat
          /\ \A k \in 1..Len(c.journal) : Append(c.journal, q)[k] = c.journal[k]
      BY <1>5, AppendList, EmptyListIs
    <3>7. \A k \in 1..Len(c.journal) + 1 : IsRecord(Append(c.journal, q)[k], SpanFields)
      BY <1>5, <3>3, <3>6
    <3> QED
      BY <1>6, <3>4, <3>5, <3>6, <3>7
  <2> QED
    BY <2>1, <2>2
<1>14. IsList(AllButLast(os)) /\ Len(AllButLast(os)) = Len(os) - 1
       /\ \A k \in 1..Len(os) - 1 : AllButLast(os)[k] = os[k]
  BY <1>5, <1>6, FrontList DEF AllButLast
<1>15. Lists(d)
  <2>1. IsList(d.opstack) /\ \A k \in 1..Len(d.opstack) : IsValue(d.opstack[k])
    BY <1>5, <1>6, <1>8, <1>14
  <2>2. IsList(d.actions)
    BY <1>5, <1>7, AppendList
  <2>3. IsList(d.stackjournal) /\ \A k \in 1..Len(d.stackjournal) : IsEntry(d.stackjournal[k])
    BY <1>5, <1>6, PopEntry DEF Entries
  <2> QED
    BY <1>5, <1>6, <1>13, <2>1, <2>2, <2>3 DEF Lists
<1>16. Replay(d.actions) = Pushed(d.opstack, d.localstack, r)
  <2>1. os = Append(AllButLast(os), w)
    BY <1>5, <1>6, <1>9, AppendToFront DEF AllButLast
  <2>2. IsList(AllButLast(os)) /\ IsList(ls)
    BY <1>5, <1>14
  <2> DEFINE fs == AllButLast(os)
  <2> HIDE DEF fs, r
  <2>3. Pushed(Append(fs, w), ls, r) =
          IF w.vst \in StoredVST THEN Append(Pushed(fs, ls, r), w.sa) ELSE Pushed(fs, ls, r)
    BY <1>2, <2>2, PushedValue DEF fs
  <2>4. IsList(Pushed(fs, ls, r))
    BY <1>2, <2>2, PushedParts DEF fs
  <2>5. Pushed(os, ls, r) = Pushed(Append(fs, w), ls, r)
    BY <2>1 DEF fs
  <2>6. CASE w.vst \in StoredVST
    <3>1. Replay(d.actions) = SubSeq(Replay(c.actions), 1, Len(Replay(c.actions)) - 1)
      BY <1>5, <1>7, <2>6, ReplayAppend
    <3>2. Replay(c.actions) = Append(Pushed(fs, ls, r), w.sa)
      BY <1>5, <2>3, <2>5, <2>6
    <3>3. Replay(d.actions) = Pushed(fs, ls, r)
      BY <2>4, <3>1, <3>2, FrontOfAppend
    <3> QED
      BY <1>6, <3>3 DEF fs
  <2>7. CASE w.vst \notin StoredVST
    BY <1>5, <1>6, <1>7, <2>3, <2>5, <2>7 DEF fs
  <2> QED
    BY <2>6, <2>7
<1>17. IsValue(d.v)
  BY <1>5, <1>6, <1>9
<1> QED
  BY <1>5, <1>6, <1>11, <1>12, <1>13, <1>15, <1>16, <1>17 DEF Full

\* What AppendLocal has done to the members: l is the local, e its entry.
LocalAppended(c, d, l, e) ==
  /\ Shape(d) /\ (d.ok => c.ok) /\ d.il = c.il /\ d.journal = c.journal /\ d.meta = c.meta
  /\ d.opstack = c.opstack
  /\ Recording =>
       /\ d.localstack = Append(c.localstack, l) /\ d.stackjournal = Append(c.stackjournal, e)
       /\ \E a : a # "Pop" /\ d.actions = Append(c.actions, a)

LocalOffset(c, param) == IF param.parameter THEN 0 ELSE Top(c, "localstack", 0).offset - 1

NewLocal(c, t, created, param) ==
  [type |-> t, pointer |-> param.pointer, parameter |-> param.parameter, const |-> param.const,
   notNull |-> param.notNull, offset |-> LocalOffset(c, param), created |-> created,
   sa |-> Len(c.actions)]

LocalEntry(c, t, param) ==
  [start |-> instrNum, type |-> t, offset |-> LocalOffset(c, param), vst |-> "Value", id |-> c.nextID,
   record |-> FALSE]

LEMMA AppendLocalFields ==
  ASSUME NEW c, Shape(c), NEW t, NEW created, NEW param
  PROVE  LocalAppended(c, AppendLocal(c, t, created, param), NewLocal(c, t, created, param),
                       LocalEntry(c, t, param))
<1> DEFINE offset == LocalOffset(c, param)
           numbered == [c EXCEPT !.nextID = @ + 1, !.lowest = -Larger(-@, -offset)]
           e == LocalEntry(c, t, param)
           l == NewLocal(c, t, created, param)
           m == [type |-> t, pointer |-> param.pointer, parameter |-> param.parameter,
                 const |-> param.const, notNull |-> param.notNull, offset |-> offset,
                 created |-> created, sa |-> Len(numbered.actions)]
           a == IF param.parameter THEN "PushParameter" ELSE "PushLocal"
           first == PushList(numbered, "stackjournal", e)
           pushed == PushList(first, "localstack", l)
           checked == Require(pushed, t # Null)
           d == PushList(checked, "actions", a)
<1>1. AppendLocal(c, t, created, param) = d
  BY DEF AppendLocal, LocalOffset, LocalEntry, NewLocal
<1>12. a # "Pop"
  OBVIOUS
<1> HIDE DEF offset, e, l, a
<1>2. Shape(numbered) /\ \A g \in CompFields \ {"nextID", "lowest"} : numbered[g] = c[g]
  <2>1. numbered = [g \in CompFields |-> numbered[g]]
        /\ \A g \in CompFields : g # "nextID" /\ g # "lowest" => numbered[g] = c[g]
    BY DEF Shape
  <2> HIDE DEF numbered
  <2> QED
    BY <2>1 DEF Shape, CompFields
<1> HIDE DEF numbered
<1>3. /\ Shape(first) /\ \A g \in CompFields \ {"stackjournal", "maximum"} : first[g] = numbered[g]
      /\ Recording => first["stackjournal"] = Append(numbered["stackjournal"], e)
  <2>1. "stackjournal" \in Stacks \cup Outputs
    BY DEF Stacks
  <2> QED
    BY <1>2, <2>1, PushListFields, RecordingAllocates
<1> HIDE DEF first
<1>4. /\ Shape(pushed) /\ \A g \in CompFields \ {"localstack", "maximum"} : pushed[g] = first[g]
      /\ Recording => pushed["localstack"] = Append(first["localstack"], l)
  <2>1. "localstack" \in Stacks \cup Outputs
    BY DEF Stacks
  <2> QED
    BY <1>3, <2>1, PushListFields, RecordingAllocates
<1> HIDE DEF pushed
<1>5. /\ Shape(checked) /\ (checked.ok => pushed.ok) /\ SameStacks(pushed, checked)
      /\ checked.il = pushed.il /\ checked.journal = pushed.journal /\ checked.meta = pushed.meta
  BY <1>4, RequireFields
<1> HIDE DEF checked
<1>6. /\ Shape(d) /\ \A g \in CompFields \ {"actions", "maximum"} : d[g] = checked[g]
      /\ Recording => d["actions"] = Append(checked["actions"], a)
  <2>1. "actions" \in Stacks \cup Outputs
    BY DEF Outputs
  <2> QED
    BY <1>5, <2>1, PushListFields, RecordingAllocates
<1> HIDE DEF d
<1>7. /\ (d.ok => c.ok) /\ d.il = c.il /\ d.journal = c.journal /\ d.meta = c.meta
      /\ d.opstack = c.opstack
  BY <1>2, <1>3, <1>4, <1>5, <1>6 DEF CompFields, SameStacks
<1>8. Recording => d.localstack = Append(c.localstack, l) /\ d.stackjournal = Append(c.stackjournal, e)
  BY <1>2, <1>3, <1>4, <1>5, <1>6 DEF CompFields, SameStacks
<1>9. Recording => d.actions = Append(c.actions, a)
  BY <1>2, <1>3, <1>4, <1>5, <1>6 DEF CompFields, SameStacks
<1> QED
  BY <1>1, <1>6, <1>7, <1>8, <1>9, <1>12 DEF LocalAppended, e, l

\* A local is pushed: a parameter before all else, any other one below what
\* is on the stacks.
LEMMA FullWithLocal ==
  ASSUME NEW c, NEW d, NEW i \in Int, NEW n \in Nat, NEW m \in Nat, NEW r \in Nat,
         Full(c, i, n, r), c.opstack = <<>>, NEW l, NEW e, NEW a, a # "Pop",
         d.opstack = c.opstack, d.localstack = Append(c.localstack, l),
         d.stackjournal = Append(c.stackjournal, e), d.actions = Append(c.actions, a),
         d.il = c.il, d.journal = c.journal, d.meta = c.meta,
         l.sa = Len(c.actions), l.offset = e.offset, e.start = i, IsEntry(e), Placed(e),
         IF l.parameter THEN m = n + 1 /\ Len(c.localstack) = n /\ l.offset = 0
         ELSE m = n /\ i \in Nat /\ l.offset = BaseOf(c.stackjournal) - 1
  PROVE  Full(d, i, m, r)
<1> DEFINE ls == c.localstack
           sj == c.stackjournal
<1>1. /\ IsList(c.opstack) /\ IsList(ls) /\ Entries(sj) /\ IsList(c.il) /\ IsList(c.journal) /\ IsList(c.actions)
      /\ Matched(<<>>, ls, sj) /\ Leading(ls, n) /\ Descending(sj, n)
      /\ Spans(sj, c.journal, n, i) /\ Timed(c.meta, c.il, i)
      /\ Replay(c.actions) = Pushed(<<>>, ls, r)
      /\ \A k \in 1..Len(c.opstack) : IsValue(c.opstack[k])
      /\ \A k \in 1..Len(c.journal) : IsRecord(c.journal[k], SpanFields)
  BY DEF Full, Lists, Entries
<1>2. /\ Len(ls) \in Nat /\ (ls = <<>> <=> Len(ls) = 0)
      /\ Len(sj) \in Nat /\ (sj = <<>> <=> Len(sj) = 0) /\ Len(sj) = Len(ls)
  BY <1>1, EmptyListIs, EmptyList DEF Entries, Matched
<1>3. d.opstack = <<>> /\ d.localstack = Append(ls, l) /\ d.stackjournal = Append(sj, e)
  OBVIOUS
<1>4. /\ IsList(Append(ls, l)) /\ Len(Append(ls, l)) = Len(ls) + 1 /\ Append(ls, l)[Len(ls) + 1] = l
      /\ \A k \in 1..Len(ls) : Append(ls, l)[k] = ls[k]
  BY <1>1, AppendList
<1>5. BaseOf(sj) \in Int
  BY BaseLocation
<1>6. sj # <<>> => BaseOf(sj) = sj[Len(sj)].offset
  BY DEF BaseOf
<1>7. l.parameter /\ sj # <<>> => sj[Len(sj)].offset = 0
  <2>1. SUFFICES ASSUME l.parameter, sj # <<>>
                 PROVE  sj[Len(sj)].offset = 0
    OBVIOUS
  <2>2. Len(ls) = n /\ Len(sj) \in 1..Len(ls)
    BY <1>2, <2>1
  <2>3. ls[Len(sj)].offset = 0
    BY <1>1, <2>2 DEF Leading
  <2> QED
    BY <1>1, <2>2, <2>3 DEF Matched
<1> HIDE DEF ls, sj
<1>8. Entries(d.stackjournal)
  BY <1>1, <1>3, PushEntry
<1>9. Matched(d.opstack, d.localstack, d.stackjournal)
  BY <1>1, <1>3, PushLocalMatched
<1>10. Leading(d.localstack, m)
  <2> DEFINE t == Append(ls, l)
  <2>1. /\ n <= Len(ls)
        /\ \A k \in 1..Len(ls) : k <= n \/ ls[k].parameter => ls[k].offset = 0
    BY <1>1 DEF Leading
  <2>2. IF l.parameter THEN m = n + 1 /\ Len(ls) = n /\ l.offset = 0 ELSE m = n
    BY DEF ls
  <2>3. Len(t) = Len(ls) + 1 /\ t[Len(ls) + 1] = l /\ \A k \in 1..Len(ls) : t[k] = ls[k]
    BY <1>4
  <2> HIDE DEF t
  <2>4. ASSUME NEW k \in 1..Len(t), k <= m \/ t[k].parameter
        PROVE  t[k].offset = 0
    <3>1. CASE k = Len(ls) + 1
      BY <1>2, <2>1, <2>2, <2>3, <2>4, <3>1
    <3>2. CASE k \in 1..Len(ls)
      <4>1. t[k] = ls[k] /\ (k <= n \/ ls[k].parameter)
        BY <1>2, <2>2, <2>3, <2>4, <3>2
      <4> QED
        BY <2>1, <3>2, <4>1
    <3> QED
      BY <1>2, <2>3, <3>1, <3>2
  <2>5. m <= Len(t)
    BY <1>2, <2>1, <2>2, <2>3
  <2> QED
    BY <1>3, <2>4, <2>5 DEF Leading, t
<1>11. Descending(sj, m) /\ Spans(sj, c.journal, m, i)
  BY <1>1 DEF Descending, Spans
<1>12. Descending(d.stackjournal, m)
  <2>1. sj # <<>> => /\ e.offset <= sj[Len(sj)].offset
                     /\ Len(sj) + 1 > m /\ Placed(e) => e.offset < sj[Len(sj)].offset
    BY <1>2, <1>5, <1>6, <1>7 DEF ls, sj
  <2> QED
    BY <1>1, <1>3, <1>11, <2>1, PushDescending
<1>13. Spans(d.stackjournal, d.journal, m, i)
  <2>1. Len(sj) + 1 > m => i \in Nat
    BY <1>2 DEF ls, sj
  <2> QED
    BY <1>1, <1>3, <1>11, <2>1, PushSpans
<1>14. Lists(d)
  <2>1. IsList(d.actions)
    BY <1>1, AppendList
  <2> QED
    BY <1>1, <1>3, <1>4, <1>8, <2>1 DEF Lists, Entries
<1>15. Replay(d.actions) = Pushed(d.opstack, d.localstack, r)
  <2>1. Replay(d.actions) = Append(Replay(c.actions), Len(c.actions))
    BY <1>1, ReplayAppend
  <2>2. Pushed(<<>>, Append(ls, l), r) = Append(Pushed(<<>>, ls, r), l.sa)
    BY <1>1, PushedLocal
  <2> QED
    BY <1>1, <1>3, <2>1, <2>2
<1> QED
  BY <1>1, <1>9, <1>10, <1>12, <1>13, <1>14, <1>15 DEF Full

\* What PopLocal has done to the members: e is the entry of the local.
LocalPopped(c, d, e) ==
  /\ Shape(d) /\ d.il = c.il /\ d.meta = c.meta /\ d.opstack = c.opstack
  /\ d.ok => c.ok /\ c.localstack # <<>> /\ c.stackjournal # <<>>
  /\ d.ok => d.localstack = AllButLast(c.localstack) /\ d.stackjournal = AllButLast(c.stackjournal)
  /\ Recording =>
       /\ \/ d.journal = c.journal
          \/ \E t : d.journal = Append(c.journal, [start |-> e.start, end |-> instrNum,
                                       offset |-> e.offset, type |-> t, parameter |-> FALSE])
       /\ d.actions = Append(c.actions, "Pop")

LEMMA PopLocalFields ==
  ASSUME NEW c, Shape(c)
  PROVE  LocalPopped(c, PopLocal(c), Top(c, "stackjournal", 0))
<1> DEFINE e == Top(c, "stackjournal", 0)
           first == PopList(c, "localstack")
           popped == PopList(first, "stackjournal")
           acted == PushList(popped, "actions", "Pop")
           written == Journal(acted, e, NoValue)
           d == IF Generating /\ e.record THEN written ELSE acted
<1>1. PopLocal(c) = d
  BY DEF PopLocal
<1> HIDE DEF e
<1>2. /\ Shape(first) /\ (first.ok => c.ok /\ c["localstack"] # <<>> /\ first["localstack"] = AllButLast(c["localstack"]))
      /\ \A g \in CompFields \ {"localstack", "ok"} : first[g] = c[g]
  <2>1. "localstack" \in Stacks
    BY DEF Stacks
  <2> QED
    BY <2>1, PopListFields
<1> HIDE DEF first
<1>3. /\ Shape(popped)
      /\ (popped.ok => first.ok /\ first["stackjournal"] # <<>>
                       /\ popped["stackjournal"] = AllButLast(first["stackjournal"]))
      /\ \A g \in CompFields \ {"stackjournal", "ok"} : popped[g] = first[g]
  <2>1. "stackjournal" \in Stacks
    BY DEF Stacks
  <2> QED
    BY <1>2, <2>1, PopListFields
<1> HIDE DEF popped
<1>4. /\ Shape(acted) /\ \A g \in CompFields \ {"actions", "maximum"} : acted[g] = popped[g]
      /\ Recording => acted["actions"] = Append(popped["actions"], "Pop")
  <2>1. "actions" \in Stacks \cup Outputs
    BY DEF Outputs
  <2> QED
    BY <1>3, <2>1, PushListFields, RecordingAllocates
<1> HIDE DEF acted
<1> DEFINE t == IF NoValue.demoted THEN NoValue.type ELSE e.type
           q == [start |-> e.start, end |-> instrNum, offset |-> e.offset, type |-> t, parameter |-> FALSE]
<1>5. /\ Shape(written) /\ \A g \in CompFields \ {"journal", "maximum"} : written[g] = acted[g]
      /\ Recording => written["journal"] = Append(acted["journal"], q)
  <2>1. "journal" \in Stacks \cup Outputs
    BY DEF Outputs
  <2>2. written = PushList(acted, "journal", q)
    BY DEF Journal
  <2> HIDE DEF written, q
  <2> QED
    BY <1>4, <2>1, <2>2, PushListFields, RecordingAllocates
<1> HIDE DEF t, written
<1>6. /\ Shape(d) /\ \A g \in CompFields \ {"journal", "maximum"} : d[g] = acted[g]
  BY <1>4, <1>5
<1>7. Recording => d["journal"] = acted["journal"] \/ d["journal"] = Append(acted["journal"], q)
  BY <1>5
<1> HIDE DEF d
<1>8. /\ first.stackjournal = c.stackjournal
      /\ d.il = c.il /\ d.meta = c.meta /\ d.opstack = c.opstack /\ d.ok = popped.ok
      /\ d.localstack = first.localstack /\ d.stackjournal = popped.stackjournal
      /\ acted.journal = c.journal /\ popped.actions = c.actions /\ d.actions = acted.actions
  BY <1>2, <1>3, <1>4, <1>6 DEF CompFields
<1>9. LocalPopped(c, d, e)
  <2>1. Shape(d) /\ d.il = c.il /\ d.meta = c.meta /\ d.opstack = c.opstack
    BY <1>6, <1>8
  <2>2. /\ d.ok => c.ok /\ c.localstack # <<>> /\ c.stackjournal # <<>>
        /\ d.ok => d.localstack = AllButLast(c.localstack) /\ d.stackjournal = AllButLast(c.stackjournal)
    BY <1>2, <1>3, <1>8
  <2>3. Recording => d.actions = Append(c.actions, "Pop")
    BY <1>4, <1>8
  <2>4. Recording => d.journal = c.journal \/ d.journal = Append(c.journal, q)
    BY <1>7, <1>8
  <2> HIDE DEF e
  <2> QED
    BY <2>1, <2>2, <2>3, <2>4 DEF LocalPopped, q
<1> QED
  BY <1>1, <1>9 DEF e

LEMMA PopLocalSound ==
  ASSUME Context, NEW c, Sound(c),
         Recording /\ c.ok => c.opstack = <<>> /\ Len(c.localstack) # NumParameters
  PROVE  Sound(PopLocal(c))
<1> DEFINE n == NumParameters
           r == Len(method.returns)
           e == Top(c, "stackjournal", 0)
           d == PopLocal(c)
<1>1. LocalPopped(c, d, e)
  BY PopLocalFields DEF Sound, SoundWith
<1>2. n \in Nat /\ r \in Nat /\ instrNum \in Nat
  BY DEF Context
<1> HIDE DEF d
<1>3. SUFFICES ASSUME Recording, d.ok
               PROVE  Full(d, instrNum, n, r)
  BY <1>1 DEF Sound, SoundWith, LocalPopped, d
<1>4. Full(c, instrNum, n, r) /\ c.opstack = <<>> /\ Len(c.localstack) # n
  BY <1>1, <1>3 DEF Sound, SoundWith, LocalPopped
<1> DEFINE ls == c.localstack
           sj == c.stackjournal
<1>5. /\ IsList(c.opstack) /\ IsList(ls) /\ Entries(sj) /\ IsList(c.il) /\ IsList(c.journal) /\ IsList(c.actions)
      /\ Matched(<<>>, ls, sj) /\ Leading(ls, n) /\ Descending(sj, n)
      /\ Spans(sj, c.journal, n, instrNum) /\ Timed(c.meta, c.il, instrNum)
      /\ Replay(c.actions) = Pushed(<<>>, ls, r)
      /\ \A k \in 1..Len(c.opstack) : IsValue(c.opstack[k])
      /\ \A k \in 1..Len(c.journal) : IsRecord(c.journal[k], SpanFields)
  BY <1>4 DEF Full, Lists, Entries
<1>6. ls # <<>> /\ sj # <<>> /\ d.localstack = AllButLast(ls) /\ d.stackjournal = AllButLast(sj)
      /\ d.il = c.il /\ d.meta = c.meta /\ d.opstack = <<>>
  BY <1>1, <1>3, <1>4 DEF LocalPopped
<1>7. /\ \/ d.journal = c.journal
         \/ \E t : d.journal = Append(c.journal, [start |-> e.start, end |-> instrNum,
                                      offset |-> e.offset, type |-> t, parameter |-> FALSE])
      /\ d.actions = Append(c.actions, "Pop")
  BY <1>1, <1>3 DEF LocalPopped
<1>8. /\ Len(ls) \in Nat /\ (ls = <<>> <=> Len(ls) = 0)
      /\ Len(sj) \in Nat /\ (sj = <<>> <=> Len(sj) = 0) /\ Len(sj) = Len(ls)
  BY <1>5, EmptyListIs, EmptyList DEF Entries, Matched
<1>9. e = sj[Len(sj)] /\ Len(ls) \in 1..Len(ls)
  BY <1>6, <1>8 DEF Top
<1>17. Placed(sj[Len(sj)])
  BY <1>5, <1>8, <1>9 DEF Matched
<1>10. Len(ls) > n
  BY <1>2, <1>4, <1>5, <1>8 DEF Leading
<1>18. /\ IsList(AllButLast(ls)) /\ Len(AllButLast(ls)) = Len(ls) - 1
       /\ \A k \in 1..Len(ls) - 1 : AllButLast(ls)[k] = ls[k]
  BY <1>5, <1>6, FrontList DEF AllButLast
<1> HIDE DEF ls, sj, e
<1>11. Matched(d.opstack, d.localstack, d.stackjournal)
  BY <1>5, <1>6, PopLocalMatched
<1>12. Leading(d.localstack, n)
  <2>1. n <= Len(ls) - 1 /\ Len(AllButLast(ls)) = Len(ls) - 1
    BY <1>2, <1>8, <1>10, <1>18
  <2>2. \A k \in 1..Len(ls) - 1 : k \in 1..Len(ls) /\ AllButLast(ls)[k] = ls[k]
    BY <1>8, <1>18
  <2> QED
    BY <1>5, <1>6, <2>1, <2>2 DEF Leading
<1>19. Descending(d.stackjournal, n)
  BY <1>2, <1>5, <1>6, PopDescending
<1>13. Spans(d.stackjournal, d.journal, n, instrNum) /\ IsList(d.journal)
       /\ \A k \in 1..Len(d.journal) : IsRecord(d.journal[k], SpanFields)
  <2>1. CASE d.journal = c.journal
    BY <1>5, <1>6, <2>1, PopSpans
  <2>2. CASE d.journal # c.journal
    <3>2. PICK t : d.journal = Append(c.journal, [start |-> e.start, end |-> instrNum,
                                      offset |-> e.offset, type |-> t, parameter |-> FALSE])
      BY <1>7, <2>2
    <3> DEFINE q == [start |-> e.start, end |-> instrNum, offset |-> e.offset, type |-> t,
                     parameter |-> FALSE]
    <3>3. ~q.parameter /\ q.start = sj[Len(sj)].start /\ q.end = instrNum
          /\ q.offset = sj[Len(sj)].offset /\ IsRecord(q, SpanFields)
      BY <1>9 DEF IsRecord, SpanFields
    <3>4. d.journal = Append(c.journal, q)
      BY <3>2
    <3> HIDE DEF q
    <3>5. Spans(AllButLast(sj), Append(c.journal, q), n, instrNum)
      BY <1>2, <1>5, <1>6, <1>8, <1>10, <1>17, <3>3, PopSpan
    <3>6. IsList(Append(c.journal, q)) /\ Len(Append(c.journal, q)) = Len(c.journal) + 1
          /\ Append(c.journal, q)[Len(c.journal) + 1] = q /\ Len(c.journal) \in Nat
          /\ \A k \in 1..Len(c.journal) : Append(c.journal, q)[k] = c.journal[k]
      BY <1>5, AppendList, EmptyListIs
    <3>7. \A k \in 1..Len(c.journal) + 1 : IsRecord(Append(c.journal, q)[k], SpanFields)
      BY <1>5, <3>3, <3>6
    <3> QED
      BY <1>6, <3>4, <3>5, <3>6, <3>7
  <2> QED
    BY <2>1, <2>2
<1>15. Lists(d)
  <2>2. IsList(d.actions)
    BY <1>5, <1>7, AppendList
  <2>3. IsList(d.stackjournal) /\ \A k \in 1..Len(d.stackjournal) : IsEntry(d.stackjournal[k])
    BY <1>5, <1>6, PopEntry DEF Entries
  <2> QED
    BY <1>4, <1>5, <1>6, <1>13, <1>18, <2>2, <2>3 DEF Lists
<1>16. Replay(d.actions) = Pushed(d.opstack, d.localstack, r)
  <2> DEFINE fs == AllButLast(ls)
             l == ls[Len(ls)]
  <2>1. ls = Append(fs, l) /\ IsList(fs)
    BY <1>5, <1>6, <1>18, AppendToFront DEF AllButLast
  <2> HIDE DEF fs, r, l
  <2>3. Pushed(<<>>, Append(fs, l), r) = Append(Pushed(<<>>, fs, r), l.sa)
    BY <1>2, <2>1, PushedLocal
  <2>4. IsList(Pushed(<<>>, fs, r))
    BY <1>2, <2>1, PushedParts, EmptyList
  <2>5. Replay(d.actions) = SubSeq(Replay(c.actions), 1, Len(Replay(c.actions)) - 1)
    BY <1>5, <1>7, ReplayAppend
  <2>6. Replay(c.actions) = Append(Pushed(<<>>, fs, r), l.sa)
    BY <1>5, <2>1, <2>3
  <2>7. Replay(d.actions) = Pushed(<<>>, fs, r)
    BY <2>4, <2>5, <2>6, FrontOfAppend
  <2> QED
    BY <1>6, <2>7 DEF fs
<1> QED
  BY <1>5, <1>6, <1>11, <1>12, <1>13, <1>15, <1>16, <1>19 DEF Full

(***************************************************************************)
(* Calls.                                                                  *)
(***************************************************************************)

LEMMA ReadyKept ==
  ASSUME NEW c, NEW d, Ready(c), Sound(d), d.ok => c.ok, d.stackjournal = c.stackjournal
  PROVE  Ready(d)
  BY DEF Ready, Old

LEMMA RequireReady ==
  ASSUME NEW c, Ready(c), NEW condition
  PROVE  Ready(Require(c, condition))
<1> DEFINE d == Require(c, condition)
<1>1. Sound(c) /\ Shape(c)
  BY DEF Ready, Sound, SoundWith
<1>2. Sound(d)
  BY <1>1, RequireSound DEF Sound
<1>3. (d.ok => c.ok) /\ SameStacks(c, d)
  BY <1>1, RequireFields
<1> HIDE DEF d
<1>4. Ready(d)
  BY <1>2, <1>3, ReadyKept DEF SameStacks
<1> QED
  BY <1>4 DEF d

LEMMA SyncJournalReady ==
  ASSUME Context, NEW c, Ready(c)
  PROVE  Ready(SyncJournal(c))
<1> DEFINE t == [k \in DOMAIN c.stackjournal |-> [c.stackjournal[k] EXCEPT !.record = TRUE]]
           d == [c EXCEPT !.stackjournal = t]
<1>1. SyncJournal(c) \in {c, d}
  BY DEF SyncJournal
<1>2. Sound(SyncJournal(c)) /\ Shape(c)
  BY SyncJournalSound DEF Ready, Sound, SoundWith
<1>3. d.ok = c.ok /\ d.stackjournal = t
  BY <1>2 DEF Shape, CompFields
<1>4. ASSUME Recording, c.ok
      PROVE  Len(t) = Len(c.stackjournal)
             /\ \A k \in 1..Len(c.stackjournal) : t[k].start = c.stackjournal[k].start
  <2> DEFINE s == c.stackjournal
  <2>1. Entries(s)
    BY <1>4 DEF Ready, Sound, SoundWith, Full, Lists, Entries
  <2> HIDE DEF s
  <2>2. Len(s) \in Nat /\ DOMAIN s = 1..Len(s) /\ \A k \in 1..Len(s) : IsEntry(s[k])
    BY <2>1, ListInSeq DEF Entries, IsList
  <2>3. t = [k \in 1..Len(s) |-> [s[k] EXCEPT !.record = TRUE]]
    BY <2>2 DEF s
  <2> HIDE DEF t
  <2>4. Len(t) = Len(s)
    BY <2>2, <2>3
  <2>5. ASSUME NEW k \in 1..Len(s)
        PROVE  t[k].start = s[k].start
    <3>1. IsEntry(s[k]) /\ t[k] = [s[k] EXCEPT !.record = TRUE]
      BY <2>2, <2>3
    <3> QED
      BY <3>1, EntryRecorded
  <2> QED
    BY <2>4, <2>5 DEF s
<1> HIDE DEF t, d
<1>5. Recording /\ c.ok => Old(c)
  BY DEF Ready
<1>6. Recording /\ d.ok => Old(d)
  BY <1>3, <1>4, <1>5 DEF Old
<1> QED
  BY <1>1, <1>2, <1>5, <1>6 DEF Ready

LEMMA TickReady ==
  ASSUME Context, NEW c, Ready(c)
  PROVE  Ready(Tick(c))
<1> DEFINE e == EmitSimple(c, "tick")
           d == [e EXCEPT !.meta[instrNum].translated = @ + 1]
<1>1. Sound(c) /\ Shape(c)
  BY DEF Ready, Sound, SoundWith
<1>2. Emitted(c, e)
  BY <1>1, EmitFields DEF EmitSimple
<1>3. Sound(d)
  BY <1>1, TickSound
<1> HIDE DEF e
<1>4. d.stackjournal = e.stackjournal /\ d.ok = e.ok
  BY <1>2 DEF Emitted, Shape, CompFields
<1> HIDE DEF d
<1>5. Ready(d)
  BY <1>2, <1>3, <1>4, ReadyKept DEF Emitted, SameStacks
<1> QED
  BY <1>5 DEF Tick, d, e

\* An element of a list is replaced.
ReplacedIn(s, t, m, x) ==
  /\ IsList(t) /\ Len(t) = Len(s) /\ t[m] = x
  /\ \A k \in 1..Len(s) : k # m => t[k] = s[k]

LEMMA ReplaceInList ==
  ASSUME NEW s, IsList(s), NEW m \in 1..Len(s), NEW x
  PROVE  ReplacedIn(s, [s EXCEPT ![m] = x], m, x)
<1> DEFINE t == [s EXCEPT ![m] = x]
<1>1. Len(s) \in Nat /\ DOMAIN s = 1..Len(s)
  BY ListInSeq DEF IsList
<1>2. t = [k \in 1..Len(s) |-> IF k = m THEN x ELSE s[k]]
  BY <1>1 DEF IsList
<1> HIDE DEF t
<1>3. Len(t) = Len(s) /\ IsList(t) /\ t[m] = x /\ \A k \in 1..Len(s) : k # m => t[k] = s[k]
  BY <1>1, <1>2 DEF IsList
<1> QED
  BY <1>3 DEF t, ReplacedIn

\* A value that gains a property, and one that is converted.
LEMMA ValueVerified ==
  ASSUME NEW v, IsValue(v)
  PROVE  LET w == [v EXCEPT !.notNull = TRUE]
         IN  IsValue(w) /\ w.offset = v.offset /\ SameAction(v, w)
<1> DEFINE w == [v EXCEPT !.notNull = TRUE]
<1>1. IsRecord(w, ValueFields) /\ w.vst = v.vst /\ w.offset = v.offset /\ w.sa = v.sa
  BY DEF IsValue, IsRecord, ValueFields
<1> HIDE DEF w
<1>2. IsValue(w) /\ SameAction(v, w) /\ w.offset = v.offset
  BY <1>1 DEF IsValue, SameAction
<1> QED
  BY <1>2 DEF w

LEMMA ValueConverted ==
  ASSUME NEW v, IsValue(v), NEW t
  PROVE  LET w == [v EXCEPT !.demoted = TRUE, !.type = t]
         IN  IsValue(w) /\ w.offset = v.offset /\ SameAction(v, w)
<1> DEFINE w == [v EXCEPT !.demoted = TRUE, !.type = t]
<1>1. IsRecord(w, ValueFields) /\ w.vst = v.vst /\ w.offset = v.offset /\ w.sa = v.sa
  BY DEF IsValue, IsRecord, ValueFields
<1> HIDE DEF w
<1>2. IsValue(w) /\ SameAction(v, w) /\ w.offset = v.offset
  BY <1>1 DEF IsValue, SameAction
<1> QED
  BY <1>2 DEF w

LEMMA ReplaceValue ==
  ASSUME NEW os, IsList(os), \A k \in 1..Len(os) : IsValue(os[k]), NEW m \in 1..Len(os),
         NEW w, IsValue(w), w.offset = os[m].offset, SameAction(os[m], w)
  PROVE  SameValues(os, [os EXCEPT ![m] = w])
<1> DEFINE u == [os EXCEPT ![m] = w]
<1>1. IsList(u) /\ Len(u) = Len(os) /\ u[m] = w /\ \A k \in 1..Len(os) : k # m => u[k] = os[k]
  BY ReplaceInList DEF ReplacedIn
<1> HIDE DEF u
<1>2. SameValues(os, u)
  BY <1>1 DEF SameValues, SameAction
<1> QED
  BY <1>2 DEF u

Valued(s) == IsList(s) /\ \A k \in 1..Len(s) : IsValue(s[k])

\* What the preparation of an argument keeps, whatever it is.
Kept(c, d) ==
  /\ Shape(d) /\ (d.ok => c.ok)
  /\ Recording /\ Valued(c.opstack) => SameValues(c.opstack, d.opstack)

\* The value at the given place of the stack is not null from here on.
Verified(e, at, condition) ==
  [e EXCEPT !.opstack[at].notNull = TRUE, !.meta[instrNum].validation = @ + 1, !.ok = @ /\ condition]

VerifiedIs(e, d, at) ==
  /\ Shape(d) /\ (d.ok => e.ok)
  /\ d.opstack = [e.opstack EXCEPT ![at] = [e.opstack[at] EXCEPT !.notNull = TRUE]]
  /\ d.meta = [e.meta EXCEPT ![instrNum] = [e.meta[instrNum] EXCEPT !.validation = @ + 1]]
  /\ d.localstack = e.localstack /\ d.stackjournal = e.stackjournal
  /\ d.actions = e.actions /\ d.il = e.il /\ d.journal = e.journal

LEMMA VerifiedFields ==
  ASSUME NEW e, Shape(e), NEW at, NEW condition \in BOOLEAN
  PROVE  VerifiedIs(e, Verified(e, at, condition), at)
<1> DEFINE d == Verified(e, at, condition)
           u == [e.opstack EXCEPT ![at] = [e.opstack[at] EXCEPT !.notNull = TRUE]]
           m == [e.meta EXCEPT ![instrNum] = [e.meta[instrNum] EXCEPT !.validation = @ + 1]]
<1>1. m = [b \in Labels |-> m[b]]
  BY DEF Shape
<1>2. d.opstack = [e.opstack EXCEPT ![at].notNull = TRUE]
      /\ d.meta = [e.meta EXCEPT ![instrNum].validation = @ + 1]
      /\ d.ok = (e.ok /\ condition)
      /\ d = [g \in CompFields |-> d[g]]
      /\ \A g \in CompFields : g \notin {"opstack", "meta", "ok"} => d[g] = e[g]
  BY DEF Verified, Shape, CompFields
<1>3. [e.opstack EXCEPT ![at].notNull = TRUE] = u
  OBVIOUS
<1>4. [e.meta EXCEPT ![instrNum].validation = @ + 1] = m
  OBVIOUS
<1> HIDE DEF d, u, m
<1>5. /\ Shape(d) /\ (d.ok => e.ok) /\ d.opstack = u /\ d.meta = m
      /\ d.localstack = e.localstack /\ d.stackjournal = e.stackjournal
      /\ d.actions = e.actions /\ d.il = e.il /\ d.journal = e.journal
  BY <1>1, <1>2, <1>3, <1>4 DEF Shape, CompFields
<1> QED
  BY <1>5 DEF d, u, m, VerifiedIs

\* CallConvertOpstack, as the change of one value, of its entry and of the
\* journal.
Converted(c, d, k, t) ==
  LET v == Top(c, "opstack", k)
      entry == Top(c, "stackjournal", k)
      at == Len(c.opstack) - k
      journalAt == Len(c.stackjournal) - k
  IN  /\ Shape(d) /\ d.ok = c.ok /\ d.localstack = c.localstack
      /\ d.actions = c.actions /\ d.il = c.il /\ d.meta = c.meta
      /\ d.opstack = [c.opstack EXCEPT ![at] = [c.opstack[at] EXCEPT !.demoted = TRUE, !.type = t]]
      /\ d.stackjournal = [c.stackjournal EXCEPT ![journalAt] =
                            [c.stackjournal[journalAt] EXCEPT !.start = instrNum - 1]]
      /\ Recording =>
           \/ d.journal = c.journal
           \/ \E s : d.journal = Append(c.journal, [start |-> entry.start, end |-> instrNum - 1,
                                       offset |-> entry.offset, type |-> s, parameter |-> FALSE])

LEMMA ConvertFields ==
  ASSUME NEW c, Shape(c), NEW k, NEW t
  PROVE  Converted(c, CallConvertOpstack(c, k, t), k, t)
<1> DEFINE v == Top(c, "opstack", k)
           entry == Top(c, "stackjournal", k)
           s == IF v.demoted THEN v.type ELSE entry.type
           q == [start |-> entry.start, end |-> instrNum - 1, offset |-> entry.offset, type |-> s,
                 parameter |-> FALSE]
           split == PushList(c, "journal", q)
           at == Len(c.opstack) - k
           journalAt == Len(c.stackjournal) - k
           e == IF entry.start # instrNum - 1 THEN split ELSE c
           d == [e EXCEPT !.stackjournal[journalAt].start = instrNum - 1,
                          !.opstack[at].demoted = TRUE,
                          !.opstack[at].type = t]
<1>1. CallConvertOpstack(c, k, t) = d
  BY DEF CallConvertOpstack
<1>2. /\ Shape(split) /\ \A g \in CompFields \ {"journal", "maximum"} : split[g] = c[g]
      /\ Recording => split["journal"] = Append(c["journal"], q)
  <2>1. "journal" \in Stacks \cup Outputs
    BY DEF Outputs
  <2> HIDE DEF q
  <2> QED
    BY <2>1, PushListFields, RecordingAllocates
<1> HIDE DEF split, at, journalAt
<1>3. /\ Shape(e) /\ \A g \in CompFields \ {"journal", "maximum"} : e[g] = c[g]
  BY <1>2
<1>4. Recording => e["journal"] = c["journal"] \/ e["journal"] = Append(c["journal"], q)
  BY <1>2
<1> HIDE DEF e
<1> DEFINE u == [e.opstack EXCEPT ![at] = [e.opstack[at] EXCEPT !.demoted = TRUE, !.type = t]]
           w == [e.stackjournal EXCEPT ![journalAt] =
                  [e.stackjournal[journalAt] EXCEPT !.start = instrNum - 1]]
<1>5. /\ d = [g \in CompFields |-> d[g]] /\ d.stackjournal = w /\ d.opstack = u
      /\ \A g \in CompFields \ {"opstack", "stackjournal"} : d[g] = e[g]
  <2>1. "opstack" \in CompFields /\ "stackjournal" \in CompFields
    BY DEF CompFields
  <2> DEFINE os == e.opstack
             x == [[os EXCEPT ![at].demoted = TRUE] EXCEPT ![at].type = t]
  <2>2. /\ d = [g \in CompFields |-> d[g]] /\ d.stackjournal = w /\ d.opstack = x
        /\ \A g \in CompFields \ {"opstack", "stackjournal"} : d[g] = e[g]
    <3>1. e = [g \in CompFields |-> e[g]]
      BY <1>3 DEF Shape
    <3>2. d = [g \in CompFields |-> d[g]]
      BY <2>1, <3>1
    <3>3. d.stackjournal = w
      BY <2>1, <3>1
    <3>4. d.opstack = x
      BY <2>1, <3>1
    <3>5. \A g \in CompFields \ {"opstack", "stackjournal"} : d[g] = e[g]
      BY <2>1, <3>1
    <3> QED
      BY <3>2, <3>3, <3>4, <3>5
  <2> HIDE DEF d, os
  <2>3. x = [os EXCEPT ![at] = [os[at] EXCEPT !.demoted = TRUE, !.type = t]]
    <3>1. CASE at \in DOMAIN os
      BY <3>1
    <3>2. CASE at \notin DOMAIN os
      BY <3>2
    <3> QED
      BY <3>1, <3>2
  <2> QED
    BY <2>2, <2>3 DEF os
<1> HIDE DEF d
<1>6. /\ Shape(d) /\ d.ok = c.ok /\ d.localstack = c.localstack
      /\ d.actions = c.actions /\ d.il = c.il /\ d.meta = c.meta
      /\ d.journal = e.journal /\ e.opstack = c.opstack /\ e.stackjournal = c.stackjournal
  BY <1>3, <1>5 DEF Shape, CompFields
<1> HIDE DEF s
<1>7. Recording => \/ d.journal = c.journal
                   \/ \E x : d.journal = Append(c.journal, [start |-> entry.start, end |-> instrNum - 1,
                                       offset |-> entry.offset, type |-> x, parameter |-> FALSE])
  BY <1>4, <1>6
<1> QED
  BY <1>1, <1>5, <1>6, <1>7 DEF Converted, at, journalAt

LEMMA KeptTwice ==
  ASSUME NEW c, NEW d, NEW e, Kept(c, d), Kept(d, e)
  PROVE  Kept(c, e)
<1>1. Shape(e) /\ (e.ok => c.ok)
  BY DEF Kept
<1>2. ASSUME Recording, Valued(c.opstack)
      PROVE  SameValues(c.opstack, e.opstack)
  <2>1. SameValues(c.opstack, d.opstack)
    BY <1>2 DEF Kept
  <2>2. Valued(d.opstack)
    BY <2>1 DEF SameValues, Valued
  <2>3. SameValues(d.opstack, e.opstack)
    BY <1>2, <2>2 DEF Kept
  <2> QED
    BY <2>1, <2>3 DEF SameValues, SameAction
<1> QED
  BY <1>1, <1>2 DEF Kept

LEMMA KeptSame ==
  ASSUME NEW c, NEW d, Shape(d), d.ok => c.ok, d.opstack = c.opstack
  PROVE  Kept(c, d)
  BY DEF Kept, SameValues, Valued, SameAction

LEMMA VerifyReady ==
  ASSUME Context, NEW c, Shape(c), NEW at, Recording => at \in 1..Len(c.opstack),
         NEW condition \in BOOLEAN,
         NEW uses
  PROVE  LET d == Verified(Emit(c, "verifynotnull", uses, {}, -1), at, condition)
         IN  Kept(c, d) /\ (Ready(c) => Ready(d))
<1> DEFINE e == Emit(c, "verifynotnull", uses, {}, -1)
           d == Verified(e, at, condition)
           w == [c.opstack[at] EXCEPT !.notNull = TRUE]
           u == [c.opstack EXCEPT ![at] = w]
           m == [c.meta EXCEPT ![instrNum] = [c.meta[instrNum] EXCEPT !.validation = @ + 1]]
           n == NumParameters
           r == Len(method.returns)
<1>1. Emitted(c, e)
  BY EmitFields
<1>7. /\ Shape(d) /\ (d.ok => e.ok)
      /\ d.opstack = [e.opstack EXCEPT ![at] = [e.opstack[at] EXCEPT !.notNull = TRUE]]
      /\ d.meta = [e.meta EXCEPT ![instrNum] = [e.meta[instrNum] EXCEPT !.validation = @ + 1]]
      /\ d.localstack = e.localstack /\ d.stackjournal = e.stackjournal
      /\ d.actions = e.actions /\ d.il = e.il /\ d.journal = e.journal
  <2>1. Shape(e)
    BY <1>1 DEF Emitted
  <2> HIDE DEF e
  <2>2. VerifiedIs(e, d, at)
    BY <2>1, VerifiedFields
  <2> HIDE DEF d
  <2> QED
    BY <2>2 DEF VerifiedIs
<1>8. /\ e.opstack = c.opstack /\ e.meta = c.meta /\ e.localstack = c.localstack
      /\ e.stackjournal = c.stackjournal /\ e.actions = c.actions /\ e.journal = c.journal /\ e.ok = c.ok
  BY <1>1 DEF Emitted, SameStacks
<1> HIDE DEF e
<1>2. /\ Shape(d) /\ (d.ok => c.ok) /\ d.opstack = u /\ d.meta = m
      /\ d.localstack = c.localstack /\ d.stackjournal = c.stackjournal
      /\ d.actions = c.actions /\ d.il = e.il /\ d.journal = c.journal
  BY <1>7, <1>8
<1> HIDE DEF d
<1>3. ASSUME Recording, Valued(c.opstack)
      PROVE  SameValues(c.opstack, u)
  <2>1. IsValue(w) /\ w.offset = c.opstack[at].offset /\ SameAction(c.opstack[at], w)
    BY <1>3, ValueVerified DEF Valued
  <2> HIDE DEF w
  <2> QED
    BY <1>3, <2>1, ReplaceValue DEF Valued
<1> HIDE DEF u
<1>4. Kept(c, d)
  BY <1>2, <1>3 DEF Kept
<1>5. ASSUME Ready(c)
      PROVE  Ready(d)
  <2> DEFINE f == [c EXCEPT !.opstack = u]
  <2>1. instrNum \in Labels /\ instrNum \in Nat /\ Shape(c) /\ Sound(c)
    BY <1>5 DEF Context, Ready, Sound, SoundWith
  <2>2. Recording /\ c.ok => Valued(c.opstack)
    BY <2>1 DEF Sound, SoundWith, Full, Lists, Valued
  <2>3. Sound(f)
    BY <1>3, <2>1, <2>2, RevalueSound
  <2>4. /\ f.ok = c.ok /\ f.opstack = u /\ f.localstack = c.localstack
        /\ f.stackjournal = c.stackjournal /\ f.actions = c.actions /\ f.journal = c.journal
        /\ f.il = c.il /\ f.meta = c.meta
    BY <2>1 DEF Shape, CompFields
  <2> HIDE DEF f
  <2>5. SUFFICES ASSUME Recording, d.ok
                 PROVE  Full(d, instrNum, n, r)
    <3>1. Recording /\ c.ok => Old(c)
      BY <1>5 DEF Ready
    <3> QED
      BY <1>2, <2>5, <3>1 DEF Ready, Sound, SoundWith, Old
  <2>6. Full(f, instrNum, n, r)
    BY <1>2, <2>3, <2>4, <2>5 DEF Sound, SoundWith
  <2>7. IsList(c.il) /\ Timed(c.meta, c.il, instrNum)
    BY <2>4, <2>6 DEF Full, Lists
  <2>8. PICK x : e.il = Append(c.il, x)
    BY <1>1 DEF Emitted
  <2>9. /\ \A a \in 0..instrNum : a # instrNum => m[a] = c.meta[a]
        /\ IsRecord(m[instrNum], MetaFields) /\ m[instrNum].translated \in Nat
        /\ m[instrNum].validation \in Nat /\ c.meta[instrNum].translated <= m[instrNum].translated
        /\ StartOf(m, instrNum) <= StartOf(c.meta, instrNum) + 1
    <3>1. instrNum \in 0..instrNum
      BY <2>1
    <3>2. IsRecord(c.meta[instrNum], MetaFields) /\ c.meta[instrNum].translated \in Nat
          /\ c.meta[instrNum].validation \in Nat
      BY <2>7, <3>1 DEF Timed
    <3>3. m[instrNum] = [c.meta[instrNum] EXCEPT !.validation = @ + 1]
          /\ \A a : a # instrNum => m[a] = c.meta[a]
      BY <2>1 DEF Shape
    <3> HIDE DEF m
    <3>5. IsRecord(m[instrNum], MetaFields) /\ m[instrNum].translated = c.meta[instrNum].translated
          /\ m[instrNum].validation = c.meta[instrNum].validation + 1
      BY <3>2, <3>3 DEF IsRecord, MetaFields
    <3>6. c.meta[instrNum].translated <= m[instrNum].translated
          /\ m[instrNum].translated \in Nat /\ m[instrNum].validation \in Nat
      BY <3>2, <3>5
    <3>7. StartOf(m, instrNum) <= StartOf(c.meta, instrNum) + 1
      BY <3>2, <3>5 DEF StartOf
    <3> QED
      BY <3>3, <3>5, <3>6, <3>7
  <2> HIDE DEF m
  <2>10. Timed(m, Append(c.il, x), instrNum) /\ IsList(Append(c.il, x))
    BY <2>1, <2>7, <2>9, TimedBumped, AppendList
  <2> QED
    BY <1>2, <2>4, <2>6, <2>8, <2>10, FullRetimed DEF SameStacks
<1> QED
  BY <1>4, <1>5 DEF d, e

LEMMA ConvertReady ==
  ASSUME Context, NEW c, Shape(c), NEW k \in Nat,
         Recording => Len(c.opstack) - k \in 1..Len(c.opstack), NEW t
  PROVE  LET d == CallConvertOpstack(c, k, t)
         IN  /\ Kept(c, d)
             /\ Ready(c) /\ (Recording => c.opstack[Len(c.opstack) - k].vst \in StoredVST) => Ready(d)
<1> DEFINE d == CallConvertOpstack(c, k, t)
           os == c.opstack
           sj == c.stackjournal
           ls == c.localstack
           at == Len(os) - k
           w == [os[at] EXCEPT !.demoted = TRUE, !.type = t]
           u == [os EXCEPT ![at] = w]
           n == NumParameters
           r == Len(method.returns)
           m == Len(sj) - k
           f == [sj[m] EXCEPT !.start = instrNum - 1]
           s == [sj EXCEPT ![m] = f]
           e == Top(c, "stackjournal", k)
           Q(x) == [start |-> e.start, end |-> instrNum - 1, offset |-> e.offset, type |-> x,
                    parameter |-> FALSE]
<1>1. /\ Shape(d) /\ d.ok = c.ok /\ d.localstack = ls /\ d.opstack = u /\ d.stackjournal = s
      /\ d.actions = c.actions /\ d.il = c.il /\ d.meta = c.meta
      /\ Recording => d.journal = c.journal \/ \E x : d.journal = Append(c.journal, Q(x))
  <2>1. Converted(c, d, k, t)
    BY ConvertFields
  <2> HIDE DEF d
  <2> QED
    BY <2>1 DEF Converted
<1> HIDE DEF d
<1>0. Recording => at \in 1..Len(os)
  OBVIOUS
<1>2. ASSUME Recording, Valued(os)
      PROVE  SameValues(os, u)
  <2>1. IsValue(w) /\ w.offset = os[at].offset /\ SameAction(os[at], w)
    BY <1>2, ValueConverted DEF Valued
  <2> HIDE DEF w
  <2> QED
    BY <1>2, <2>1, ReplaceValue DEF Valued
<1> HIDE DEF w
<1>3. Kept(c, d)
  BY <1>1, <1>2 DEF Kept
<1> HIDE DEF u
<1>4. ASSUME Ready(c), Recording => os[at].vst \in StoredVST
      PROVE  Ready(d)
  <2>1. instrNum \in Labels /\ instrNum \in Nat /\ n \in Nat /\ r \in Nat /\ Sound(c)
    BY <1>4 DEF Context, Ready, Sound, SoundWith
  <2>2. SUFFICES ASSUME Recording, d.ok
                 PROVE  Full(d, instrNum, n, r) /\ Old(d)
    BY <1>1 DEF Ready, Sound, SoundWith
  <2>3. Full(c, instrNum, n, r) /\ Old(c) /\ os[at].vst \in StoredVST
    BY <1>1, <1>4, <2>2 DEF Ready, Sound, SoundWith
  <2>4. /\ Valued(os) /\ IsList(ls) /\ Entries(sj) /\ IsList(c.il) /\ IsList(c.journal) /\ IsList(c.actions)
        /\ Matched(os, ls, sj) /\ Leading(ls, n) /\ Descending(sj, n)
        /\ Spans(sj, c.journal, n, instrNum) /\ Timed(c.meta, c.il, instrNum)
        /\ Replay(c.actions) = Pushed(os, ls, r)
        /\ \A j \in 1..Len(c.journal) : IsRecord(c.journal[j], SpanFields)
    BY <2>3 DEF Full, Lists, Entries, Valued
  <2>5. Len(os) \in Nat /\ Len(ls) \in Nat /\ Len(sj) \in Nat /\ IsList(sj) /\ Len(sj) = Len(ls) + Len(os)
        /\ n <= Len(ls)
    BY <2>4 DEF Valued, IsList, Entries, Matched, Leading
  <2> HIDE DEF n, f, s
  <2>22. e = IF k < Len(sj) THEN sj[Len(sj) - k] ELSE Zeros["stackjournal"]
    BY DEF Top
  <2> HIDE DEF os, ls, sj, e
  <2>6. at \in 1..Len(os) /\ m = Len(ls) + at /\ m \in 1..Len(sj) /\ m > n
    BY <1>0, <2>1, <2>2, <2>5
  <2>7. e = sj[m]
    BY <2>5, <2>6, <2>22
  <2>8. Placed(sj[m]) /\ IsEntry(sj[m])
    BY <2>3, <2>4, <2>6 DEF Matched, Entries, os
  <2>9. sj[m].start < instrNum
    BY <2>3, <2>6 DEF Old, sj, n
  <2>10. IsEntry(f) /\ f.start = instrNum - 1 /\ f.offset = sj[m].offset /\ f.vst = sj[m].vst
    BY <2>1, <2>8, EntryExcept DEF f
  <2>11. IsList(s) /\ Len(s) = Len(sj) /\ s[m] = f /\ \A j \in 1..Len(sj) : j # m => s[j] = sj[j]
    <3> HIDE DEF m
    <3>1. IsList(sj)
      BY <2>4 DEF Entries
    <3>2. ReplacedIn(sj, [sj EXCEPT ![m] = f], m, f)
      BY <2>6, <3>1, ReplaceInList
    <3>3. ReplacedIn(sj, s, m, f)
      BY <3>2 DEF s
    <3> HIDE DEF s
    <3> QED
      BY <3>3 DEF ReplacedIn
  <2> HIDE DEF at, m
  <2>12. Entries(s)
    BY <2>4, <2>10, <2>11 DEF Entries
  <2>13. \A j \in 1..Len(sj) : s[j].offset = sj[j].offset /\ (Placed(s[j]) <=> Placed(sj[j]))
    BY <2>10, <2>11 DEF Placed
  <2>14. SameValues(os, u)
    BY <1>2, <2>2, <2>4
  <2>15. Matched(u, ls, s)
    <3>1. Matched(os, ls, s)
      <4>1. \A j \in 1..Len(ls) : j \in 1..Len(sj)
        BY <2>5
      <4>2. \A j \in 1..Len(os) : Len(ls) + j \in 1..Len(sj)
        BY <2>5
      <4> QED
        BY <2>4, <2>11, <2>13, <4>1, <4>2 DEF Matched
    <3> QED
      BY <2>14, <3>1 DEF Matched, SameValues, SameAction
  <2>16. Descending(s, n)
    BY <2>4, <2>11, <2>13 DEF Descending
  <2>17. Spans(s, d.journal, n, instrNum) /\ IsList(d.journal)
         /\ \A j \in 1..Len(d.journal) : IsRecord(d.journal[j], SpanFields)
    <3>1. s[m].start = instrNum - 1 /\ s[m].offset = sj[m].offset
      BY <2>10, <2>11
    <3>2. ASSUME NEW x
          PROVE  /\ Spans(s, c.journal, n, instrNum) /\ Spans(s, Append(c.journal, Q(x)), n, instrNum)
                 /\ IsRecord(Q(x), SpanFields)
      <4>1. ~Q(x).parameter /\ Q(x).start = sj[m].start /\ Q(x).end = instrNum - 1
            /\ Q(x).offset = sj[m].offset /\ IsRecord(Q(x), SpanFields)
        BY <2>7 DEF IsRecord, SpanFields
      <4> HIDE DEF Q
      <4> QED
        BY <2>1, <2>4, <2>6, <2>8, <2>9, <2>11, <2>12, <3>1, <4>1, SplitSpan
    <3> HIDE DEF Q
    <3>3. CASE d.journal = c.journal
      BY <2>4, <3>2, <3>3
    <3>4. CASE d.journal # c.journal
      <4>1. PICK x : d.journal = Append(c.journal, Q(x))
        BY <1>1, <2>2, <3>4
      <4>2. IsList(Append(c.journal, Q(x))) /\ Len(Append(c.journal, Q(x))) = Len(c.journal) + 1
            /\ Append(c.journal, Q(x))[Len(c.journal) + 1] = Q(x) /\ Len(c.journal) \in Nat
            /\ \A j \in 1..Len(c.journal) : Append(c.journal, Q(x))[j] = c.journal[j]
        BY <2>4, AppendList, EmptyListIs
      <4>3. \A j \in 1..Len(c.journal) + 1 : IsRecord(Append(c.journal, Q(x))[j], SpanFields)
        BY <2>4, <3>2, <4>2
      <4> QED
        BY <3>2, <4>1, <4>2, <4>3
    <3> QED
      BY <3>3, <3>4
  <2>18. Pushed(u, ls, r) = Pushed(os, ls, r)
    <3>1. Len(u) = Len(os) /\ SameActions(os, u, Len(os))
      BY <2>14 DEF SameValues, SameActions
    <3>2. StoredActions(os) = StoredActions(u)
      BY <2>5, <3>1, StoredSame
    <3> QED
      BY <3>2 DEF Pushed
  <2>19. Lists(d)
    BY <1>1, <2>4, <2>12, <2>14, <2>17 DEF Lists, Entries, SameValues, ls, os
  <2>20. Full(d, instrNum, n, r)
    BY <1>1, <2>4, <2>15, <2>16, <2>17, <2>18, <2>19 DEF Full, ls
  <2>21. Old(d)
    <3>1. ASSUME NEW j \in 1..Len(s), j > n
          PROVE  s[j].start < instrNum
      <4>1. CASE j = m
        BY <2>1, <2>10, <2>11, <4>1
      <4>2. CASE j # m
        BY <2>3, <2>11, <3>1, <4>2 DEF Old, sj, n
      <4> QED
        BY <4>1, <4>2
    <3> QED
      BY <1>1, <3>1 DEF Old, n, s, sj, m, f
  <2> QED
    BY <2>20, <2>21
<1> QED
  BY <1>3, <1>4 DEF d, os, at

(***************************************************************************)
(* The loops of the operations, as functions of how often they have gone   *)
(* around.                                                                 *)
(***************************************************************************)

ArgumentPopsTo(c, params, exact, f, m) ==
  f = [k \in 0..m |-> IF k = 0 THEN c ELSE PopArgument(f[k - 1], params[Len(params) - k + 1], exact)]

LEMMA ArgumentPopsExist ==
  ASSUME NEW c, NEW params, NEW exact, NEW i \in Nat
  PROVE  \E f : ArgumentPopsTo(c, params, exact, f, i)
<1> DEFINE S == {m \in Nat : \E f : ArgumentPopsTo(c, params, exact, f, m)}
<1>1. 0 \in S
  <2>1. ArgumentPopsTo(c, params, exact, [k \in 0..0 |-> c], 0)
    BY DEF ArgumentPopsTo
  <2> QED
    BY <2>1
<1>2. ASSUME NEW m \in Nat, m \in S
      PROVE  m + 1 \in S
  <2>1. PICK f : ArgumentPopsTo(c, params, exact, f, m)
    BY <1>2
  <2> DEFINE g == [k \in 0..m + 1 |-> IF k = 0 THEN c ELSE PopArgument(f[k - 1], params[Len(params) - k + 1], exact)]
  <2>2. \A k \in 0..m : g[k] = f[k]
    BY <2>1 DEF ArgumentPopsTo
  <2>3. \A k \in 0..m + 1 : k # 0 => k - 1 \in 0..m
    OBVIOUS
  <2>4. ArgumentPopsTo(c, params, exact, g, m + 1)
    BY <2>2, <2>3 DEF ArgumentPopsTo
  <2> HIDE DEF g
  <2>5. \E h : ArgumentPopsTo(c, params, exact, h, m + 1)
    BY <2>4
  <2> QED
    BY <2>5
<1> HIDE DEF S
<1>3. i \in S
  BY <1>1, <1>2, SetInduction
<1> QED
  BY <1>3 DEF S

LEMMA ArgumentPopsAre ==
  ASSUME NEW c, NEW params, NEW exact, Len(params) \in Nat
  PROVE  \E f : ArgumentPopsTo(c, params, exact, f, Len(params)) /\ PopArguments(c, params, exact) = f[Len(params)]
<1> DEFINE f == CHOOSE f : ArgumentPopsTo(c, params, exact, f, Len(params))
<1>1. ArgumentPopsTo(c, params, exact, f, Len(params))
  BY ArgumentPopsExist
<1>2. PopArguments(c, params, exact) = f[Len(params)]
  BY DEF PopArguments, ArgumentPopsTo
<1> QED
  BY <1>1, <1>2

ValuePopsTo(c, n, expected, f, m) ==
  f = [k \in 0..m |-> IF k = 0 THEN c ELSE PopOpstack(f[k - 1], expected)]

LEMMA ValuePopsExist ==
  ASSUME NEW c, NEW n, NEW expected, NEW i \in Nat
  PROVE  \E f : ValuePopsTo(c, n, expected, f, i)
<1> DEFINE S == {m \in Nat : \E f : ValuePopsTo(c, n, expected, f, m)}
<1>1. 0 \in S
  <2>1. ValuePopsTo(c, n, expected, [k \in 0..0 |-> c], 0)
    BY DEF ValuePopsTo
  <2> QED
    BY <2>1
<1>2. ASSUME NEW m \in Nat, m \in S
      PROVE  m + 1 \in S
  <2>1. PICK f : ValuePopsTo(c, n, expected, f, m)
    BY <1>2
  <2> DEFINE g == [k \in 0..m + 1 |-> IF k = 0 THEN c ELSE PopOpstack(f[k - 1], expected)]
  <2>2. \A k \in 0..m : g[k] = f[k]
    BY <2>1 DEF ValuePopsTo
  <2>3. \A k \in 0..m + 1 : k # 0 => k - 1 \in 0..m
    OBVIOUS
  <2>4. ValuePopsTo(c, n, expected, g, m + 1)
    BY <2>2, <2>3 DEF ValuePopsTo
  <2> HIDE DEF g
  <2>5. \E h : ValuePopsTo(c, n, expected, h, m + 1)
    BY <2>4
  <2> QED
    BY <2>5
<1> HIDE DEF S
<1>3. i \in S
  BY <1>1, <1>2, SetInduction
<1> QED
  BY <1>3 DEF S

LEMMA ValuePopsAre ==
  ASSUME NEW c, NEW n, NEW expected, n \in Nat
  PROVE  \E f : ValuePopsTo(c, n, expected, f, n) /\ PopValues(c, n, expected) = f[n]
<1> DEFINE f == CHOOSE f : ValuePopsTo(c, n, expected, f, n)
<1>1. ValuePopsTo(c, n, expected, f, n)
  BY ValuePopsExist
<1>2. PopValues(c, n, expected) = f[n]
  BY DEF PopValues, ValuePopsTo
<1> QED
  BY <1>1, <1>2

PreparationsTo(c, params, f, m) ==
  f = [k \in 0..m |-> IF k = 0 THEN c ELSE PrepareArgument(f[k - 1], params, k)]

LEMMA PreparationsExist ==
  ASSUME NEW c, NEW params, NEW i \in Nat
  PROVE  \E f : PreparationsTo(c, params, f, i)
<1> DEFINE S == {m \in Nat : \E f : PreparationsTo(c, params, f, m)}
<1>1. 0 \in S
  <2>1. PreparationsTo(c, params, [k \in 0..0 |-> c], 0)
    BY DEF PreparationsTo
  <2> QED
    BY <2>1
<1>2. ASSUME NEW m \in Nat, m \in S
      PROVE  m + 1 \in S
  <2>1. PICK f : PreparationsTo(c, params, f, m)
    BY <1>2
  <2> DEFINE g == [k \in 0..m + 1 |-> IF k = 0 THEN c ELSE PrepareArgument(f[k - 1], params, k)]
  <2>2. \A k \in 0..m : g[k] = f[k]
    BY <2>1 DEF PreparationsTo
  <2>3. \A k \in 0..m + 1 : k # 0 => k - 1 \in 0..m
    OBVIOUS
  <2>4. PreparationsTo(c, params, g, m + 1)
    BY <2>2, <2>3 DEF PreparationsTo
  <2> HIDE DEF g
  <2>5. \E h : PreparationsTo(c, params, h, m + 1)
    BY <2>4
  <2> QED
    BY <2>5
<1> HIDE DEF S
<1>3. i \in S
  BY <1>1, <1>2, SetInduction
<1> QED
  BY <1>3 DEF S

LEMMA PreparationsAre ==
  ASSUME NEW c, NEW params, Len(params) \in Nat
  PROVE  \E f : PreparationsTo(c, params, f, Len(params)) /\ PrepareArguments(c, params) = IF Has(c, Len(params)) THEN f[Len(params)] ELSE Require(c, FALSE)
<1> DEFINE f == CHOOSE f : PreparationsTo(c, params, f, Len(params))
<1>1. PreparationsTo(c, params, f, Len(params))
  BY PreparationsExist
<1>2. PrepareArguments(c, params) = IF Has(c, Len(params)) THEN f[Len(params)] ELSE Require(c, FALSE)
  BY DEF PrepareArguments, PreparationsTo
<1> QED
  BY <1>1, <1>2

PropertySetsTo(c, created, finding, f, m) ==
  f = [k \in 0..m |-> IF k = 0 THEN created ELSE SetProperty(c, f[k - 1], Len(finding) - k, finding[k])]

LEMMA PropertySetsExist ==
  ASSUME NEW c, NEW created, NEW finding, NEW i \in Nat
  PROVE  \E f : PropertySetsTo(c, created, finding, f, i)
<1> DEFINE S == {m \in Nat : \E f : PropertySetsTo(c, created, finding, f, m)}
<1>1. 0 \in S
  <2>1. PropertySetsTo(c, created, finding, [k \in 0..0 |-> created], 0)
    BY DEF PropertySetsTo
  <2> QED
    BY <2>1
<1>2. ASSUME NEW m \in Nat, m \in S
      PROVE  m + 1 \in S
  <2>1. PICK f : PropertySetsTo(c, created, finding, f, m)
    BY <1>2
  <2> DEFINE g == [k \in 0..m + 1 |-> IF k = 0 THEN created ELSE SetProperty(c, f[k - 1], Len(finding) - k, finding[k])]
  <2>2. \A k \in 0..m : g[k] = f[k]
    BY <2>1 DEF PropertySetsTo
  <2>3. \A k \in 0..m + 1 : k # 0 => k - 1 \in 0..m
    OBVIOUS
  <2>4. PropertySetsTo(c, created, finding, g, m + 1)
    BY <2>2, <2>3 DEF PropertySetsTo
  <2> HIDE DEF g
  <2>5. \E h : PropertySetsTo(c, created, finding, h, m + 1)
    BY <2>4
  <2> QED
    BY <2>5
<1> HIDE DEF S
<1>3. i \in S
  BY <1>1, <1>2, SetInduction
<1> QED
  BY <1>3 DEF S

LEMMA PropertySetsAre ==
  ASSUME NEW c, NEW created, NEW finding, Len(finding) \in Nat
  PROVE  \E f : PropertySetsTo(c, created, finding, f, Len(finding)) /\ SetProperties(c, created, finding) = f[Len(finding)]
<1> DEFINE f == CHOOSE f : PropertySetsTo(c, created, finding, f, Len(finding))
<1>1. PropertySetsTo(c, created, finding, f, Len(finding))
  BY PropertySetsExist
<1>2. SetProperties(c, created, finding) = f[Len(finding)]
  BY DEF SetProperties, PropertySetsTo
<1> QED
  BY <1>1, <1>2

CopiesTo(c, first, n, f, m) ==
  f = [k \in 0..m |-> IF k = 0 THEN c ELSE CloneValue(f[k - 1], f[k - 1].opstack[first + k - 1])]

LEMMA CopiesExist ==
  ASSUME NEW c, NEW first, NEW n, NEW i \in Nat
  PROVE  \E f : CopiesTo(c, first, n, f, i)
<1> DEFINE S == {m \in Nat : \E f : CopiesTo(c, first, n, f, m)}
<1>1. 0 \in S
  <2>1. CopiesTo(c, first, n, [k \in 0..0 |-> c], 0)
    BY DEF CopiesTo
  <2> QED
    BY <2>1
<1>2. ASSUME NEW m \in Nat, m \in S
      PROVE  m + 1 \in S
  <2>1. PICK f : CopiesTo(c, first, n, f, m)
    BY <1>2
  <2> DEFINE g == [k \in 0..m + 1 |-> IF k = 0 THEN c ELSE CloneValue(f[k - 1], f[k - 1].opstack[first + k - 1])]
  <2>2. \A k \in 0..m : g[k] = f[k]
    BY <2>1 DEF CopiesTo
  <2>3. \A k \in 0..m + 1 : k # 0 => k - 1 \in 0..m
    OBVIOUS
  <2>4. CopiesTo(c, first, n, g, m + 1)
    BY <2>2, <2>3 DEF CopiesTo
  <2> HIDE DEF g
  <2>5. \E h : CopiesTo(c, first, n, h, m + 1)
    BY <2>4
  <2> QED
    BY <2>5
<1> HIDE DEF S
<1>3. i \in S
  BY <1>1, <1>2, SetInduction
<1> QED
  BY <1>3 DEF S

LEMMA CopiesAre ==
  ASSUME NEW c, NEW first, NEW n, n \in Nat
  PROVE  \E f : CopiesTo(c, first, n, f, n) /\ CloneValues(c, first, n) = f[n]
<1> DEFINE f == CHOOSE f : CopiesTo(c, first, n, f, n)
<1>1. CopiesTo(c, first, n, f, n)
  BY CopiesExist
<1>2. CloneValues(c, first, n) = f[n]
  BY DEF CloneValues, CopiesTo
<1> QED
  BY <1>1, <1>2

ParentMovesTo(c, n, f, m) ==
  f = [k \in 0..m |-> IF k = 0 THEN c ELSE MoveToParent(f[k - 1], method.returns[n - k + 1])]

LEMMA ParentMovesExist ==
  ASSUME NEW c, NEW n, NEW i \in Nat
  PROVE  \E f : ParentMovesTo(c, n, f, i)
<1> DEFINE S == {m \in Nat : \E f : ParentMovesTo(c, n, f, m)}
<1>1. 0 \in S
  <2>1. ParentMovesTo(c, n, [k \in 0..0 |-> c], 0)
    BY DEF ParentMovesTo
  <2> QED
    BY <2>1
<1>2. ASSUME NEW m \in Nat, m \in S
      PROVE  m + 1 \in S
  <2>1. PICK f : ParentMovesTo(c, n, f, m)
    BY <1>2
  <2> DEFINE g == [k \in 0..m + 1 |-> IF k = 0 THEN c ELSE MoveToParent(f[k - 1], method.returns[n - k + 1])]
  <2>2. \A k \in 0..m : g[k] = f[k]
    BY <2>1 DEF ParentMovesTo
  <2>3. \A k \in 0..m + 1 : k # 0 => k - 1 \in 0..m
    OBVIOUS
  <2>4. ParentMovesTo(c, n, g, m + 1)
    BY <2>2, <2>3 DEF ParentMovesTo
  <2> HIDE DEF g
  <2>5. \E h : ParentMovesTo(c, n, h, m + 1)
    BY <2>4
  <2> QED
    BY <2>5
<1> HIDE DEF S
<1>3. i \in S
  BY <1>1, <1>2, SetInduction
<1> QED
  BY <1>3 DEF S

LEMMA ParentMovesAre ==
  ASSUME NEW c, NEW n, n \in Nat
  PROVE  \E f : ParentMovesTo(c, n, f, n) /\ ReturnToParent(c, n) = IF n # Len(method.returns) THEN Require(c, FALSE) ELSE EmitSimple(f[n], "exit")
<1> DEFINE f == CHOOSE f : ParentMovesTo(c, n, f, n)
<1>1. ParentMovesTo(c, n, f, n)
  BY ParentMovesExist
<1>2. ReturnToParent(c, n) = IF n # Len(method.returns) THEN Require(c, FALSE) ELSE EmitSimple(f[n], "exit")
  BY DEF ReturnToParent, ParentMovesTo
<1> QED
  BY <1>1, <1>2

BarrierMovesTo(c, n, f, m) ==
  f = [k \in 0..m |-> IF k = 0 THEN c ELSE MovePastBarrier(f[k - 1], n)]

LEMMA BarrierMovesExist ==
  ASSUME NEW c, NEW n, NEW i \in Nat
  PROVE  \E f : BarrierMovesTo(c, n, f, i)
<1> DEFINE S == {m \in Nat : \E f : BarrierMovesTo(c, n, f, m)}
<1>1. 0 \in S
  <2>1. BarrierMovesTo(c, n, [k \in 0..0 |-> c], 0)
    BY DEF BarrierMovesTo
  <2> QED
    BY <2>1
<1>2. ASSUME NEW m \in Nat, m \in S
      PROVE  m + 1 \in S
  <2>1. PICK f : BarrierMovesTo(c, n, f, m)
    BY <1>2
  <2> DEFINE g == [k \in 0..m + 1 |-> IF k = 0 THEN c ELSE MovePastBarrier(f[k - 1], n)]
  <2>2. \A k \in 0..m : g[k] = f[k]
    BY <2>1 DEF BarrierMovesTo
  <2>3. \A k \in 0..m + 1 : k # 0 => k - 1 \in 0..m
    OBVIOUS
  <2>4. BarrierMovesTo(c, n, g, m + 1)
    BY <2>2, <2>3 DEF BarrierMovesTo
  <2> HIDE DEF g
  <2>5. \E h : BarrierMovesTo(c, n, h, m + 1)
    BY <2>4
  <2> QED
    BY <2>5
<1> HIDE DEF S
<1>3. i \in S
  BY <1>1, <1>2, SetInduction
<1> QED
  BY <1>3 DEF S

LEMMA BarrierMovesAre ==
  ASSUME NEW c, NEW n, n \in Nat
  PROVE  \E f : BarrierMovesTo(c, n, f, n) /\ ReturnPastBarrier(c, n) =
       IF n \in 1..Len(c.opstack) /\ BarrierEnds # {} /\ Top(c, "opstack", n).vst = "Barrier"
          /\ Top(c, "opstack", n).count = n
       THEN EmitJump(f[n], "jump", {}, CHOOSE e \in BarrierEnds : \A k \in BarrierEnds : e <= k)
       ELSE Require(c, FALSE)
<1> DEFINE f == CHOOSE f : BarrierMovesTo(c, n, f, n)
<1>1. BarrierMovesTo(c, n, f, n)
  BY BarrierMovesExist
<1>2. ReturnPastBarrier(c, n) =
       IF n \in 1..Len(c.opstack) /\ BarrierEnds # {} /\ Top(c, "opstack", n).vst = "Barrier"
          /\ Top(c, "opstack", n).count = n
       THEN EmitJump(f[n], "jump", {}, CHOOSE e \in BarrierEnds : \A k \in BarrierEnds : e <= k)
       ELSE Require(c, FALSE)
  BY DEF ReturnPastBarrier, BarrierMovesTo
<1> QED
  BY <1>1, <1>2

ReturnPushesTo(c, n, f, m) ==
  f = [k \in 0..m |-> IF k = 0 THEN c ELSE PushList(f[k - 1], "actions", "PushReturn")]

LEMMA ReturnPushesExist ==
  ASSUME NEW c, NEW n, NEW i \in Nat
  PROVE  \E f : ReturnPushesTo(c, n, f, i)
<1> DEFINE S == {m \in Nat : \E f : ReturnPushesTo(c, n, f, m)}
<1>1. 0 \in S
  <2>1. ReturnPushesTo(c, n, [k \in 0..0 |-> c], 0)
    BY DEF ReturnPushesTo
  <2> QED
    BY <2>1
<1>2. ASSUME NEW m \in Nat, m \in S
      PROVE  m + 1 \in S
  <2>1. PICK f : ReturnPushesTo(c, n, f, m)
    BY <1>2
  <2> DEFINE g == [k \in 0..m + 1 |-> IF k = 0 THEN c ELSE PushList(f[k - 1], "actions", "PushReturn")]
  <2>2. \A k \in 0..m : g[k] = f[k]
    BY <2>1 DEF ReturnPushesTo
  <2>3. \A k \in 0..m + 1 : k # 0 => k - 1 \in 0..m
    OBVIOUS
  <2>4. ReturnPushesTo(c, n, g, m + 1)
    BY <2>2, <2>3 DEF ReturnPushesTo
  <2> HIDE DEF g
  <2>5. \E h : ReturnPushesTo(c, n, h, m + 1)
    BY <2>4
  <2> QED
    BY <2>5
<1> HIDE DEF S
<1>3. i \in S
  BY <1>1, <1>2, SetInduction
<1> QED
  BY <1>3 DEF S

LEMMA ReturnPushesAre ==
  ASSUME NEW c, NEW n, n \in Nat
  PROVE  \E f : ReturnPushesTo(c, n, f, n) /\ PushReturns(c, n) = f[n]
<1> DEFINE f == CHOOSE f : ReturnPushesTo(c, n, f, n)
<1>1. ReturnPushesTo(c, n, f, n)
  BY ReturnPushesExist
<1>2. PushReturns(c, n) = f[n]
  BY DEF PushReturns, ReturnPushesTo
<1> QED
  BY <1>1, <1>2

ParameterPushesTo(c, params, f, m) ==
  f = [k \in 0..m |-> IF k = 0 THEN c ELSE Parameter(f[k - 1], params[k])]

LEMMA ParameterPushesExist ==
  ASSUME NEW c, NEW params, NEW i \in Nat
  PROVE  \E f : ParameterPushesTo(c, params, f, i)
<1> DEFINE S == {m \in Nat : \E f : ParameterPushesTo(c, params, f, m)}
<1>1. 0 \in S
  <2>1. ParameterPushesTo(c, params, [k \in 0..0 |-> c], 0)
    BY DEF ParameterPushesTo
  <2> QED
    BY <2>1
<1>2. ASSUME NEW m \in Nat, m \in S
      PROVE  m + 1 \in S
  <2>1. PICK f : ParameterPushesTo(c, params, f, m)
    BY <1>2
  <2> DEFINE g == [k \in 0..m + 1 |-> IF k = 0 THEN c ELSE Parameter(f[k - 1], params[k])]
  <2>2. \A k \in 0..m : g[k] = f[k]
    BY <2>1 DEF ParameterPushesTo
  <2>3. \A k \in 0..m + 1 : k # 0 => k - 1 \in 0..m
    OBVIOUS
  <2>4. ParameterPushesTo(c, params, g, m + 1)
    BY <2>2, <2>3 DEF ParameterPushesTo
  <2> HIDE DEF g
  <2>5. \E h : ParameterPushesTo(c, params, h, m + 1)
    BY <2>4
  <2> QED
    BY <2>5
<1> HIDE DEF S
<1>3. i \in S
  BY <1>1, <1>2, SetInduction
<1> QED
  BY <1>3 DEF S

LEMMA ParameterPushesAre ==
  ASSUME NEW c, NEW params, Len(params) \in Nat
  PROVE  \E f : ParameterPushesTo(c, params, f, Len(params)) /\ Parameters(c, params) = f[Len(params)]
<1> DEFINE f == CHOOSE f : ParameterPushesTo(c, params, f, Len(params))
<1>1. ParameterPushesTo(c, params, f, Len(params))
  BY ParameterPushesExist
<1>2. Parameters(c, params) = f[Len(params)]
  BY DEF Parameters, ParameterPushesTo
<1> QED
  BY <1>1, <1>2

(***************************************************************************)
(* What the loops keep.                                                    *)
(***************************************************************************)

LEMMA PopValuesSound ==
  ASSUME Context, NEW c, Sound(c), NEW n \in Nat, NEW expected
  PROVE  Sound(PopValues(c, n, expected))
<1>1. PICK f : ValuePopsTo(c, n, expected, f, n) /\ PopValues(c, n, expected) = f[n]
  BY ValuePopsAre
<1> DEFINE S == {m \in Nat : m <= n => Sound(f[m])}
<1>2. 0 \in S
  BY <1>1 DEF ValuePopsTo
<1>3. ASSUME NEW m \in Nat, m \in S
      PROVE  m + 1 \in S
  <2>1. SUFFICES ASSUME m + 1 <= n
                 PROVE  Sound(f[m + 1])
    OBVIOUS
  <2>2. f[m + 1] = PopOpstack(f[m], expected)
    <3>1. m + 1 \in 0..n /\ m + 1 # 0 /\ m + 1 - 1 = m
      BY <2>1
    <3> QED
      BY <1>1, <3>1 DEF ValuePopsTo
  <2>3. Sound(f[m])
    BY <1>3, <2>1
  <2> QED
    BY <2>2, <2>3, PopOpstackSound
<1> HIDE DEF S
<1>4. n \in S
  BY <1>2, <1>3, SetInduction
<1> QED
  BY <1>1, <1>4 DEF S

LEMMA SetPropertySound ==
  ASSUME NEW c, NEW d, Sound(d), NEW k, NEW code
  PROVE  Sound(SetProperty(c, d, k, code))
<1> DEFINE e == EmitSimple(d, code)
           f == IF code = "none" THEN d ELSE e
           uses == {Top(c, "opstack", k).sa}
<1>1. Sound(e)
  BY EmitSound DEF Sound, EmitSimple
<1>2. Sound(f)
  BY <1>1
<1> HIDE DEF f, uses
<1>3. Sound(Emit(f, "move", uses, {}, -1))
  BY <1>2, EmitSound DEF Sound
<1> QED
  BY <1>3 DEF SetProperty, f, uses

LEMMA SetPropertiesSound ==
  ASSUME NEW c, NEW d, Sound(d), NEW finding, Len(finding) \in Nat
  PROVE  Sound(SetProperties(c, d, finding))
<1> DEFINE n == Len(finding)
<1>1. PICK f : PropertySetsTo(c, d, finding, f, n) /\ SetProperties(c, d, finding) = f[n]
  BY PropertySetsAre
<1> DEFINE S == {m \in Nat : m <= n => Sound(f[m])}
<1> HIDE DEF n
<1>5. n \in Nat
  BY DEF n
<1>2. 0 \in S
  BY <1>1, <1>5 DEF PropertySetsTo
<1>3. ASSUME NEW m \in Nat, m \in S
      PROVE  m + 1 \in S
  <2>1. SUFFICES ASSUME m + 1 <= n
                 PROVE  Sound(f[m + 1])
    OBVIOUS
  <2>2. f[m + 1] = SetProperty(c, f[m], Len(finding) - (m + 1), finding[m + 1])
    <3>1. m + 1 \in 0..n /\ m + 1 # 0 /\ m + 1 - 1 = m
      BY <1>5, <2>1
    <3>2. f = [k \in 0..n |-> IF k = 0 THEN d ELSE SetProperty(c, f[k - 1], Len(finding) - k, finding[k])]
      BY <1>1 DEF PropertySetsTo
    <3>3. ASSUME NEW j \in 0..n, j # 0
          PROVE  f[j] = SetProperty(c, f[j - 1], Len(finding) - j, finding[j])
      BY <3>2, <3>3
    <3> QED
      BY <3>1, <3>3
  <2>3. Sound(f[m])
    BY <1>3, <1>5, <2>1
  <2> QED
    BY <2>2, <2>3, SetPropertySound
<1> HIDE DEF S
<1>4. n \in S
  BY <1>2, <1>3, <1>5, SetInduction
<1> QED
  BY <1>1, <1>4, <1>5 DEF S

\* An operation that is not accepted stays so, whatever its handler goes on to do.
LEMMA MakeSound ==
  ASSUME Context, NEW c, Sound(c), NEW v, Recording /\ c.ok => IsValue(v), NEW code, NEW uses
  PROVE  Sound(Make(c, v, code, uses)) /\ (Make(c, v, code, uses).ok => c.ok)
<1> DEFINE d == AppendOpstack(c, v)
           makes == {d.v.sa}
<1>1. Sound(d) /\ Shape(c) /\ Shape(d)
  BY AppendOpstackSound DEF Sound, SoundWith
<1>2. d.ok = c.ok
  BY <1>1, AppendOpstackFields DEF Appended
<1> HIDE DEF d, makes
<1>3. Sound(Emit(d, code, uses, makes, -1)) /\ Emit(d, code, uses, makes, -1).ok = d.ok
  BY <1>1, EmitSound, EmitFields DEF Sound, Emitted
<1> QED
  BY <1>2, <1>3 DEF Make, d, makes

LEMMA CloneValueSound ==
  ASSUME Context, NEW c, Sound(c), NEW v, Recording /\ c.ok => IsValue(v)
  PROVE  LET d == CloneValue(c, v)
         IN  /\ Sound(d) /\ (d.ok => c.ok)
             /\ Recording => \E x : d.opstack = Append(c.opstack, x)
<1> DEFINE d == AppendOpstack(c, v)
           e == Make(c, v, "clone", {v.sa})
           uses == {v.sa}
           makes == {d.v.sa}
<1>1. Shape(c)
  BY DEF Sound, SoundWith
<1>2. e = Emit(d, "clone", uses, makes, -1)
  BY DEF Make
<1>3. Sound(e) /\ (e.ok => c.ok)
  BY MakeSound
<1>4. Sound(d) /\ Appended(c, d, v.vst, PlacedValue(c, v), PlacedEntry(PlacedValue(c, v)))
  BY <1>1, AppendOpstackSound, AppendOpstackFields
<1>5. CloneValue(c, v) \in {d, e}
  BY DEF CloneValue
<1> HIDE DEF d, e, uses, makes
<1>6. Shape(d) /\ (d.ok => c.ok) /\ (Recording => d.opstack = Append(c.opstack, PlacedValue(c, v)))
  BY <1>4 DEF Appended
<1>7. e.opstack = d.opstack
  BY <1>2, <1>6, EmitFields DEF Emitted, SameStacks
<1> QED
  BY <1>3, <1>4, <1>5, <1>6, <1>7

LEMMA CloneValuesSound ==
  ASSUME Context, NEW c, Sound(c), NEW first, NEW n \in Nat,
         Recording /\ c.ok => first \in 1..Len(c.opstack)
  PROVE  Sound(CloneValues(c, first, n))
<1>1. PICK f : CopiesTo(c, first, n, f, n) /\ CloneValues(c, first, n) = f[n]
  BY CopiesAre
<1> DEFINE A(m) == /\ Sound(f[m]) /\ (f[m].ok => c.ok)
                   /\ Recording /\ f[m].ok => first + m \in 1..Len(f[m].opstack)
           S == {m \in Nat : m <= n => A(m)}
<1>2. 0 \in S
  BY <1>1 DEF CopiesTo
<1>3. ASSUME NEW m \in Nat, m \in S
      PROVE  m + 1 \in S
  <2>1. SUFFICES ASSUME m + 1 <= n
                 PROVE  A(m + 1)
    OBVIOUS
  <2> DEFINE x == f[m]
             y == f[m + 1]
             v == x.opstack[first + (m + 1) - 1]
  <2>2. y = CloneValue(x, v)
    <3>1. m + 1 \in 0..n /\ m + 1 # 0 /\ m + 1 - 1 = m
      BY <2>1
    <3>2. f = [k \in 0..n |-> IF k = 0 THEN c ELSE CloneValue(f[k - 1], f[k - 1].opstack[first + k - 1])]
      BY <1>1 DEF CopiesTo
    <3>3. ASSUME NEW j \in 0..n, j # 0
          PROVE  f[j] = CloneValue(f[j - 1], f[j - 1].opstack[first + j - 1])
      BY <3>2, <3>3
    <3> QED
      BY <3>1, <3>3
  <2>3. A(m)
    BY <1>3, <2>1
  <2>4. Recording /\ x.ok => first \in Int /\ first + (m + 1) - 1 = first + m
    <3>1. Recording /\ x.ok => first \in Int
      BY <2>3
    <3> QED
      BY <3>1
  <2> HIDE DEF x, y
  <2>5. Recording /\ x.ok => Valued(x.opstack)
    BY <2>3 DEF x, Sound, SoundWith, Full, Lists, Valued
  <2>6. Recording /\ x.ok => IsValue(v)
    BY <2>3, <2>4, <2>5 DEF x, Valued
  <2> HIDE DEF v
  <2>7. /\ Sound(y) /\ (y.ok => x.ok)
        /\ Recording => \E w : y.opstack = Append(x.opstack, w)
    BY <2>2, <2>3, <2>6, CloneValueSound DEF x
  <2>8. ASSUME Recording, y.ok
        PROVE  first + (m + 1) \in 1..Len(y.opstack)
    <3>1. first \in Int /\ first + m \in 1..Len(x.opstack) /\ IsList(x.opstack)
      BY <2>3, <2>4, <2>5, <2>7, <2>8 DEF x, Valued
    <3>2. PICK w : y.opstack = Append(x.opstack, w)
      BY <2>7, <2>8
    <3>3. Len(y.opstack) = Len(x.opstack) + 1 /\ Len(x.opstack) \in Nat
      BY <3>1, <3>2, AppendList DEF IsList
    <3> QED
      BY <3>1, <3>3
  <2> QED
    BY <2>3, <2>7, <2>8 DEF x, y
<1> HIDE DEF S
<1>4. n \in S
  BY <1>2, <1>3, SetInduction
<1> QED
  BY <1>1, <1>4 DEF S

LEMMA MoveToParentSound ==
  ASSUME Context, NEW c, Sound(c), NEW t
  PROVE  Sound(MoveToParent(c, t))
<1> DEFINE popped == PopOpstack(c, "Indeterminate")
           condition == Returnable(popped.v) /\ TypesCompatible(popped.v.type, t)
           d == Require(popped, condition)
           uses == {PlaceOf(popped, popped.v)}
<1>1. Sound(popped)
  BY PopOpstackSound
<1> HIDE DEF popped, condition
<1>2. Sound(d)
  BY <1>1, RequireSound DEF Sound
<1> HIDE DEF d, uses
<1>3. Sound(Emit(d, "move", uses, {}, -1))
  BY <1>2, EmitSound DEF Sound
<1> QED
  BY <1>3 DEF MoveToParent, popped, condition, d, uses

LEMMA ReturnToParentSound ==
  ASSUME Context, NEW c, Sound(c), NEW n \in Nat
  PROVE  Sound(ReturnToParent(c, n))
<1>1. PICK f : /\ ParentMovesTo(c, n, f, n)
               /\ ReturnToParent(c, n) = IF n # Len(method.returns) THEN Require(c, FALSE)
                                         ELSE EmitSimple(f[n], "exit")
  BY ParentMovesAre
<1> DEFINE S == {m \in Nat : m <= n => Sound(f[m])}
<1>2. 0 \in S
  BY <1>1 DEF ParentMovesTo
<1>3. ASSUME NEW m \in Nat, m \in S
      PROVE  m + 1 \in S
  <2>1. SUFFICES ASSUME m + 1 <= n
                 PROVE  Sound(f[m + 1])
    OBVIOUS
  <2>2. f[m + 1] = MoveToParent(f[m], method.returns[n - (m + 1) + 1])
    <3>1. m + 1 \in 0..n /\ m + 1 # 0 /\ m + 1 - 1 = m
      BY <2>1
    <3> QED
      BY <1>1, <3>1 DEF ParentMovesTo
  <2>3. Sound(f[m])
    BY <1>3, <2>1
  <2> QED
    BY <2>2, <2>3, MoveToParentSound
<1> HIDE DEF S
<1>4. n \in S
  BY <1>2, <1>3, SetInduction
<1>5. Sound(f[n])
  BY <1>4 DEF S
<1>6. Sound(EmitSimple(f[n], "exit")) /\ Sound(Require(c, FALSE))
  BY <1>5, EmitSound, RequireSound DEF Sound, EmitSimple
<1> QED
  BY <1>1, <1>6

LEMMA MovePastBarrierSound ==
  ASSUME Context, NEW c, Sound(c), NEW n
  PROVE  Sound(MovePastBarrier(c, n))
<1> DEFINE popped == PopOpstack(c, "Indeterminate")
           v == popped.v
           dest == Top(popped, "opstack", n)
           into == IF TypeIsRefStruct(v.type) THEN "Pointer" ELSE "ValueShell"
           livened == IF dest.vst = "ValueShell" THEN LivenJournal(popped, {dest.id}) ELSE popped
           condition == Returnable(v) /\ dest.vst = into /\ TypesCompatible(v.type, dest.type)
           d == Require(livened, condition)
           uses == {PlaceOf(popped, v)}
           makes == {dest.sa}
<1>5. MovePastBarrier(c, n) = Emit(d, "move", uses, makes, -1)
  BY DEF MovePastBarrier
<1>1. Sound(popped)
  BY PopOpstackSound
<1> HIDE DEF popped, dest, condition
<1>2. Sound(livened)
  BY <1>1, LivenJournalSound
<1> HIDE DEF livened
<1>3. Sound(d)
  BY <1>2, RequireSound DEF Sound
<1> HIDE DEF d, uses, makes
<1>4. Sound(Emit(d, "move", uses, makes, -1))
  BY <1>3, EmitSound DEF Sound
<1> QED
  BY <1>4, <1>5

LEMMA EmitJumpSound ==
  ASSUME NEW c, Sound(c), NEW code, NEW uses, NEW dest
  PROVE  Sound(EmitJump(c, code, uses, dest))
<1> DEFINE condition == dest \in Labels /\ MayJump(c, dest)
           d == Require(c, condition)
           target == StitchJump(c, dest)
<1> HIDE DEF condition, target
<1>1. Sound(d)
  BY RequireSound DEF Sound
<1> HIDE DEF d
<1>2. Sound(Emit(d, code, uses, {}, target))
  BY <1>1, EmitSound DEF Sound
<1> QED
  BY <1>2 DEF EmitJump, d, condition, target

LEMMA ReturnPastBarrierSound ==
  ASSUME Context, NEW c, Sound(c), NEW n \in Nat
  PROVE  Sound(ReturnPastBarrier(c, n))
<1> DEFINE dest == CHOOSE e \in BarrierEnds : \A k \in BarrierEnds : e <= k
<1>1. PICK f : /\ BarrierMovesTo(c, n, f, n)
               /\ ReturnPastBarrier(c, n) \in {EmitJump(f[n], "jump", {}, dest), Require(c, FALSE)}
  <2>1. PICK f : /\ BarrierMovesTo(c, n, f, n)
                 /\ ReturnPastBarrier(c, n) =
                      IF n \in 1..Len(c.opstack) /\ BarrierEnds # {} /\ Top(c, "opstack", n).vst = "Barrier"
                         /\ Top(c, "opstack", n).count = n
                      THEN EmitJump(f[n], "jump", {}, dest) ELSE Require(c, FALSE)
    BY BarrierMovesAre
  <2> HIDE DEF dest
  <2> QED
    BY <2>1
<1> HIDE DEF dest
<1> DEFINE S == {m \in Nat : m <= n => Sound(f[m])}
<1>2. 0 \in S
  BY <1>1 DEF BarrierMovesTo
<1>3. ASSUME NEW m \in Nat, m \in S
      PROVE  m + 1 \in S
  <2>1. SUFFICES ASSUME m + 1 <= n
                 PROVE  Sound(f[m + 1])
    OBVIOUS
  <2>2. f[m + 1] = MovePastBarrier(f[m], n)
    <3>1. m + 1 \in 0..n /\ m + 1 # 0 /\ m + 1 - 1 = m
      BY <2>1
    <3> QED
      BY <1>1, <3>1 DEF BarrierMovesTo
  <2>3. Sound(f[m])
    BY <1>3, <2>1
  <2> QED
    BY <2>2, <2>3, MovePastBarrierSound
<1> HIDE DEF S
<1>4. n \in S
  BY <1>2, <1>3, SetInduction
<1>5. Sound(f[n])
  BY <1>4 DEF S
<1>6. Sound(EmitJump(f[n], "jump", {}, dest)) /\ Sound(Require(c, FALSE))
  BY <1>5, EmitJumpSound, RequireSound DEF Sound
<1> QED
  BY <1>1, <1>6

\* The argument that is to become the k-th parameter is on the stack.
ArgumentAt(c, params, k) == Len(c.opstack) - (Len(params) - k)

LEMMA PrepareArgumentReady ==
  ASSUME Context, NEW c, Shape(c), NEW params, Len(params) \in Nat, NEW k \in 1..Len(params),
         Recording => Valued(c.opstack) /\ ArgumentAt(c, params, k) \in 1..Len(c.opstack)
  PROVE  LET d == PrepareArgument(c, params, k)
         IN  /\ Kept(c, d)
             /\ Ready(c) /\ (Recording => c.opstack[ArgumentAt(c, params, k)].vst \in StoredVST)
                  => Ready(d)
<1> DEFINE at == Len(c.opstack) - (Len(params) - k)
           below == Len(params) - k
           p == params[k]
           v == c.opstack[at]
           verify == p.notNull /\ ~v.notNull
           condition == TypeIsObjectReference(p.type) \/ TypeIsInterface(p.type)
           uses == {v.sa}
           w == Verified(Emit(c, "verifynotnull", uses, {}, -1), at, condition)
           verified == IF ~verify THEN c ELSE w
           compatible == TypesCompatible(v.type, p.type)
           checked == Require(verified, compatible)
           converted == CallConvertOpstack(checked, below, p.type)
<1>1. PrepareArgument(c, params, k) = IF p.type \in {v.type, Varying} THEN verified ELSE converted
  BY DEF PrepareArgument, Verified
<1>2. below \in Nat /\ condition \in BOOLEAN /\ at = ArgumentAt(c, params, k)
      /\ (Recording => Valued(c.opstack) /\ at \in 1..Len(c.opstack))
  <2>1. below \in Nat /\ condition \in BOOLEAN
    OBVIOUS
  <2>2. at = ArgumentAt(c, params, k)
    BY DEF ArgumentAt
  <2> QED
    BY <2>1, <2>2
<1>3. Kept(c, w) /\ (Ready(c) => Ready(w))
  <2> HIDE DEF at, condition, uses
  <2> QED
    BY <1>2, VerifyReady
<1> HIDE DEF w, verify, condition, uses, compatible
<1>4. Kept(c, verified) /\ (Ready(c) => Ready(verified))
  BY <1>3, KeptSame
<1> HIDE DEF verified
<1>5. Shape(verified)
  BY <1>4 DEF Kept
<1>6. Kept(verified, checked) /\ (Ready(verified) => Ready(checked))
  <2>1. Shape(checked) /\ (checked.ok => verified.ok) /\ checked.opstack = verified.opstack
    BY <1>5, RequireFields DEF SameStacks
  <2> QED
    BY <2>1, KeptSame, RequireReady
<1> HIDE DEF checked
<1>7. Kept(c, checked) /\ (Ready(c) => Ready(checked)) /\ Shape(checked)
  BY <1>4, <1>6, KeptTwice DEF Kept
<1>8. ASSUME Recording
      PROVE  /\ Len(checked.opstack) - below = at /\ at \in 1..Len(checked.opstack)
             /\ checked.opstack[at].vst \in StoredVST <=> v.vst \in StoredVST
  <2>1. SameValues(c.opstack, checked.opstack) /\ at \in 1..Len(c.opstack)
    BY <1>2, <1>7, <1>8 DEF Kept
  <2>2. Len(c.opstack) \in Nat
    BY <1>2, <1>8 DEF Valued, IsList
  <2>3. Len(checked.opstack) = Len(c.opstack) /\ SameAction(v, checked.opstack[at])
    BY <2>1 DEF SameValues
  <2> QED
    BY <1>2, <2>1, <2>2, <2>3 DEF SameAction
<1> HIDE DEF at, v, below
<1>9. Kept(checked, converted)
      /\ (Ready(checked) /\ (Recording => checked.opstack[Len(checked.opstack) - below].vst \in StoredVST)
            => Ready(converted))
  BY <1>2, <1>7, <1>8, ConvertReady
<1>10. Kept(c, converted)
       /\ (Ready(c) /\ (Recording => v.vst \in StoredVST) => Ready(converted))
  BY <1>7, <1>8, <1>9, KeptTwice
<1> HIDE DEF converted
<1>11. \/ PrepareArgument(c, params, k) = verified
       \/ PrepareArgument(c, params, k) = converted
  BY <1>1
<1>12. v = c.opstack[ArgumentAt(c, params, k)]
  BY <1>2 DEF v
<1> QED
  BY <1>4, <1>10, <1>11, <1>12

\* The arguments for the parameters are stored values.
ArgumentsStored(os, n) == \A k \in 1..Len(os) : k > Len(os) - n => os[k].vst \in StoredVST

LEMMA SameStored ==
  ASSUME NEW os, NEW u, SameValues(os, u), NEW n
  PROVE  ArgumentsStored(os, n) <=> ArgumentsStored(u, n)
  BY DEF SameValues, SameAction, ArgumentsStored

LEMMA PrepareArgumentsReady ==
  ASSUME Context, NEW c, Ready(c), NEW params, Len(params) \in Nat, Recording => Valued(c.opstack)
  PROVE  LET d == PrepareArguments(c, params)
         IN  /\ Kept(c, d)
             /\ (Recording => ArgumentsStored(c.opstack, Len(params))) => Ready(d)
<1> DEFINE n == Len(params)
           stored == Recording => ArgumentsStored(c.opstack, n)
<1>1. PICK f : /\ PreparationsTo(c, params, f, n)
               /\ PrepareArguments(c, params) = IF Has(c, n) THEN f[n] ELSE Require(c, FALSE)
  BY PreparationsAre
<1>2. Shape(c)
  BY DEF Ready, Sound, SoundWith
<1>3. Kept(c, Require(c, FALSE)) /\ Ready(Require(c, FALSE))
  <2> DEFINE d == Require(c, FALSE)
  <2>1. Shape(d) /\ (d.ok => c.ok) /\ d.opstack = c.opstack /\ Ready(d)
    BY <1>2, RequireFields, RequireReady DEF SameStacks
  <2> QED
    BY <2>1, KeptSame
<1>4. SUFFICES ASSUME Has(c, n)
               PROVE  Kept(c, f[n]) /\ (stored => Ready(f[n]))
  BY <1>1, <1>3
<1> HIDE DEF stored
<1> DEFINE S == {m \in Nat : m <= n => Kept(c, f[m]) /\ (stored => Ready(f[m]))}
<1> HIDE DEF n
<1>5. n \in Nat
  BY DEF n
<1>6. 0 \in S
  BY <1>1, <1>2, <1>5, KeptSame DEF PreparationsTo
<1>7. ASSUME NEW m \in Nat, m \in S
      PROVE  m + 1 \in S
  <2>1. SUFFICES ASSUME m + 1 <= n
                 PROVE  Kept(c, f[m + 1]) /\ (stored => Ready(f[m + 1]))
    OBVIOUS
  <2> DEFINE x == f[m]
             k == m + 1
  <2>2. f[k] = PrepareArgument(x, params, k)
    <3>1. m + 1 \in 0..n /\ m + 1 # 0 /\ m + 1 - 1 = m
      BY <1>5, <2>1
    <3>2. f = [j \in 0..n |-> IF j = 0 THEN c ELSE PrepareArgument(f[j - 1], params, j)]
      BY <1>1 DEF PreparationsTo
    <3>3. ASSUME NEW j \in 0..n, j # 0
          PROVE  f[j] = PrepareArgument(f[j - 1], params, j)
      BY <3>2, <3>3
    <3> QED
      BY <3>1, <3>3
  <2>3. Kept(c, x) /\ (stored => Ready(x))
    BY <1>5, <1>7, <2>1
  <2>4. k \in 1..n
    BY <1>5, <2>1
  <2> HIDE DEF x, k
  <2>5. ASSUME Recording
        PROVE  Valued(x.opstack) /\ ArgumentAt(x, params, k) \in 1..Len(x.opstack)
               /\ ArgumentAt(x, params, k) > Len(x.opstack) - n
    <3>1. SameValues(c.opstack, x.opstack) /\ Valued(c.opstack)
      BY <2>3, <2>5 DEF Kept
    <3>2. Valued(x.opstack) /\ Len(x.opstack) = Len(c.opstack) /\ Len(c.opstack) \in Nat
      BY <3>1 DEF SameValues, Valued, IsList
    <3>3. Len(x.opstack) >= n
      BY <1>4, <3>2 DEF Has
    <3>4. ArgumentAt(x, params, k) = Len(x.opstack) - (n - k)
      BY DEF ArgumentAt, n
    <3> QED
      BY <1>5, <2>4, <3>2, <3>3, <3>4
  <2>6. Recording /\ stored => x.opstack[ArgumentAt(x, params, k)].vst \in StoredVST
    <3> SUFFICES ASSUME Recording, stored
                 PROVE  x.opstack[ArgumentAt(x, params, k)].vst \in StoredVST
      OBVIOUS
    <3>1. SameValues(c.opstack, x.opstack)
      BY <2>3 DEF Kept
    <3>2. ArgumentsStored(x.opstack, n)
      BY <3>1, SameStored DEF stored
    <3> QED
      BY <2>5, <3>2 DEF ArgumentsStored
  <2>7. Shape(x)
    BY <2>3 DEF Kept
  <2>8. Kept(x, f[k])
        /\ (Ready(x) /\ (Recording => x.opstack[ArgumentAt(x, params, k)].vst \in StoredVST) => Ready(f[k]))
    BY <2>2, <2>4, <2>5, <2>7, PrepareArgumentReady DEF n
  <2>9. Kept(c, f[k]) /\ (stored => Ready(f[k]))
    BY <2>3, <2>6, <2>8, KeptTwice
  <2> QED
    BY <2>9 DEF k
<1> HIDE DEF S
<1>8. n \in S
  BY <1>5, <1>6, <1>7, SetInduction
<1> QED
  BY <1>5, <1>8 DEF S

LEMMA ExpectedStored ==
  ASSUME NEW p, NEW v, PopMatches(ExpectedVST(p), v)
  PROVE  v.vst \in StoredVST
  BY DEF PopMatches, ExpectedVST, StoredVST, PointerVST

\* An argument that is popped has been a stored value.
ArgumentPopped(c, d) ==
  /\ Shape(d) /\ (d.ok => c.ok) /\ (Sound(c) => Sound(d))
  /\ Generating /\ d.ok =>
       /\ c.opstack # <<>> /\ d.opstack = AllButLast(c.opstack)
       /\ Top(c, "opstack", 0).vst \in StoredVST

LEMMA PopArgumentFields ==
  ASSUME Context, NEW c, Shape(c), NEW p, NEW exact
  PROVE  ArgumentPopped(c, PopArgument(c, p, exact))
<1> DEFINE popped == PopOpstack(c, ExpectedVST(p))
           suits == IF exact THEN Exact(popped.v.type, p.type)
                    ELSE TypesCompatible(popped.v.type, p.type)
           condition == Generating => suits
           d == Require(popped, condition)
           v == Top(c, "opstack", 0)
<1>1. Popped(c, popped, ExpectedVST(p), v, Top(c, "stackjournal", 0))
  BY PopOpstackFields
<1>2. Sound(c) => Sound(popped)
  BY PopOpstackSound
<1>3. PopArgument(c, p, exact) = d
  BY DEF PopArgument
<1> HIDE DEF popped, condition, v
<1>4. Shape(popped)
  BY <1>1 DEF Popped
<1>5. Shape(d) /\ (d.ok => popped.ok) /\ d.opstack = popped.opstack
  BY <1>4, RequireFields DEF SameStacks
<1>6. Sound(c) => Sound(d)
  BY <1>2, RequireSound DEF Sound
<1> HIDE DEF d
<1>7. d.ok => c.ok
  BY <1>1, <1>5 DEF Popped
<1>8. ASSUME Generating, d.ok
      PROVE  c.opstack # <<>> /\ d.opstack = AllButLast(c.opstack) /\ v.vst \in StoredVST
  <2>1. c.opstack # <<>> /\ popped.opstack = AllButLast(c.opstack) /\ PopMatches(ExpectedVST(p), v)
    BY <1>1, <1>5, <1>8 DEF Popped
  <2> QED
    BY <1>5, <2>1, ExpectedStored
<1> QED
  BY <1>3, <1>5, <1>6, <1>7, <1>8 DEF ArgumentPopped, v

\* The topmost m values of os have been popped, which were stored.
TakenOff(os, u, m) ==
  /\ IsList(u) /\ Len(u) = Len(os) - m
  /\ \A k \in 1..Len(u) : u[k] = os[k]
  /\ ArgumentsStored(os, m)

LEMMA TakeOffOne ==
  ASSUME NEW os, IsList(os), NEW u, NEW m \in Nat, TakenOff(os, u, m), u # <<>>,
         u[Len(u)].vst \in StoredVST
  PROVE  TakenOff(os, AllButLast(u), m + 1)
<1> DEFINE t == AllButLast(u)
<1>1. /\ Len(u) >= 1 /\ IsList(t) /\ Len(t) = Len(u) - 1
      /\ \A k \in 1..Len(u) - 1 : t[k] = u[k]
  BY FrontList DEF TakenOff, AllButLast
<1> HIDE DEF t
<1>2. Len(os) \in Nat /\ Len(u) = Len(os) - m /\ \A k \in 1..Len(u) : u[k] = os[k]
  BY DEF IsList, TakenOff
<1>3. Len(t) = Len(os) - (m + 1)
  BY <1>1, <1>2
<1>4. \A k \in 1..Len(t) : t[k] = os[k]
  BY <1>1, <1>2
<1>5. ASSUME NEW k \in 1..Len(os), k > Len(os) - (m + 1)
      PROVE  os[k].vst \in StoredVST
  <2>1. CASE k > Len(os) - m
    BY <2>1 DEF TakenOff, ArgumentsStored
  <2>2. CASE ~(k > Len(os) - m)
    <3>0. Len(u) = Len(os) - m /\ Len(os) \in Nat /\ Len(u) >= 1
      BY <1>1, <1>2
    <3>2. k \in Int /\ k > Len(os) - (m + 1) /\ ~(k > Len(os) - m)
      BY <1>5, <2>2
    <3>3. k = Len(os) - m
      BY <3>0, <3>2
    <3>1. k = Len(u) /\ k \in 1..Len(u)
      BY <3>0, <3>3
    <3> QED
      BY <1>2, <3>1
  <2> QED
    BY <2>1, <2>2
<1>6. TakenOff(os, t, m + 1)
  BY <1>1, <1>3, <1>4, <1>5 DEF TakenOff, ArgumentsStored
<1> QED
  BY <1>6 DEF t

LEMMA PopArgumentsSound ==
  ASSUME Context, NEW c, Shape(c), NEW params, Len(params) \in Nat, NEW exact
  PROVE  LET d == PopArguments(c, params, exact)
         IN  /\ Shape(d) /\ (d.ok => c.ok) /\ (Sound(c) => Sound(d))
             /\ Recording /\ Valued(c.opstack) /\ d.ok => ArgumentsStored(c.opstack, Len(params))
<1> DEFINE n == Len(params)
           A(x, m) == /\ Shape(x) /\ (x.ok => c.ok) /\ (Sound(c) => Sound(x))
                      /\ Recording /\ Valued(c.opstack) /\ x.ok => TakenOff(c.opstack, x.opstack, m)
<1>1. PICK f : ArgumentPopsTo(c, params, exact, f, n) /\ PopArguments(c, params, exact) = f[n]
  BY ArgumentPopsAre
<1> HIDE DEF n
<1>2. n \in Nat
  BY DEF n
<1>3. f[0] = c
  BY <1>1, <1>2 DEF ArgumentPopsTo
<1>4. A(c, 0)
  <2>1. ASSUME Valued(c.opstack)
        PROVE  TakenOff(c.opstack, c.opstack, 0)
    <3>1. IsList(c.opstack) /\ Len(c.opstack) \in Nat
      BY <2>1 DEF Valued, IsList
    <3> QED
      BY <3>1 DEF TakenOff, ArgumentsStored
  <2> QED
    BY <2>1
<1> DEFINE S == {m \in Nat : m <= n => A(f[m], m)}
<1>5. ASSUME NEW m \in Nat, m \in S
      PROVE  m + 1 \in S
  <2>1. SUFFICES ASSUME m + 1 <= n
                 PROVE  A(f[m + 1], m + 1)
    OBVIOUS
  <2> DEFINE x == f[m]
             y == f[m + 1]
             p == params[Len(params) - (m + 1) + 1]
  <2>2. y = PopArgument(x, p, exact)
    <3>1. m + 1 \in 0..n /\ m + 1 # 0 /\ m + 1 - 1 = m
      BY <1>2, <2>1
    <3>2. f = [j \in 0..n |-> IF j = 0 THEN c
                              ELSE PopArgument(f[j - 1], params[Len(params) - j + 1], exact)]
      BY <1>1 DEF ArgumentPopsTo
    <3>3. ASSUME NEW j \in 0..n, j # 0
          PROVE  f[j] = PopArgument(f[j - 1], params[Len(params) - j + 1], exact)
      BY <3>2, <3>3
    <3> QED
      BY <3>1, <3>3
  <2>3. A(x, m)
    BY <1>2, <1>5, <2>1
  <2> HIDE DEF x, y, p
  <2>4. ArgumentPopped(x, y)
    BY <2>2, <2>3, PopArgumentFields
  <2>5. ASSUME Recording, Valued(c.opstack), y.ok
        PROVE  TakenOff(c.opstack, y.opstack, m + 1)
    <3>1. TakenOff(c.opstack, x.opstack, m) /\ IsList(c.opstack)
      BY <2>3, <2>4, <2>5 DEF ArgumentPopped, Valued
    <3>2. x.opstack # <<>> /\ y.opstack = AllButLast(x.opstack) /\ Top(x, "opstack", 0).vst \in StoredVST
      BY <2>4, <2>5 DEF ArgumentPopped, Recording
    <3>3. Top(x, "opstack", 0) = x.opstack[Len(x.opstack)]
      <4>1. IsList(x.opstack) /\ Len(x.opstack) >= 1 /\ Len(x.opstack) \in Nat
        BY <3>1, <3>2, FrontList DEF TakenOff, IsList
      <4> QED
        BY <4>1 DEF Top
    <3> QED
      BY <3>1, <3>2, <3>3, TakeOffOne
  <2>6. A(y, m + 1)
    BY <2>3, <2>4, <2>5 DEF ArgumentPopped
  <2> QED
    BY <2>6 DEF y
<1>6. 0 \in S
  BY <1>3, <1>4
<1> HIDE DEF S
<1>7. n \in S
  BY <1>2, <1>5, <1>6, SetInduction
<1>8. A(f[n], n)
  BY <1>2, <1>7 DEF S
<1> QED
  BY <1>1, <1>8 DEF TakenOff, n

LEMMA TakeArgumentsSound ==
  ASSUME Context, NEW c, Ready(c), c.ok, NEW info, Len(info.params) \in Nat
  PROVE  LET d == TakeArguments(c, info) IN Sound(d) /\ (d.ok => c.ok)
<1> DEFINE params == info.params
           p == IF Generating THEN PrepareArguments(c, params) ELSE c
           d == PopArguments(p, params, TRUE)
<1>1. TakeArguments(c, info) = d
  BY DEF TakeArguments
<1>2. Shape(c) /\ Sound(c)
  BY DEF Ready, Sound, SoundWith
<1>3. Recording => Valued(c.opstack)
  BY <1>2 DEF Sound, SoundWith, Full, Lists, Valued
<1> HIDE DEF params
<1>4. Kept(c, p) /\ ((Recording => ArgumentsStored(c.opstack, Len(params))) => Ready(p))
  BY <1>2, <1>3, KeptSame, PrepareArgumentsReady DEF params
<1> HIDE DEF p
<1>5. Shape(p) /\ (p.ok => c.ok)
  BY <1>4 DEF Kept
<1>6. /\ Shape(d) /\ (d.ok => p.ok) /\ (Sound(p) => Sound(d))
      /\ Recording /\ Valued(p.opstack) /\ d.ok => ArgumentsStored(p.opstack, Len(params))
  BY <1>5, PopArgumentsSound DEF params
<1> HIDE DEF d
<1>7. ASSUME Recording, d.ok
      PROVE  ArgumentsStored(c.opstack, Len(params))
  <2>1. SameValues(c.opstack, p.opstack)
    BY <1>3, <1>4, <1>7 DEF Kept
  <2>2. Valued(p.opstack)
    BY <2>1 DEF SameValues, Valued
  <2> QED
    BY <1>6, <1>7, <2>1, <2>2, SameStored
<1>8. Recording /\ d.ok => Sound(p)
  BY <1>4, <1>7 DEF Ready
<1>9. Sound(d)
  BY <1>6, <1>8 DEF Sound, SoundWith
<1> QED
  BY <1>1, <1>9, <1>5, <1>6

(***************************************************************************)
(* What each operation does.                                               *)
(***************************************************************************)

\* The operation goes on, and is not accepted when it was not before.
Onward(c, d) == Sound(d) /\ (d.ok => c.ok)

LEMMA RequiredOnward ==
  ASSUME NEW c, Sound(c), NEW condition
  PROVE  LET d == Require(c, condition) IN Onward(c, d) /\ d.v = c.v /\ SameStacks(c, d)
<1>1. Shape(c)
  BY DEF Sound, SoundWith
<1>2. Sound(Require(c, condition))
  BY RequireSound DEF Sound
<1> QED
  BY <1>1, <1>2, RequireFields DEF Onward

LEMMA EmittedOnward ==
  ASSUME NEW c, Sound(c), NEW code, NEW uses, NEW makes, NEW target
  PROVE  Onward(c, Emit(c, code, uses, makes, target)) /\ Onward(c, EmitSimple(c, code))
<1>1. Shape(c)
  BY DEF Sound, SoundWith
<1>2. \A x, y, z, t : Emit(c, x, y, z, t).ok = c.ok
  BY <1>1, EmitFields DEF Emitted
<1>3. \A x, y, z, t : Sound(Emit(c, x, y, z, t))
  BY EmitSound DEF Sound
<1> QED
  BY <1>2, <1>3 DEF Onward, EmitSimple

LEMMA PoppedOnward ==
  ASSUME Context, NEW c, Sound(c), NEW expected
  PROVE  LET d == PopOpstack(c, expected)
         IN  /\ Onward(c, d) /\ d.v = Top(c, "opstack", 0)
             /\ Recording /\ d.ok => IsValue(d.v)
<1> DEFINE d == PopOpstack(c, expected)
           v == Top(c, "opstack", 0)
<1>1. Popped(c, d, expected, v, Top(c, "stackjournal", 0))
  BY PopOpstackFields DEF Sound, SoundWith
<1>2. Sound(d) /\ (Recording /\ d.ok => IsValue(d.v))
  BY PopOpstackSound
<1> HIDE DEF d, v
<1>3. Onward(c, d) /\ d.v = v /\ (Recording /\ d.ok => IsValue(d.v))
  BY <1>1, <1>2 DEF Popped, Onward
<1> QED
  BY <1>3 DEF d, v

LEMMA AppendedOnward ==
  ASSUME Context, NEW c, Sound(c), NEW v, Recording /\ c.ok => IsValue(v)
  PROVE  Onward(c, AppendOpstack(c, v))
<1>1. Shape(c)
  BY DEF Sound, SoundWith
<1>2. AppendOpstack(c, v).ok = c.ok
  BY <1>1, AppendOpstackFields DEF Appended
<1> QED
  BY <1>2, AppendOpstackSound DEF Onward

LEMMA MadeOnward ==
  ASSUME Context, NEW c, Sound(c), NEW v, Recording /\ c.ok => IsValue(v), NEW code, NEW uses
  PROVE  Onward(c, Make(c, v, code, uses))
  BY MakeSound DEF Onward

LEMMA SyncedOnward ==
  ASSUME Context, NEW c, Sound(c)
  PROVE  Onward(c, SyncJournal(c))
<1>1. SyncJournal(c).ok = c.ok
  BY DEF SyncJournal, Sound, SoundWith, Shape, CompFields
<1> QED
  BY <1>1, SyncJournalSound DEF Onward

LEMMA TickedOnward ==
  ASSUME Context, NEW c, Sound(c), NEW o
  PROVE  Onward(c, Tick(c)) /\ Onward(c, TickIfBackwards(c, o))
<1> DEFINE e == EmitSimple(c, "tick")
           d == [e EXCEPT !.meta[instrNum].translated = @ + 1]
<1>1. Sound(d)
  BY TickSound
<1>2. Shape(c)
  BY DEF Sound, SoundWith
<1>3. Emitted(c, e)
  BY <1>2, EmitFields DEF EmitSimple
<1> HIDE DEF e
<1>4. d.ok = c.ok
  BY <1>3 DEF Emitted, Shape, CompFields
<1>5. Tick(c) = d
  BY DEF Tick, e
<1> HIDE DEF d
<1>6. Onward(c, Tick(c)) /\ Onward(c, c)
  BY <1>1, <1>4, <1>5 DEF Onward
<1> QED
  BY <1>6 DEF TickIfBackwards

LEMMA ArgumentsPoppedOnward ==
  ASSUME Context, NEW c, Sound(c), NEW params, Len(params) \in Nat, NEW exact
  PROVE  Onward(c, PopArguments(c, params, exact))
  BY PopArgumentsSound DEF Onward, Sound, SoundWith

LEMMA DimensionsPoppedOnward ==
  ASSUME Context, NEW c, Sound(c), NEW n \in Int
  PROVE  Onward(c, PopDimensions(c, n))
<1> DEFINE p == [type |-> LargeUInt, const |-> FALSE, notNull |-> FALSE]
           params == [k \in 1..n |-> p]
<1> HIDE DEF p
<1>1. Len(params) \in Nat
  <2>1. CASE n \in Nat
    BY <2>1
  <2>2. CASE n \notin Nat
    <3>1. 1..n = 1..0
      BY <2>2
    <3>2. params = [k \in 1..0 |-> p]
      BY <3>1
    <3>3. ASSUME NEW m \in Nat
          PROVE  Len([k \in 1..m |-> p]) \in Nat
      OBVIOUS
    <3>4. Len([k \in 1..0 |-> p]) \in Nat
      BY <3>3
    <3> QED
      BY <3>2, <3>4
  <2> QED
    BY <2>1, <2>2
<1> HIDE DEF params
<1>2. Onward(c, PopArguments(c, params, TRUE))
  BY <1>1, ArgumentsPoppedOnward
<1> QED
  BY <1>2 DEF PopDimensions, params, p

LEMMA NewIsValue ==
  ASSUME NEW vst \in StoredVST \cup {"LocalRef", "Barrier"}, NEW t
  PROVE  IsValue(New(vst, t)) /\ New(vst, t).vst = vst
  BY DEF New, NoValue, IsValue, IsRecord, ValueFields

LEMMA OnwardTwice ==
  ASSUME NEW c, NEW d, NEW e, Onward(c, d), Onward(d, e)
  PROVE  Onward(c, e)
  BY DEF Onward

LEMMA JumpedOnward ==
  ASSUME NEW c, Sound(c), NEW code, NEW uses, NEW dest
  PROVE  Onward(c, EmitJump(c, code, uses, dest))
<1> DEFINE condition == dest \in Labels /\ MayJump(c, dest)
           d == Require(c, condition)
           target == StitchJump(c, dest)
           e == Emit(d, code, uses, {}, target)
<1>1. EmitJump(c, code, uses, dest) = e
  BY DEF EmitJump
<1> HIDE DEF condition, target
<1>2. Onward(c, d)
  BY RequiredOnward
<1> HIDE DEF d
<1>3. Onward(d, e)
  BY <1>2, EmittedOnward DEF Onward
<1> QED
  BY <1>1, <1>2, <1>3 DEF Onward

LEMMA StartBarrierResultSound ==
  ASSUME Context, NEW c, Sound(c), NEW o
  PROVE  Sound(StartBarrierResult(c, o))
<1> DEFINE condition == Generating => o.sint1 >= 1 /\ Has(c, o.sint1)
           v == [New("Barrier", Null) EXCEPT !.count = o.sint1, !.created = instrNum]
           checked == Require(c, condition)
           d == AppendOpstack(checked, v)
<1>0. Onward(c, c)
  BY DEF Onward
<1>1. StartBarrierResult(c, o) = d
  BY DEF StartBarrierResult
<1> HIDE DEF condition, v
<1>2. Onward(c, checked) /\ checked.v = c.v
  BY <1>0, RequiredOnward DEF Onward
<1> HIDE DEF checked
<1>3. IsValue(v)
  BY NewIsValue DEF v, New, NoValue, IsValue, IsRecord, ValueFields
<1>4. Onward(checked, d)
  BY <1>2, <1>3, AppendedOnward DEF Onward
<1> HIDE DEF d
<1> QED
  BY <1>1, <1>2, <1>4 DEF Onward

LEMMA NarrowedOnward ==
  ASSUME Context, NEW c, Sound(c), NEW first, NEW min
  PROVE  Onward(c, NarrowJumps(c, first, min))
<1>1. NarrowJumps(c, first, min).ok = c.ok
  BY DEF NarrowJumps, Sound, SoundWith, Shape, CompFields
<1> QED
  BY <1>1, NarrowJumpsSound DEF Onward

LEMMA EndBarrierResultSound ==
  ASSUME Context, NEW c, Sound(c), NEW o
  PROVE  Sound(EndBarrierResult(c, o))
<1> DEFINE popped == PopOpstack(c, "Barrier")
           barrier == popped.v
           condition == /\ instrNum > 0 /\ decOps[instrNum].op = "return"
                        /\ Has(popped, barrier.count)
           narrowed == NarrowJumps(popped, barrier.created, barrier.created)
           checked == Require(narrowed, condition)
           flushed == EmitSimple(checked, "hardenstack")
           livened == LivenShells(flushed, barrier.count)
<1>0. Onward(c, c)
  BY DEF Onward
<1>1. EndBarrierResult(c, o) = IF Generating THEN livened ELSE popped
  BY DEF EndBarrierResult
<1> HIDE DEF barrier, condition
<1>2. Onward(c, popped) /\ (Recording /\ popped.ok => IsValue(popped.v))
  BY <1>0, PoppedOnward DEF Onward
<1> HIDE DEF popped
<1>3. Onward(popped, narrowed)
  BY <1>2, NarrowedOnward DEF Onward
<1> HIDE DEF narrowed
<1>4. Onward(narrowed, checked) /\ checked.v = narrowed.v
  BY <1>3, RequiredOnward DEF Onward
<1> HIDE DEF checked
<1>5. Onward(checked, flushed)
  BY <1>4, EmittedOnward DEF Onward
<1> HIDE DEF flushed
<1>6. Sound(livened)
  BY <1>5, LivenShellsSound DEF Onward
<1> HIDE DEF livened
<1> QED
  BY <1>1, <1>2, <1>3, <1>4, <1>5, <1>6 DEF Onward

LEMMA ThrowResultSound ==
  ASSUME Context, NEW c, Sound(c), NEW o
  PROVE  Sound(ThrowResult(c, o))
<1> DEFINE condition == Len(c.opstack) = 1
           checked == Require(c, condition)
           synced == SyncJournal(checked)
           popped == PopOpstack(synced, "Value")
           v == popped.v
           thrown == v.type # Null /\ TypesCompatible(v.type, Exception)
           uses == {v.sa}
           fit == Require(popped, thrown)
           d == Emit(fit, "throw", uses, {}, -1)
<1>0. Onward(c, c)
  BY DEF Onward
<1>1. ThrowResult(c, o) = IF ~Generating THEN popped ELSE d
  BY DEF ThrowResult
<1> HIDE DEF condition, v, thrown, uses
<1>2. Onward(c, checked) /\ checked.v = c.v
  BY <1>0, RequiredOnward DEF Onward
<1> HIDE DEF checked
<1>3. Onward(checked, synced)
  BY <1>2, SyncedOnward DEF Onward
<1> HIDE DEF synced
<1>4. Onward(synced, popped) /\ (Recording /\ popped.ok => IsValue(popped.v))
  BY <1>3, PoppedOnward DEF Onward
<1> HIDE DEF popped
<1>5. Onward(popped, fit) /\ fit.v = popped.v
  BY <1>4, RequiredOnward DEF Onward
<1> HIDE DEF fit
<1>6. Onward(fit, d)
  BY <1>5, EmittedOnward DEF Onward
<1> HIDE DEF d
<1> QED
  BY <1>1, <1>2, <1>3, <1>4, <1>5, <1>6 DEF Onward

LEMMA ListedSound ==
  ASSUME NEW c, Sound(c), NEW x
  PROVE  Sound(PushList(c, "handlers", x)) /\ Sound(PushList(c, "recovery", x))
  BY PushOtherSound DEF Sound

LEMMA TryResultSound ==
  ASSUME Context, NEW c, Sound(c), NEW o
  PROVE  Sound(TryResult(c, o))
<1> DEFINE last == instrNum + o.sint2
           catch == instrNum + o.sint1
           placed == /\ c.opstack = <<>> /\ o.sint2 >= 1
                     /\ last \in Labels /\ catch \in Labels /\ catch # Length - 1
           condition == /\ placed
                        /\ Generating => Catches(catch, Exception)
                        /\ MayJump(c, last) /\ MayJump(c, catch)
           handler == [start |-> instrNum + 1, end |-> last - 1, handler |-> catch + 1, slot |-> 0]
           checked == Require(c, condition)
           d == PushList(checked, "handlers", handler)
<1>0. Onward(c, c)
  BY DEF Onward
<1>1. TryResult(c, o) = d
  BY DEF TryResult
<1> HIDE DEF last, catch, placed, condition, handler
<1>2. Onward(c, checked) /\ checked.v = c.v
  BY <1>0, RequiredOnward DEF Onward
<1> HIDE DEF checked
<1>3. Sound(d)
  BY <1>2, ListedSound DEF Onward
<1> HIDE DEF d
<1> QED
  BY <1>1, <1>2, <1>3 DEF Onward

LEMMA CatchResultSound ==
  ASSUME Context, NEW c, Sound(c), NEW o
  PROVE  Sound(CatchResult(c, o))
<1> DEFINE condition == c.opstack = <<>> /\ IsType(o.res) /\ TypesCompatible(o.res, Exception)
           v == New("Value", o.res)
           checked == Require(c, condition)
           pushed == AppendOpstack(checked, v)
           makes == {pushed.v.sa}
           slot == [by |-> instrNum, slot |-> pushed.v.offset]
           emitted == Emit(pushed, "catch", {}, makes, -1)
           d == PushList(emitted, "recovery", slot)
<1>0. Onward(c, c)
  BY DEF Onward
<1>1. CatchResult(c, o) = d
  BY DEF CatchResult
<1> HIDE DEF condition, v, makes, slot
<1>2. Onward(c, checked) /\ checked.v = c.v
  BY <1>0, RequiredOnward DEF Onward
<1> HIDE DEF checked
<1>3. IsValue(v)
  BY NewIsValue DEF v, StoredVST
<1>4. Onward(checked, pushed)
  BY <1>2, <1>3, AppendedOnward DEF Onward
<1> HIDE DEF pushed
<1>5. Onward(pushed, emitted)
  BY <1>4, EmittedOnward DEF Onward
<1> HIDE DEF emitted
<1>6. Sound(d)
  BY <1>5, ListedSound DEF Onward
<1> HIDE DEF d
<1> QED
  BY <1>1, <1>2, <1>4, <1>5, <1>6 DEF Onward

LEMMA TryCastResultSound ==
  ASSUME Context, NEW c, Sound(c), NEW o
  PROVE  Sound(TryCastResult(c, o))
<1> DEFINE v == Top(c, "opstack", 0)
           catch == instrNum + o.sint1
           placed == /\ Len(c.opstack) = 1 /\ catch \in Labels /\ catch # Length - 1
                     /\ IsType(o.res) /\ TypesCompatible(o.res, Exception)
           condition == placed /\ (Generating => /\ Catches(catch, o.res) /\ v.vst = "Value"
                                                 /\ v.type = Exception /\ MayJump(c, catch))
           target == IF pass = "stitch" THEN FindJumpTarget(c.meta[catch + 1].translated) ELSE 0
           uses == {v.sa}
           synced == SyncJournal(c)
           checked == Require(synced, condition)
           jump == Emit(checked, "jump", {}, {}, target)
           test == Emit(checked, "jinherits", uses, {}, target)
<1>0. Onward(c, c)
  BY DEF Onward
<1>1. TryCastResult(c, o) \in {checked, jump, test}
  BY DEF TryCastResult
<1> HIDE DEF v, catch, placed, condition, target, uses
<1>2. Onward(c, synced)
  BY <1>0, SyncedOnward DEF Onward
<1> HIDE DEF synced
<1>3. Onward(synced, checked) /\ checked.v = synced.v
  BY <1>2, RequiredOnward DEF Onward
<1> HIDE DEF checked
<1>4. Onward(checked, jump)
  BY <1>3, EmittedOnward DEF Onward
<1> HIDE DEF jump
<1>5. Onward(checked, test)
  BY <1>3, EmittedOnward DEF Onward
<1> HIDE DEF test
<1> QED
  BY <1>1, <1>2, <1>3, <1>4, <1>5 DEF Onward

LEMMA JumpResultSound ==
  ASSUME Context, NEW c, Sound(c), NEW o
  PROVE  Sound(JumpResult(c, o))
<1> DEFINE condition == EmptyOrBarrier(c)
           dest == instrNum + o.sint1
           checked == Require(c, condition)
           synced == SyncJournal(checked)
           ticked == TickIfBackwards(synced, o)
           d == EmitJump(ticked, "jump", {}, dest)
<1>0. Onward(c, c)
  BY DEF Onward
<1>1. JumpResult(c, o) \in {c, d}
  BY DEF JumpResult
<1> HIDE DEF condition, dest
<1>2. Onward(c, checked) /\ checked.v = c.v
  BY <1>0, RequiredOnward DEF Onward
<1> HIDE DEF checked
<1>3. Onward(checked, synced)
  BY <1>2, SyncedOnward DEF Onward
<1> HIDE DEF synced
<1>4. Onward(synced, ticked)
  BY <1>3, TickedOnward DEF Onward
<1> HIDE DEF ticked
<1>5. Onward(ticked, d)
  BY <1>4, JumpedOnward DEF Onward
<1> HIDE DEF d
<1> QED
  BY <1>1, <1>2, <1>3, <1>4, <1>5 DEF Onward

LEMMA JumpIfResultSound ==
  ASSUME Context, NEW c, Sound(c), NEW o
  PROVE  Sound(JumpIfResult(c, o))
<1> DEFINE info == MethodInfo[o.res]
           isMethod == o.res \in DOMAIN MethodInfo /\ info.branching
           params == info.params
           dest == instrNum + o.sint1
           refused == Require(c, FALSE)
           ticked == TickIfBackwards(c, o)
           synced == SyncJournal(ticked)
           popped == PopArguments(synced, params, FALSE)
           condition == Generating => EmptyOrBarrier(popped)
           uses == IF params = <<>> THEN {} ELSE {Top(c, "opstack", 0).sa}
           checked == Require(popped, condition)
           d == EmitJump(checked, "jcompare", uses, dest)
<1>0. Onward(c, c)
  BY DEF Onward
<1>1. JumpIfResult(c, o) = IF ~isMethod THEN refused ELSE d
  BY DEF JumpIfResult
<1> HIDE DEF info, isMethod, params, dest, condition, uses
<1>2. Onward(c, refused) /\ refused.v = c.v
  BY <1>0, RequiredOnward DEF Onward
<1> HIDE DEF refused
<1>3. SUFFICES ASSUME isMethod
               PROVE  Sound(d)
  BY <1>1, <1>2 DEF Onward
<1>4. Onward(c, ticked)
  BY <1>0, TickedOnward DEF Onward
<1> HIDE DEF ticked
<1>5. Onward(ticked, synced)
  BY <1>4, SyncedOnward DEF Onward
<1> HIDE DEF synced
<1>6. Len(params) \in Nat
  BY <1>3, ProgramAssumption DEF isMethod, info, params
<1>7. Onward(synced, popped)
  BY <1>5, <1>6, ArgumentsPoppedOnward DEF Onward
<1> HIDE DEF popped
<1>8. Onward(popped, checked) /\ checked.v = popped.v
  BY <1>7, RequiredOnward DEF Onward
<1> HIDE DEF checked
<1>9. Onward(checked, d)
  BY <1>8, JumpedOnward DEF Onward
<1> HIDE DEF d
<1> QED
  BY <1>9 DEF Onward

LEMMA JumpIfTrueResultSound ==
  ASSUME Context, NEW c, Sound(c), NEW o
  PROVE  Sound(JumpIfTrueResult(c, o))
<1> DEFINE dest == instrNum + o.sint1
           synced == SyncJournal(c)
           ticked == TickIfBackwards(synced, o)
           popped == PopOpstack(ticked, "Value")
           v == popped.v
           tested == IF o.op = "jumpiftrue" THEN v.type = Bool
                     ELSE TypeIsObjectReference(v.type) \/ TypeIsInterface(v.type)
           condition == EmptyOrBarrier(popped) /\ tested
           uses == {v.sa}
           checked == Require(popped, condition)
           d == EmitJump(checked, "jtest", uses, dest)
<1>0. Onward(c, c)
  BY DEF Onward
<1>1. JumpIfTrueResult(c, o) = IF ~Generating THEN popped ELSE d
  BY DEF JumpIfTrueResult
<1> HIDE DEF dest, v, tested, condition, uses
<1>2. Onward(c, synced)
  BY <1>0, SyncedOnward DEF Onward
<1> HIDE DEF synced
<1>3. Onward(synced, ticked)
  BY <1>2, TickedOnward DEF Onward
<1> HIDE DEF ticked
<1>4. Onward(ticked, popped) /\ (Recording /\ popped.ok => IsValue(popped.v))
  BY <1>3, PoppedOnward DEF Onward
<1> HIDE DEF popped
<1>5. Onward(popped, checked) /\ checked.v = popped.v
  BY <1>4, RequiredOnward DEF Onward
<1> HIDE DEF checked
<1>6. Onward(checked, d)
  BY <1>5, JumpedOnward DEF Onward
<1> HIDE DEF d
<1> QED
  BY <1>1, <1>2, <1>3, <1>4, <1>5, <1>6 DEF Onward

LEMMA JumpIfEqualResultSound ==
  ASSUME Context, NEW c, Sound(c), NEW o
  PROVE  Sound(JumpIfEqualResult(c, o))
<1> DEFINE dest == instrNum + o.sint1
           synced == SyncJournal(c)
           first == PopOpstack(synced, "Indeterminate")
           popped == PopOpstack(first, "Indeterminate")
           v == first.v
           w == popped.v
           kinds == IF TypeIsRefStruct(v.type) THEN PointerVST ELSE {"Value"}
           equals == /\ TypesCompatible(v.type, w.type) \/ TypesCompatible(w.type, v.type)
                     /\ {v.vst, w.vst} \subseteq kinds
           uses == {v.sa, w.sa}
           checked == Require(popped, equals)
           d == EmitJump(checked, "jequal", uses, dest)
<1>0. Onward(c, c)
  BY DEF Onward
<1>1. JumpIfEqualResult(c, o) = IF ~Generating THEN popped ELSE d
  BY DEF JumpIfEqualResult
<1> HIDE DEF dest, v, w, kinds, equals, uses
<1>2. Onward(c, synced)
  BY <1>0, SyncedOnward DEF Onward
<1> HIDE DEF synced
<1>3. Onward(synced, first) /\ (Recording /\ first.ok => IsValue(first.v))
  BY <1>2, PoppedOnward DEF Onward
<1> HIDE DEF first
<1>4. Onward(first, popped) /\ (Recording /\ popped.ok => IsValue(popped.v))
  BY <1>3, PoppedOnward DEF Onward
<1> HIDE DEF popped
<1>5. Onward(popped, checked) /\ checked.v = popped.v
  BY <1>4, RequiredOnward DEF Onward
<1> HIDE DEF checked
<1>6. Onward(checked, d)
  BY <1>5, JumpedOnward DEF Onward
<1> HIDE DEF d
<1> QED
  BY <1>1, <1>2, <1>3, <1>4, <1>5, <1>6 DEF Onward

LEMMA GiveResultsSound ==
  ASSUME Context, NEW c, Sound(c), NEW info
  PROVE  Sound(GiveResults(c, info))
  BY MakeReturnsSound DEF GiveResults

\* A call is ready when the instruction that has begun it has been emitted.
ReadyToCall(c) == Ready(c) /\ c.ok

LEMMA SyncedReadyToCall ==
  ASSUME Context, NEW c, ReadyToCall(c)
  PROVE  ReadyToCall(SyncJournal(c))
<1>1. SyncJournal(c).ok = c.ok
  BY DEF SyncJournal, ReadyToCall, Ready, Sound, SoundWith, Shape, CompFields
<1> QED
  BY <1>1, SyncJournalReady DEF ReadyToCall

LEMMA TickedReadyToCall ==
  ASSUME Context, NEW c, ReadyToCall(c)
  PROVE  ReadyToCall(Tick(c))
<1> DEFINE e == EmitSimple(c, "tick")
           d == [e EXCEPT !.meta[instrNum].translated = @ + 1]
<1>1. Shape(c)
  BY DEF ReadyToCall, Ready, Sound, SoundWith
<1>2. Emitted(c, e)
  BY <1>1, EmitFields DEF EmitSimple
<1>3. Tick(c) = d
  BY DEF Tick
<1> HIDE DEF e
<1>4. d.ok = c.ok
  BY <1>2 DEF Emitted, Shape, CompFields
<1> HIDE DEF d
<1> QED
  BY <1>3, <1>4, TickReady DEF ReadyToCall

LEMMA TakenOnward ==
  ASSUME Context, NEW c, ReadyToCall(c), NEW info, Len(info.params) \in Nat
  PROVE  Onward(c, TakeArguments(c, info))
  BY TakeArgumentsSound DEF ReadyToCall, Onward

LEMMA CallResultSound ==
  ASSUME Context, NEW c, ReadyToCall(c), NEW o
  PROVE  Sound(CallResult(c, o))
<1> DEFINE info == MethodInfo[o.res]
           isMethod == o.res \in DOMAIN MethodInfo
           refused == Require(c, FALSE)
           synced == IF info.neverFails THEN c ELSE SyncJournal(c)
           ticked == IF info.intrinsic THEN synced ELSE Tick(synced)
           taken == TakeArguments(ticked, info)
           code == IF ~info.intrinsic THEN "call"
                   ELSE IF info.neverFails THEN "compute" ELSE "intrinsic"
           condition == ~(info.intrinsic /\ info.branching)
           uses == ArgumentsOf(c, Len(info.params))
           checked == Require(taken, condition)
           called == Emit(checked, code, uses, {}, -1)
           given == GiveResults(called, info)
<1>1. CallResult(c, o) = IF ~isMethod \/ KindOf(info.delegate) # "null" THEN refused ELSE given
  BY DEF CallResult
<1> HIDE DEF code, condition, uses
<1>2. Sound(c)
  BY DEF ReadyToCall, Ready
<1>3. Sound(refused)
  BY <1>2, RequiredOnward DEF Onward
<1> HIDE DEF refused
<1>4. SUFFICES ASSUME isMethod
               PROVE  Sound(given)
  BY <1>1, <1>3
<1>5. Len(info.params) \in Nat
  BY <1>4, ProgramAssumption
<1> HIDE DEF info, isMethod
<1>6. ReadyToCall(synced)
  BY SyncedReadyToCall
<1> HIDE DEF synced
<1>7. ReadyToCall(ticked)
  BY <1>6, TickedReadyToCall
<1> HIDE DEF ticked
<1>8. Sound(taken)
  BY <1>5, <1>7, TakenOnward DEF Onward
<1> HIDE DEF taken
<1>9. Sound(checked)
  BY <1>8, RequiredOnward DEF Onward
<1> HIDE DEF checked
<1>10. Sound(called)
  BY <1>9, EmittedOnward DEF Onward
<1> HIDE DEF called
<1> QED
  BY <1>10, GiveResultsSound

LEMMA CallVirtualResultSound ==
  ASSUME Context, NEW c, ReadyToCall(c), NEW o
  PROVE  Sound(CallVirtualResult(c, o))
<1> DEFINE info == MethodInfo[o.res]
           this == info.params[info.this].type
           isMethod == o.res \in DOMAIN MethodInfo
           refused == Require(c, FALSE)
           synced == IF info.neverFails THEN c ELSE SyncJournal(c)
           ticked == Tick(synced)
           taken == TakeArguments(ticked, info)
           uses == ArgumentsOf(c, Len(info.params))
           fits == info.virtual /\ KindOf(this) \in {"class", "abstract", "interface"}
           checked == Require(taken, fits)
           hardened == SyncJournal(checked)
           called == Emit(hardened, "callvirtual", uses, {}, -1)
           counted == EmitSimple(taken, "xnullref")
           either == IF ~Generating THEN counted ELSE called
           given == GiveResults(either, info)
<1>1. CallVirtualResult(c, o) =
        IF ~isMethod \/ KindOf(info.delegate) # "null" \/ info.this = 0 THEN refused ELSE given
  BY DEF CallVirtualResult
<1> HIDE DEF uses, fits
<1>2. Sound(c)
  BY DEF ReadyToCall, Ready
<1>3. Sound(refused)
  BY <1>2, RequiredOnward DEF Onward
<1> HIDE DEF refused
<1>4. SUFFICES ASSUME isMethod
               PROVE  Sound(given)
  BY <1>1, <1>3
<1>5. Len(info.params) \in Nat
  BY <1>4, ProgramAssumption
<1> HIDE DEF info, isMethod
<1>6. ReadyToCall(synced)
  BY SyncedReadyToCall
<1> HIDE DEF synced
<1>7. ReadyToCall(ticked)
  BY <1>6, TickedReadyToCall
<1> HIDE DEF ticked
<1>8. Sound(taken)
  BY <1>5, <1>7, TakenOnward DEF Onward
<1> HIDE DEF taken
<1>9. Sound(checked) /\ Sound(counted)
  BY <1>8, RequiredOnward, EmittedOnward DEF Onward
<1> HIDE DEF checked, counted
<1>10. Sound(hardened)
  BY <1>9, SyncJournalSound
<1> HIDE DEF hardened
<1>11. Sound(called)
  BY <1>10, EmittedOnward DEF Onward
<1> HIDE DEF called
<1>12. Sound(either)
  BY <1>9, <1>11
<1> HIDE DEF either
<1> QED
  BY <1>12, GiveResultsSound

LEMMA CallDelegateResultSound ==
  ASSUME Context, NEW c, ReadyToCall(c), NEW o
  PROVE  Sound(CallDelegateResult(c, o))
<1> DEFINE info == MethodInfo[o.res]
           isMethod == o.res \in DOMAIN MethodInfo
           refused == Require(c, FALSE)
           synced == SyncJournal(c)
           ticked == Tick(synced)
           taken == TakeArguments(ticked, info)
           popped == PopOpstack(taken, "LocalRef")
           local == Bottom(popped, popped.v.index)
           fits == /\ popped.v.index < Len(popped.localstack)
                   /\ ~(local.parameter /\ local.pointer)
                   /\ Generating => local.type = o.res
           uses == ArgumentsOf(c, Len(info.params)) \cup {IF local.parameter THEN local.sa ELSE 0}
           checked == Require(popped, fits)
           called == Emit(checked, "calldelegate", uses, {}, -1)
           given == GiveResults(called, info)
<1>1. CallDelegateResult(c, o) =
        IF ~isMethod \/ KindOf(info.delegate) # "delegate" THEN refused ELSE given
  BY DEF CallDelegateResult
<1> HIDE DEF local, uses, fits
<1>2. Sound(c)
  BY DEF ReadyToCall, Ready
<1>3. Sound(refused)
  BY <1>2, RequiredOnward DEF Onward
<1> HIDE DEF refused
<1>4. SUFFICES ASSUME isMethod
               PROVE  Sound(given)
  BY <1>1, <1>3
<1>5. Len(info.params) \in Nat
  BY <1>4, ProgramAssumption
<1> HIDE DEF info, isMethod
<1>6. ReadyToCall(synced)
  BY SyncedReadyToCall
<1> HIDE DEF synced
<1>7. ReadyToCall(ticked)
  BY <1>6, TickedReadyToCall
<1> HIDE DEF ticked
<1>8. Sound(taken)
  BY <1>5, <1>7, TakenOnward DEF Onward
<1> HIDE DEF taken
<1>9. Sound(popped)
  BY <1>8, PopOpstackSound
<1> HIDE DEF popped
<1>10. Sound(checked)
  BY <1>9, RequiredOnward DEF Onward
<1> HIDE DEF checked
<1>11. Sound(called)
  BY <1>10, EmittedOnward DEF Onward
<1> HIDE DEF called
<1> QED
  BY <1>11, GiveResultsSound

\* A local has its place below the one before it.
LEMMA LocalPlace ==
  ASSUME NEW c, NEW i, NEW n \in Nat, NEW r, Full(c, i, n, r), c.opstack = <<>>
  PROVE  Top(c, "localstack", 0).offset = BaseOf(c.stackjournal) /\ BaseOf(c.stackjournal) \in Int
<1> DEFINE ls == c.localstack
           top == Top(c, "localstack", 0)
<1>1. OpstackBaseLocation(c) = BaseOf(c.stackjournal) /\ BaseOf(c.stackjournal) \in Int
  BY BaseLocation
<1>2. OpstackBaseLocation(c) = IF top.parameter THEN 0 ELSE top.offset
  BY DEF OpstackBaseLocation
<1>3. IsList(ls) /\ Leading(ls, n)
  BY DEF Full, Lists
<1>4. Len(ls) \in Nat
  BY <1>3 DEF IsList
<1>5. top.parameter => top.offset = 0
  <2>1. CASE Len(ls) = 0
    BY <1>4, <2>1 DEF Top, Zeros, NoLocal
  <2>2. CASE Len(ls) # 0
    <3>1. top = ls[Len(ls)] /\ Len(ls) \in 1..Len(ls)
      BY <1>4, <2>2 DEF Top
    <3> HIDE DEF top, ls
    <3> QED
      BY <1>3, <3>1 DEF Leading
  <2> QED
    BY <2>1, <2>2
<1> HIDE DEF top
<1> QED
  BY <1>1, <1>2, <1>5 DEF top

LEMMA AppendLocalFull ==
  ASSUME Context, NEW c, Sound(c), NEW t, NEW created
  PROVE  LET d == AppendLocal(c, t, created, NoParameter)
         IN  /\ Shape(d) /\ (d.ok => c.ok)
             /\ c.opstack = <<>> => Sound(d)
<1> DEFINE d == AppendLocal(c, t, created, NoParameter)
           l == NewLocal(c, t, created, NoParameter)
           e == LocalEntry(c, t, NoParameter)
           n == NumParameters
           r == Len(method.returns)
           offset == LocalOffset(c, NoParameter)
<1>1. LocalAppended(c, d, l, e)
  BY AppendLocalFields DEF Sound, SoundWith
<1>2. n \in Nat /\ r \in Nat /\ instrNum \in Nat /\ instrNum \in Int
  BY DEF Context
<1> HIDE DEF d
<1>3. Shape(d) /\ (d.ok => c.ok)
  BY <1>1 DEF LocalAppended
<1>4. SUFFICES ASSUME c.opstack = <<>>, Recording, d.ok
               PROVE  Full(d, instrNum, n, r)
  BY <1>3 DEF Sound, SoundWith, d
<1>5. Full(c, instrNum, n, r)
  BY <1>3, <1>4 DEF Sound, SoundWith
<1>6. /\ d.il = c.il /\ d.journal = c.journal /\ d.meta = c.meta /\ d.opstack = c.opstack
      /\ d.localstack = Append(c.localstack, l) /\ d.stackjournal = Append(c.stackjournal, e)
  BY <1>1, <1>4 DEF LocalAppended
<1>7. PICK a : a # "Pop" /\ d.actions = Append(c.actions, a)
  BY <1>1, <1>4 DEF LocalAppended
<1>8. l.parameter = FALSE /\ l.sa = Len(c.actions) /\ l.offset = offset /\ e.offset = offset
      /\ e.start = instrNum /\ e.vst = "Value" /\ IsRecord(e, EntryFields)
  BY DEF NewLocal, LocalEntry, NoParameter, IsRecord, EntryFields
<1>9. offset = BaseOf(c.stackjournal) - 1 /\ offset \in Int
  <2>1. Top(c, "localstack", 0).offset = BaseOf(c.stackjournal) /\ BaseOf(c.stackjournal) \in Int
    BY <1>2, <1>4, <1>5, LocalPlace
  <2>2. offset = Top(c, "localstack", 0).offset - 1
    BY DEF LocalOffset, NoParameter
  <2> QED
    BY <2>1, <2>2
<1> HIDE DEF l, e, offset, n, r
<1>10. IsEntry(e) /\ Placed(e)
  BY <1>2, <1>8, <1>9 DEF IsEntry, Placed
<1>11. l.sa = Len(c.actions) /\ l.offset = e.offset /\ e.start = instrNum
       /\ l.offset = BaseOf(c.stackjournal) - 1 /\ l.parameter = FALSE
  BY <1>8, <1>9
<1> QED
  BY <1>2, <1>4, <1>5, <1>6, <1>7, <1>10, <1>11, FullWithLocal

LEMMA AllocLocalResultSound ==
  ASSUME Context, NEW c, Sound(c), NEW o
  PROVE  Sound(AllocLocalResult(c, o))
<1> DEFINE condition == c.opstack = <<>> /\ IsType(o.res)
           checked == Require(c, condition)
           pushed == AppendLocal(checked, o.res, instrNum, NoParameter)
           code == IF HasDefault(o.res) THEN "pushdefault" ELSE "zero_local"
           d == EmitSimple(pushed, code)
<1>1. AllocLocalResult(c, o) = d
  BY DEF AllocLocalResult
<1> HIDE DEF code
<1>2. Onward(c, checked) /\ (checked.ok => condition) /\ SameStacks(c, checked)
  <2>1. Shape(c)
    BY DEF Sound, SoundWith
  <2> HIDE DEF condition
  <2> QED
    BY <2>1, RequiredOnward, RequireFields DEF Onward
<1> HIDE DEF checked
<1>3. /\ Shape(pushed) /\ (pushed.ok => checked.ok)
      /\ checked.opstack = <<>> => Sound(pushed)
  BY <1>2, AppendLocalFull DEF Onward
<1> HIDE DEF pushed
<1>4. Sound(pushed)
  BY <1>2, <1>3 DEF Sound, SoundWith, SameStacks
<1>5. Sound(d)
  BY <1>4, EmittedOnward DEF Onward
<1> QED
  BY <1>1, <1>5

LEMMA CreateLocalResultSound ==
  ASSUME Context, NEW c, Sound(c), NEW o
  PROVE  Sound(CreateLocalResult(c, o))
<1> DEFINE condition == IsType(o.res)
           checked == Require(c, condition)
           popped == PopOpstack(checked, "Value")
           v == popped.v
           appended == AppendLocal(popped, o.res, instrNum, NoParameter)
           empty == popped.opstack = <<>>
           pushed == Require(appended, empty)
           same == v.type = o.res
           uses == {v.sa}
           makes == {Top(pushed, "localstack", 0).sa}
           fit == Require(pushed, same)
           d == Emit(fit, "move", uses, makes, -1)
<1>1. CreateLocalResult(c, o) = IF ~Generating THEN pushed ELSE d
  BY DEF CreateLocalResult
<1> HIDE DEF condition, same, uses, makes
<1>2. Onward(c, checked)
  BY RequiredOnward
<1> HIDE DEF checked
<1>3. Onward(checked, popped)
  BY <1>2, PoppedOnward DEF Onward
<1> HIDE DEF popped
<1>4. /\ Shape(appended) /\ (appended.ok => popped.ok)
      /\ empty => Sound(appended)
  BY <1>3, AppendLocalFull DEF Onward
<1> HIDE DEF appended, empty
<1>5. Shape(pushed) /\ (pushed.ok => appended.ok /\ empty) /\ (empty => pushed = appended)
  BY <1>4, RequireFields
<1> HIDE DEF pushed
<1>6. Sound(pushed)
  BY <1>4, <1>5 DEF Sound, SoundWith
<1>7. Onward(pushed, fit)
  BY <1>6, RequiredOnward
<1> HIDE DEF fit
<1>8. Onward(fit, d)
  BY <1>7, EmittedOnward DEF Onward
<1> QED
  BY <1>1, <1>6, <1>8 DEF Onward

LEMMA RemoveLocalResultSound ==
  ASSUME Context, NEW c, Sound(c), NEW o
  PROVE  Sound(RemoveLocalResult(c, o))
<1> DEFINE local == Top(c, "localstack", 0)
           condition == c.opstack = <<>> /\ Len(c.localstack) # NumParameters
           checked == Require(c, condition)
           popped == PopLocal(checked)
           d == NarrowJumps(popped, local.created + 1, local.created)
<1>1. RemoveLocalResult(c, o) = IF Generating THEN d ELSE popped
  BY DEF RemoveLocalResult
<1>2. Onward(c, checked) /\ (checked.ok => condition) /\ SameStacks(c, checked)
  <2>1. Shape(c)
    BY DEF Sound, SoundWith
  <2> HIDE DEF condition
  <2> QED
    BY <2>1, RequiredOnward, RequireFields DEF Onward
<1> HIDE DEF checked, local
<1>3. checked.ok => checked.opstack = <<>> /\ Len(checked.localstack) # NumParameters
  BY <1>2 DEF SameStacks
<1>4. Sound(popped)
  BY <1>2, <1>3, PopLocalSound DEF Onward
<1> HIDE DEF popped
<1>5. Sound(d)
  BY <1>4, NarrowJumpsSound
<1> QED
  BY <1>1, <1>4, <1>5

LEMMA ValueTurned ==
  ASSUME NEW v, IsValue(v), NEW vst \in StoredVST, NEW t
  PROVE  /\ IsValue([v EXCEPT !.vst = vst]) /\ IsValue([v EXCEPT !.type = t])
         /\ IsValue([v EXCEPT !.type = t, !.vst = vst])
  BY DEF IsValue, IsRecord, ValueFields

\* While the stacks are only counted, what is pushed does not matter.
LEMMA CountedOnward ==
  ASSUME Context, NEW c, Sound(c), NEW v, NEW code, NEW uses, ~Generating
  PROVE  Onward(c, AppendOpstack(c, v)) /\ Onward(c, Make(c, v, code, uses))
  BY AppendedOnward, MadeOnward DEF Recording

LEMMA PushEmptyResultSound ==
  ASSUME Context, NEW c, Sound(c), NEW o
  PROVE  Sound(PushEmptyResult(c, o))
<1> DEFINE condition == IsType(o.res) /\ ~TypeIsRefStruct(o.res)
           v == New("ValueShell", o.res)
           checked == Require(c, condition)
           d == AppendOpstack(checked, v)
<1>0. Onward(c, c)
  BY DEF Onward
<1>1. PushEmptyResult(c, o) = d
  BY DEF PushEmptyResult
<1> HIDE DEF condition, v
<1>2. Onward(c, checked) /\ checked.v = c.v
  BY <1>0, RequiredOnward DEF Onward
<1> HIDE DEF checked
<1>3. IsValue(v)
  BY NewIsValue DEF v, StoredVST
<1>4. Onward(checked, d)
  BY <1>2, <1>3, AppendedOnward DEF Onward
<1> HIDE DEF d
<1> QED
  BY <1>1, <1>2, <1>4 DEF Onward

LEMMA NewInstanceResultSound ==
  ASSUME Context, NEW c, Sound(c), NEW o, o.sint1 \in Int
  PROVE  Sound(NewInstanceResult(c, o))
<1> DEFINE isType == IsType(o.res)
           uses == ArgumentsOf(c, o.sint1)
           condition == o.sint1 >= 0
           v == New("Value", o.res)
           code == IF ~ByValue(o.res) THEN "newinstance"
                   ELSE IF HasDefault(o.res) THEN "pushdefault" ELSE "zero_op"
           creatable == /\ o.sint1 = DimensionsOf(o.res)
                        /\ \/ KindOf(o.res) \in {"class", "array", "struct"}
                           \/ ByValue(o.res) /\ ~HasDefault(o.res)
           refused == Require(c, FALSE)
           synced == SyncJournal(c)
           checked == Require(synced, condition)
           popped == PopDimensions(checked, o.sint1)
           counted == AppendOpstack(popped, v)
           fit == Require(popped, creatable)
           d == Make(fit, v, code, uses)
<1>0. Onward(c, c)
  BY DEF Onward
<1>1. NewInstanceResult(c, o) = IF ~isType THEN refused ELSE IF ~Generating THEN counted ELSE d
  BY DEF NewInstanceResult
<1> HIDE DEF isType, uses, condition, v, code, creatable
<1>2. Onward(c, refused) /\ refused.v = c.v
  BY <1>0, RequiredOnward DEF Onward
<1> HIDE DEF refused
<1>3. Onward(c, synced)
  BY <1>0, SyncedOnward DEF Onward
<1> HIDE DEF synced
<1>4. Onward(synced, checked) /\ checked.v = synced.v
  BY <1>3, RequiredOnward DEF Onward
<1> HIDE DEF checked
<1>5. Onward(checked, popped)
  BY <1>4, DimensionsPoppedOnward DEF Onward
<1> HIDE DEF popped
<1>6. IsValue(v)
  BY NewIsValue DEF v, StoredVST
<1>7. Onward(popped, counted)
  BY <1>5, <1>6, AppendedOnward DEF Onward
<1> HIDE DEF counted
<1>8. Onward(popped, fit) /\ fit.v = popped.v
  BY <1>5, RequiredOnward DEF Onward
<1> HIDE DEF fit
<1>9. IsValue(v)
  BY NewIsValue DEF v, StoredVST
<1>10. Onward(fit, d)
  BY <1>8, <1>9, MadeOnward DEF Onward
<1> HIDE DEF d
<1> QED
  BY <1>1, <1>2, <1>3, <1>4, <1>5, <1>7, <1>8, <1>10 DEF Onward

LEMMA NullResultSound ==
  ASSUME Context, NEW c, Sound(c), NEW o
  PROVE  Sound(NullResult(c, o))
<1> DEFINE v == New("Value", Null)
           d == Make(c, v, "zero_op", {})
<1>0. Onward(c, c)
  BY DEF Onward
<1>1. NullResult(c, o) = d
  BY DEF NullResult
<1> HIDE DEF v
<1>2. IsValue(v)
  BY NewIsValue DEF v, StoredVST
<1>3. Onward(c, d)
  BY <1>0, <1>2, MadeOnward DEF Onward
<1> HIDE DEF d
<1> QED
  BY <1>1, <1>3 DEF Onward

LEMMA PinLocalResultSound ==
  ASSUME Context, NEW c, Sound(c), NEW o
  PROVE  Sound(PinLocalResult(c, o))
<1> DEFINE popped == PopOpstack(c, "LocalRef")
           local == Bottom(popped, popped.v.index)
           condition == popped.v.index < Len(popped.localstack)
           known == Require(popped, condition)
           pointer == New(IF local.const THEN "ConstPointer" ELSE "Pointer", local.type)
           counted == AppendOpstack(known, pointer)
           pinnable == ~local.pointer
           uses == {local.sa}
           fit == Require(known, pinnable)
           d == Make(fit, pointer, "pinl", uses)
<1>0. Onward(c, c)
  BY DEF Onward
<1>1. PinLocalResult(c, o) = IF ~Generating THEN counted ELSE d
  BY DEF PinLocalResult
<1> HIDE DEF local, condition, pointer, pinnable, uses
<1>2. Onward(c, popped) /\ (Recording /\ popped.ok => IsValue(popped.v))
  BY <1>0, PoppedOnward DEF Onward
<1> HIDE DEF popped
<1>3. Onward(popped, known) /\ known.v = popped.v
  BY <1>2, RequiredOnward DEF Onward
<1> HIDE DEF known
<1>4. IsValue(pointer)
  BY NewIsValue DEF pointer, StoredVST, PointerVST
<1>5. Onward(known, counted)
  BY <1>3, <1>4, AppendedOnward DEF Onward
<1> HIDE DEF counted
<1>6. Onward(known, fit) /\ fit.v = known.v
  BY <1>3, RequiredOnward DEF Onward
<1> HIDE DEF fit
<1>7. IsValue(pointer)
  BY NewIsValue DEF pointer, StoredVST, PointerVST
<1>8. Onward(fit, d)
  BY <1>6, <1>7, MadeOnward DEF Onward
<1> HIDE DEF d
<1> QED
  BY <1>1, <1>2, <1>3, <1>5, <1>6, <1>8 DEF Onward

LEMMA ToVaryingResultSound ==
  ASSUME Context, NEW c, Sound(c), NEW o
  PROVE  Sound(ToVaryingResult(c, o))
<1> DEFINE popped == PopOpstack(c, "Indeterminate")
           v == popped.v
           w == [v EXCEPT !.vst = "Varying"]
           condition == v.vst # "ConstPointer"
           uses == {v.sa}
           counted == AppendOpstack(popped, w)
           fit == Require(popped, condition)
           d == Make(fit, w, "tovarying", uses)
<1>0. Onward(c, c)
  BY DEF Onward
<1>1. ToVaryingResult(c, o) = IF ~Generating THEN counted ELSE d
  BY DEF ToVaryingResult
<1> HIDE DEF v, w, condition, uses
<1>2. Onward(c, popped) /\ (Recording /\ popped.ok => IsValue(popped.v))
  BY <1>0, PoppedOnward DEF Onward
<1> HIDE DEF popped
<1>3. Recording /\ popped.ok => IsValue(w)
  BY <1>2, ValueTurned DEF w, v, StoredVST
<1>4. Onward(popped, counted)
  BY <1>2, <1>3, AppendedOnward DEF Onward
<1> HIDE DEF counted
<1>5. Onward(popped, fit) /\ fit.v = popped.v
  BY <1>2, RequiredOnward DEF Onward
<1> HIDE DEF fit
<1>6. Recording /\ fit.ok => IsValue(w)
  BY <1>5, <1>3 DEF Onward
<1>7. Onward(fit, d)
  BY <1>5, <1>6, MadeOnward DEF Onward
<1> HIDE DEF d
<1> QED
  BY <1>1, <1>2, <1>4, <1>5, <1>7 DEF Onward

LEMMA ArrayIndexResultSound ==
  ASSUME Context, NEW c, Sound(c), NEW o, o.sint1 \in Int
  PROVE  Sound(ArrayIndexResult(c, o))
<1> DEFINE condition == o.sint1 >= 1 /\ Has(c, 1)
           checked == Require(c, condition)
           synced == SyncJournal(checked)
           dimensions == PopDimensions(synced, o.sint1)
           popped == PopOpstack(dimensions, "Value")
           array == popped.v
           isArray == KindOf(array.type) = "array" /\ TypeInfo[array.type].dims = o.sint1
           pointer == New(IF TypeInfo[array.type].fixed THEN "ConstPointer" ELSE "Pointer",
                          TypeInfo[array.type].element)
           uses == ArgumentsOf(c, o.sint1 + 1)
           refused == Require(popped, FALSE)
           d == Make(popped, pointer, "arrayindex", uses)
           counted == Make(popped, NoValue, "arrayindex", {})
<1>0. Onward(c, c)
  BY DEF Onward
<1>1. ArrayIndexResult(c, o) =
        IF ~Generating THEN counted ELSE IF ~isArray THEN refused ELSE d
  BY DEF ArrayIndexResult
<1> HIDE DEF condition, array, isArray, pointer, uses
<1>2. Onward(c, checked) /\ checked.v = c.v
  BY <1>0, RequiredOnward DEF Onward
<1> HIDE DEF checked
<1>3. Onward(checked, synced)
  BY <1>2, SyncedOnward DEF Onward
<1> HIDE DEF synced
<1>4. Onward(synced, dimensions)
  BY <1>3, DimensionsPoppedOnward DEF Onward
<1> HIDE DEF dimensions
<1>5. Onward(dimensions, popped) /\ (Recording /\ popped.ok => IsValue(popped.v))
  BY <1>4, PoppedOnward DEF Onward
<1> HIDE DEF popped
<1>6. Onward(popped, refused) /\ refused.v = popped.v
  BY <1>5, RequiredOnward DEF Onward
<1> HIDE DEF refused
<1>7. IsValue(pointer)
  BY NewIsValue DEF pointer, StoredVST, PointerVST
<1>8. Onward(popped, d)
  BY <1>5, <1>7, MadeOnward DEF Onward
<1> HIDE DEF d
<1>9. ~Generating => Onward(popped, counted)
  BY <1>5, CountedOnward DEF Onward
<1> HIDE DEF counted
<1> QED
  BY <1>1, <1>2, <1>3, <1>4, <1>5, <1>6, <1>8, <1>9 DEF Onward

LEMMA MoveResultSound ==
  ASSUME Context, NEW c, Sound(c), NEW o
  PROVE  Sound(MoveResult(c, o))
<1> DEFINE first == PopOpstack(c, "Indeterminate")
           popped == PopOpstack(first, "Indeterminate")
           dest == first.v
           source == popped.v
           Referred(v) == Bottom(popped, v.index)
           NoPointer(v) == v.vst = "LocalRef" => ~Referred(v).pointer
           Place(v) == IF v.vst = "LocalRef" THEN Referred(v).sa ELSE v.sa
           fits == /\ TypesCompatible(source.type, dest.type)
                   /\ dest.vst \in {"Pointer", "LocalRef"} /\ NoPointer(dest)
                   /\ source.vst \in {"Value", "LocalRef"} \cup PointerVST /\ NoPointer(source)
           uses == {Place(source), Place(dest)}
           checked == Require(popped, fits)
           d == Emit(checked, "move", uses, {}, -1)
<1>0. Onward(c, c)
  BY DEF Onward
<1>1. MoveResult(c, o) = IF ~Generating THEN popped ELSE d
  BY DEF MoveResult
<1> HIDE DEF dest, source, Referred, NoPointer, Place, fits, uses
<1>2. Onward(c, first) /\ (Recording /\ first.ok => IsValue(first.v))
  BY <1>0, PoppedOnward DEF Onward
<1> HIDE DEF first
<1>3. Onward(first, popped) /\ (Recording /\ popped.ok => IsValue(popped.v))
  BY <1>2, PoppedOnward DEF Onward
<1> HIDE DEF popped
<1>4. Onward(popped, checked) /\ checked.v = popped.v
  BY <1>3, RequiredOnward DEF Onward
<1> HIDE DEF checked
<1>5. Onward(checked, d)
  BY <1>4, EmittedOnward DEF Onward
<1> HIDE DEF d
<1> QED
  BY <1>1, <1>2, <1>3, <1>4, <1>5 DEF Onward

LEMMA LoadResultSound ==
  ASSUME Context, NEW c, Sound(c), NEW o
  PROVE  Sound(LoadResult(c, o))
<1> DEFINE popped == PopOpstack(c, "Indeterminate")
           v == popped.v
           local == Bottom(popped, v.index)
           pointer == New(IF local.const THEN "ConstPointer" ELSE "Pointer", local.type)
           value == [New("Value", local.type) EXCEPT !.notNull = local.notNull]
           referred == IF local.parameter /\ local.pointer THEN pointer ELSE value
           target == New("Value", v.type)
           condition == v.vst \in PointerVST /\ ~TypeIsRefStruct(v.type)
           uses == {v.sa}
           localUses == {local.sa}
           counted == AppendOpstack(popped, NoValue)
           loaded == Make(popped, referred, "move", localUses)
           checked == Require(popped, condition)
           d == Make(checked, target, "move", uses)
<1>0. Onward(c, c)
  BY DEF Onward
<1>1. LoadResult(c, o) =
        IF ~Generating THEN counted ELSE IF v.vst = "LocalRef" THEN loaded ELSE d
  BY DEF LoadResult
<1> HIDE DEF v, local, pointer, value, referred, target, condition, uses, localUses
<1>2. Onward(c, popped) /\ (Recording /\ popped.ok => IsValue(popped.v))
  BY <1>0, PoppedOnward DEF Onward
<1> HIDE DEF popped
<1>3. ~Generating => Onward(popped, counted)
  BY <1>2, CountedOnward DEF Onward
<1> HIDE DEF counted
<1>4. IsValue(pointer) /\ IsValue(value)
  BY NewIsValue
  DEF pointer, value, New, NoValue, IsValue, IsRecord, ValueFields, StoredVST, PointerVST
<1>5. IsValue(referred)
  BY <1>4 DEF referred
<1>6. Onward(popped, loaded)
  BY <1>2, <1>4, <1>5, MadeOnward DEF Onward
<1> HIDE DEF loaded
<1>7. Onward(popped, checked) /\ checked.v = popped.v
  BY <1>2, RequiredOnward DEF Onward
<1> HIDE DEF checked
<1>8. IsValue(target)
  BY NewIsValue DEF target, StoredVST
<1>9. Onward(checked, d)
  BY <1>7, <1>8, MadeOnward DEF Onward
<1> HIDE DEF d
<1> QED
  BY <1>1, <1>2, <1>3, <1>6, <1>7, <1>9 DEF Onward

LEMMA PopResultSound ==
  ASSUME Context, NEW c, Sound(c), NEW o
  PROVE  Sound(PopResult(c, o))
<1> DEFINE popped == PopOpstack(c, "Indeterminate")
           condition == Generating => popped.v.vst \in StoredVST \cup {"LocalRef"}
           d == Require(popped, condition)
<1>0. Onward(c, c)
  BY DEF Onward
<1>1. PopResult(c, o) = d
  BY DEF PopResult
<1> HIDE DEF condition
<1>2. Onward(c, popped) /\ (Recording /\ popped.ok => IsValue(popped.v))
  BY <1>0, PoppedOnward DEF Onward
<1> HIDE DEF popped
<1>3. Onward(popped, d) /\ d.v = popped.v
  BY <1>2, RequiredOnward DEF Onward
<1> HIDE DEF d
<1> QED
  BY <1>1, <1>2, <1>3 DEF Onward

LEMMA CastResultSound ==
  ASSUME Context, NEW c, Sound(c), NEW o
  PROVE  Sound(CastResult(c, o))
<1> DEFINE synced == SyncJournal(c)
           popped == PopOpstack(synced, "Value")
           v == popped.v
           cast == [v EXCEPT !.type = o.res]
           implemented == \/ TypeIsInterface(v.type) /\ (TypeIsClass(o.res) \/ TypeIsInterface(o.res))
                          \/ KindOf(o.res) = "enum"
                          \/ /\ TypeIsClass(v.type)
                             /\ TypeIsInterface(o.res) \/ TypeIsClass(o.res) \/ KindOf(o.res) = "array"
           code == IF TypeIsInterface(v.type) THEN "rcast_i"
                   ELSE IF KindOf(o.res) = "enum" THEN "assertenum"
                   ELSE IF ~TypeIsInterface(o.res) THEN "assertinherits"
                   ELSE IF o.res \in TypeInfo[v.type].interfaces THEN "rcast_otoi_direct"
                   ELSE "rcast_otoi"
           condition == TypesCompatiblePolymorphic(v.type, o.res) /\ implemented
           uses == {v.sa}
           refused == Require(c, FALSE)
           counted == AppendOpstack(popped, v)
           plain == AppendOpstack(popped, cast)
           checked == Require(popped, condition)
           d == Make(checked, cast, code, uses)
<1>0. Onward(c, c)
  BY DEF Onward
<1>1. CastResult(c, o) =
        IF ~Generating THEN counted ELSE IF ~IsType(o.res) THEN refused
        ELSE IF TypesCompatible(v.type, o.res) THEN plain ELSE d
  BY DEF CastResult
<1> HIDE DEF v, cast, implemented, code, condition, uses
<1>2. Onward(c, synced)
  BY <1>0, SyncedOnward DEF Onward
<1> HIDE DEF synced
<1>3. Onward(synced, popped) /\ (Recording /\ popped.ok => IsValue(popped.v))
  BY <1>2, PoppedOnward DEF Onward
<1> HIDE DEF popped
<1>4. Onward(c, refused) /\ refused.v = c.v
  BY <1>0, RequiredOnward DEF Onward
<1> HIDE DEF refused
<1>5. ~Generating => Onward(popped, counted)
  BY <1>3, CountedOnward DEF Onward
<1> HIDE DEF counted
<1>6. Recording /\ popped.ok => IsValue(cast)
  BY <1>3, ValueTurned DEF cast, v, StoredVST
<1>7. Onward(popped, plain)
  BY <1>3, <1>6, AppendedOnward DEF Onward
<1> HIDE DEF plain
<1>8. Onward(popped, checked) /\ checked.v = popped.v
  BY <1>3, RequiredOnward DEF Onward
<1> HIDE DEF checked
<1>9. Recording /\ checked.ok => IsValue(cast)
  BY <1>8, <1>6 DEF Onward
<1>10. Onward(checked, d)
  BY <1>8, <1>9, MadeOnward DEF Onward
<1> HIDE DEF d
<1> QED
  BY <1>1, <1>2, <1>3, <1>4, <1>5, <1>7, <1>8, <1>10 DEF Onward

LEMMA LocalRefResultSound ==
  ASSUME Context, NEW c, Sound(c), NEW o
  PROVE  Sound(LocalRefResult(c, o))
<1> DEFINE condition == o.sint1 \in 0..Len(c.localstack) - 1
           v == [New("LocalRef", Bottom(c, o.sint1).type) EXCEPT !.index = o.sint1]
           checked == Require(c, condition)
           d == AppendOpstack(checked, v)
<1>0. Onward(c, c)
  BY DEF Onward
<1>1. LocalRefResult(c, o) = d
  BY DEF LocalRefResult
<1> HIDE DEF condition, v
<1>2. Onward(c, checked) /\ checked.v = c.v
  BY <1>0, RequiredOnward DEF Onward
<1> HIDE DEF checked
<1>3. IsValue(v)
  BY NewIsValue DEF v, New, NoValue, IsValue, IsRecord, ValueFields
<1>4. Onward(checked, d)
  BY <1>2, <1>3, AppendedOnward DEF Onward
<1> HIDE DEF d
<1> QED
  BY <1>1, <1>2, <1>4 DEF Onward

LEMMA ResResultSound ==
  ASSUME Context, NEW c, Sound(c), NEW o
  PROVE  Sound(ResResult(c, o))
<1> DEFINE known == o.res \in DOMAIN ObjectInfo
           object == ObjectInfo[o.res]
           vst == IF TypeIsObjectReference(object.type) THEN "Value"
                  ELSE IF object.constant THEN "ConstPointer" ELSE "Pointer"
           v == New(vst, object.type)
           refused == Require(c, FALSE)
           d == Make(c, v, "immediate", {})
<1>0. Onward(c, c)
  BY DEF Onward
<1>1. ResResult(c, o) \in {refused, d}
  BY DEF ResResult
<1> HIDE DEF known, object, vst, v
<1>2. Onward(c, refused) /\ refused.v = c.v
  BY <1>0, RequiredOnward DEF Onward
<1> HIDE DEF refused
<1>3. IsValue(v)
  BY NewIsValue DEF v, vst, StoredVST, PointerVST
<1>4. Onward(c, d)
  BY <1>0, <1>3, MadeOnward DEF Onward
<1> HIDE DEF d
<1> QED
  BY <1>1, <1>2, <1>4 DEF Onward

LEMMA ConstantResultSound ==
  ASSUME Context, NEW c, Sound(c), NEW o
  PROVE  Sound(ConstantResult(c, o))
<1> DEFINE condition == IsType(o.res)
           v == New("Value", o.res)
           checked == Require(c, condition)
           pushed == AppendOpstack(checked, v)
           makes == {pushed.v.sa}
           d == Emit(pushed, "immediate", {}, makes, -1)
<1>0. Onward(c, c)
  BY DEF Onward
<1>1. ConstantResult(c, o) = IF Generating THEN d ELSE pushed
  BY DEF ConstantResult
<1> HIDE DEF condition, v, makes
<1>2. Onward(c, checked) /\ checked.v = c.v
  BY <1>0, RequiredOnward DEF Onward
<1> HIDE DEF checked
<1>3. IsValue(v)
  BY NewIsValue DEF v, StoredVST
<1>4. Onward(checked, pushed)
  BY <1>2, <1>3, AppendedOnward DEF Onward
<1> HIDE DEF pushed
<1>5. Onward(pushed, d)
  BY <1>4, EmittedOnward DEF Onward
<1> HIDE DEF d
<1> QED
  BY <1>1, <1>2, <1>4, <1>5 DEF Onward

LEMMA SwitchResultSound ==
  ASSUME Context, NEW c, Sound(c), NEW o
  PROVE  Sound(SwitchResult(c, o))
<1> DEFINE popped == PopOpstack(c, "Indeterminate")
           v == popped.v
           cases == ObjectInfo[o.res]
           fits == /\ v.vst \in {"Value"} \cup PointerVST /\ EmptyOrBarrier(popped) /\ v.type # Null
                   /\ o.res \in DOMAIN ObjectInfo /\ cases.constant /\ KindOf(cases.type) = "array"
                   /\ cases.count = o.sint1 /\ TypesCompatible(v.type, TypeInfo[cases.type].element)
                   /\ o.sint1 > 0 /\ Length - instrNum - 2 >= o.sint1
                   /\ \A k \in instrNum + 2..instrNum + 1 + o.sint1 :
                        decOps[k].op = "jump" /\ decOps[k].sint1 > 0
           uses == {v.sa}
           checked == Require(popped, fits)
           d == Emit(checked, "switch", uses, {}, o.sint1)
<1>0. Onward(c, c)
  BY DEF Onward
<1>1. SwitchResult(c, o) = IF ~Generating THEN popped ELSE d
  BY DEF SwitchResult
<1> HIDE DEF v, cases, fits, uses
<1>2. Onward(c, popped) /\ (Recording /\ popped.ok => IsValue(popped.v))
  BY <1>0, PoppedOnward DEF Onward
<1> HIDE DEF popped
<1>3. Onward(popped, checked) /\ checked.v = popped.v
  BY <1>2, RequiredOnward DEF Onward
<1> HIDE DEF checked
<1>4. Onward(checked, d)
  BY <1>3, EmittedOnward DEF Onward
<1> HIDE DEF d
<1> QED
  BY <1>1, <1>2, <1>3, <1>4 DEF Onward

LEMMA IterateArrayResultSound ==
  ASSUME Context, NEW c, Sound(c), NEW o
  PROVE  Sound(IterateArrayResult(c, o))
<1> DEFINE synced == SyncJournal(c)
           ticked == TickIfBackwards(synced, o)
           array == PopOpstack(ticked, "LocalRef")
           index == PopOpstack(array, "LocalRef")
           dest == PopOpstack(index, "LocalRef")
           fourth == PopOpstack(dest, "LocalRef")
           popped == IF o.sint2 # 0 THEN fourth ELSE dest
           Local(x) == Bottom(popped, x.v.index)
           Counter(k) == LET local == Bottom(popped, k)
                         IN  k < Len(popped.localstack) /\ ~local.parameter /\ local.type = LargeUInt
           arrayType == Local(array).type
           isArray == ~Local(array).parameter /\ KindOf(arrayType) = "array"
           subs == IF o.sint2 = 0 THEN {} ELSE popped.v.index..popped.v.index + o.sint2 - 1
           fits == /\ EmptyOrBarrier(popped) /\ isArray /\ Counter(index.v.index)
                   /\ o.sint2 = 0 \/ TypeInfo[arrayType].dims = o.sint2
                   /\ \A k \in subs : Counter(k)
                   /\ ~Local(dest).parameter /\ Local(dest).type = TypeInfo[arrayType].element
           uses == {Local(array).sa, Local(index).sa, Local(dest).sa} \cup {Bottom(popped, k).sa : k \in subs}
           target == instrNum + o.sint1
           checked == Require(popped, fits)
           d == EmitJump(checked, "iteratearray", uses, target)
<1>0. Onward(c, c)
  BY DEF Onward
<1>1. IterateArrayResult(c, o) = IF ~Generating THEN popped ELSE d
  BY DEF IterateArrayResult
<1> HIDE DEF Local, Counter, arrayType, isArray, subs, fits, uses, target
<1>2. Onward(c, synced)
  BY <1>0, SyncedOnward DEF Onward
<1> HIDE DEF synced
<1>3. Onward(synced, ticked)
  BY <1>2, TickedOnward DEF Onward
<1> HIDE DEF ticked
<1>4. Onward(ticked, array) /\ (Recording /\ array.ok => IsValue(array.v))
  BY <1>3, PoppedOnward DEF Onward
<1> HIDE DEF array
<1>5. Onward(array, index) /\ (Recording /\ index.ok => IsValue(index.v))
  BY <1>4, PoppedOnward DEF Onward
<1> HIDE DEF index
<1>6. Onward(index, dest) /\ (Recording /\ dest.ok => IsValue(dest.v))
  BY <1>5, PoppedOnward DEF Onward
<1> HIDE DEF dest
<1>7. Onward(dest, fourth) /\ (Recording /\ fourth.ok => IsValue(fourth.v))
  BY <1>6, PoppedOnward DEF Onward
<1> HIDE DEF fourth
<1>8. Onward(dest, popped)
  BY <1>6, <1>7 DEF Onward
<1> HIDE DEF popped
<1>9. Onward(popped, checked) /\ checked.v = popped.v
  BY <1>8, RequiredOnward DEF Onward
<1> HIDE DEF checked
<1>10. Onward(checked, d)
  BY <1>9, JumpedOnward DEF Onward
<1> HIDE DEF d
<1> QED
  BY <1>1, <1>2, <1>3, <1>4, <1>5, <1>6, <1>7, <1>8, <1>9, <1>10 DEF Onward

LEMMA NewInstanceSetResultSound ==
  ASSUME Context, NEW c, Sound(c), NEW o, Len(o.props) \in Nat
  PROVE  Sound(NewInstanceSetResult(c, o))
<1> DEFINE isClass == KindOf(o.res) = "class"
           local == Bottom(c, o.sint1)
           count == Len(o.props)
           synced == IF TypeIsObjectReference(o.res) THEN SyncJournal(c) ELSE c
           v == New("Pointer", Null)
           pushed == AppendOpstack(synced, v)
           popped == PopOpstack(pushed, "Pointer")
           pointed == IF isClass THEN popped ELSE synced
           Value(k) == Top(c, "opstack", count - k)
           Found(k) == TypeInfo[o.res].props[o.props[k]]
           Fits(k) == /\ o.props[k] \in DOMAIN TypeInfo[o.res].props
                      /\ Value(k).vst \in IF TypeIsRefStruct(Found(k)) THEN PointerVST ELSE {"Value"}
                      /\ TypesCompatible(Value(k).type, Found(k))
           makes == {local.sa}
           emitted == Emit(pointed, "newinstance_local", {}, makes, -1)
           flushed == EmitSimple(pointed, "hardenstack")
           created == IF isClass THEN emitted ELSE flushed
           finding == [k \in 1..count |-> IF ~isClass THEN "none"
                                          ELSE IF k = 1 THEN "objproperty_notnull_persist"
                                          ELSE "changeproperty"]
           set == SetProperties(c, created, finding)
           hardened == EmitSimple(set, "hardenstack")
           filled == IF isClass THEN set ELSE hardened
           fits == /\ Has(c, count) /\ TypesCompatible(o.res, local.type)
                   /\ \A k \in 1..count : Fits(k)
           placed == /\ KindOf(o.res) \in {"class", "refstruct", "struct"}
                     /\ o.sint1 \in 0..Len(c.localstack) - 1
           counted == Require(pointed, placed)
           refused == Require(c, FALSE)
           made == IF ~Generating THEN counted ELSE IF placed /\ fits THEN filled ELSE refused
           d == PopValues(made, count, "Indeterminate")
<1>1. NewInstanceSetResult(c, o) = d
  BY DEF NewInstanceSetResult
<1> HIDE DEF fits, placed, makes
<1>2. IsValue(v)
  BY NewIsValue DEF v, StoredVST, PointerVST
<1>3. Len(finding) \in Nat
  <2>1. count \in Nat
    OBVIOUS
  <2> HIDE DEF count, isClass
  <2> QED
    BY <2>1
<1>4. count \in Nat
  OBVIOUS
<1> HIDE DEF v, finding, count, isClass
<1>5. Sound(synced) /\ Sound(refused)
  BY SyncJournalSound, RequiredOnward DEF Onward
<1> HIDE DEF synced, refused
<1>6. Sound(pushed)
  BY <1>2, <1>5, AppendOpstackSound
<1> HIDE DEF pushed
<1>7. Sound(popped)
  BY <1>6, PopOpstackSound
<1> HIDE DEF popped
<1>8. Sound(pointed)
  BY <1>5, <1>7
<1> HIDE DEF pointed
<1>9. Sound(emitted) /\ Sound(flushed) /\ Sound(counted)
  BY <1>8, EmittedOnward, RequiredOnward DEF Onward
<1> HIDE DEF emitted, flushed, counted
<1>10. Sound(created)
  BY <1>9
<1> HIDE DEF created
<1>11. Sound(set)
  BY <1>3, <1>10, SetPropertiesSound
<1> HIDE DEF set
<1>12. Sound(hardened)
  BY <1>11, EmittedOnward DEF Onward
<1> HIDE DEF hardened
<1>13. Sound(filled)
  BY <1>11, <1>12
<1> HIDE DEF filled
<1>14. Sound(made)
  BY <1>5, <1>9, <1>13
<1> HIDE DEF made
<1>15. Sound(d)
  BY <1>4, <1>14, PopValuesSound
<1> QED
  BY <1>1, <1>15

LEMMA PropertyResultSound ==
  ASSUME Context, NEW c, Sound(c), NEW o
  PROVE  Sound(PropertyResult(c, o))
<1> DEFINE v == Top(c, "opstack", 0)
           isValue == v.vst = "Value"
           synced == IF isValue THEN SyncJournal(c) ELSE c
           popped == PopOpstack(synced, v.vst)
           fits == /\ Has(c, 1) /\ v.vst \in {"Value"} \cup PointerVST
                   /\ Structured(v.type) /\ o.sint1 \in DOMAIN TypeInfo[v.type].props
                   /\ IF isValue THEN KindOf(v.type) = "class" ELSE ByValue(v.type)
           vst == IF o.sint1 \in TypeInfo[v.type].constants THEN "ConstPointer"
                  ELSE IF isValue THEN "Pointer" ELSE v.vst
           type == TypeInfo[v.type].props[o.sint1]
           property == [v EXCEPT !.type = type, !.vst = vst]
           uses == {v.sa}
           follows == instrNum > 0 /\ decOps[instrNum].op \in {"property", "pinlocal", "arrayindex"}
           again == SyncJournal(popped)
           found == Make(again, property, IF v.notNull THEN "objproperty_notnull" ELSE "objproperty", uses)
           pushed == AppendOpstack(popped, property)
           d == Make(popped, property, "ptrprop", uses)
           refused == Require(c, FALSE)
<1>1. PropertyResult(c, o) = IF ~Generating THEN c ELSE IF ~fits THEN refused
                             ELSE IF isValue THEN found ELSE IF follows THEN pushed ELSE d
  BY DEF PropertyResult
<1>2. Sound(synced) /\ Sound(refused) /\ synced.opstack = c.opstack
  <2>1. SyncJournal(c).opstack = c.opstack
    BY DEF SyncJournal, Sound, SoundWith, Shape, CompFields
  <2> QED
    BY <2>1, SyncJournalSound, RequiredOnward DEF Onward
<1> HIDE DEF refused, isValue, synced
<1>3. Onward(synced, popped) /\ popped.v = v /\ (Recording /\ popped.ok => IsValue(popped.v))
  <2>1. Top(synced, "opstack", 0) = v
    BY <1>2 DEF Top
  <2> HIDE DEF v
  <2> QED
    BY <1>2, <2>1, PoppedOnward
<1> HIDE DEF popped, fits, follows, type, uses
<1>4. Recording /\ popped.ok => IsValue(property)
  <2>1. SUFFICES ASSUME IsValue(v)
                 PROVE  IsValue(property)
    BY <1>3
  <2>2. vst \in StoredVST \/ vst = v.vst
    BY DEF StoredVST, PointerVST
  <2> HIDE DEF v, vst
  <2>3. CASE vst \in StoredVST
    BY <2>1, <2>3, ValueTurned
  <2>4. CASE vst = v.vst
    BY <2>1, <2>4 DEF IsValue, IsRecord, ValueFields
  <2> QED
    BY <2>2, <2>3, <2>4
<1> HIDE DEF property, v
<1>5. Onward(popped, again)
  BY <1>3, SyncedOnward DEF Onward
<1> HIDE DEF again
<1>6. Recording /\ again.ok => IsValue(property)
  BY <1>4, <1>5 DEF Onward
<1>7. Sound(found)
  BY <1>5, <1>6, MadeOnward DEF Onward
<1>8. Sound(pushed) /\ Sound(d)
  BY <1>3, <1>4, AppendedOnward, MadeOnward DEF Onward
<1> HIDE DEF found, pushed, d
<1> QED
  BY <1>1, <1>2, <1>7, <1>8

LEMMA CloneResultSound ==
  ASSUME Context, NEW c, Sound(c), NEW o, o.sint1 \in Int, o.sint2 \in Int
  PROVE  Sound(CloneResult(c, o))
<1> DEFINE first == Len(c.opstack) - o.sint1
           inside == o.sint1 >= 0 /\ o.sint2 >= 1 /\ o.sint1 < Len(c.opstack)
                     /\ Len(c.opstack) - o.sint1 >= o.sint2
           plain == /\ \A k \in first..Len(c.opstack) : c.opstack[k].vst # "Barrier"
                    /\ \A k \in first..Len(c.opstack) :
                         k < first + o.sint2 => c.opstack[k].vst # "ValueShell"
           refused == Require(c, FALSE)
           d == CloneValues(c, first, o.sint2)
<1>1. CloneResult(c, o) = IF ~inside \/ (Generating /\ ~plain) THEN refused ELSE d
  BY DEF CloneResult
<1> HIDE DEF plain
<1>2. Sound(refused)
  BY RequiredOnward DEF Onward
<1> HIDE DEF refused
<1>3. SUFFICES ASSUME inside
               PROVE  Sound(d)
  BY <1>1, <1>2
<1>4. CASE Recording /\ c.ok
  <2>1. IsList(c.opstack)
    BY <1>4 DEF Sound, SoundWith, Full, Lists
  <2>2. Len(c.opstack) \in Nat
    BY <2>1 DEF IsList
  <2>3. o.sint2 \in Nat /\ first \in 1..Len(c.opstack)
    BY <1>3, <2>2
  <2> HIDE DEF first
  <2> QED
    BY <2>3, CloneValuesSound
<1>5. CASE ~(Recording /\ c.ok)
  <2>1. o.sint2 \in Nat
    BY <1>3
  <2> HIDE DEF first
  <2> QED
    BY <1>5, <2>1, CloneValuesSound
<1> QED
  BY <1>4, <1>5

LEMMA ReturnResultSound ==
  ASSUME Context, NEW c, Sound(c), NEW o, o.sint1 \in Int
  PROVE  Sound(ReturnResult(c, o))
<1> DEFINE refused == Require(c, FALSE)
           counted == PopValues(c, o.sint1, "Value")
           toParent == ReturnToParent(c, o.sint1)
           past == ReturnPastBarrier(c, o.sint1)
<1>1. ReturnResult(c, o) = IF o.sint1 < 0 THEN refused ELSE IF ~Generating THEN counted
                           ELSE IF o.sint1 = Len(c.opstack) THEN toParent ELSE past
  BY DEF ReturnResult
<1>2. Sound(refused)
  BY RequiredOnward DEF Onward
<1>3. CASE ~(o.sint1 < 0)
  <2>1. o.sint1 \in Nat
    BY <1>3
  <2>2. Sound(counted) /\ Sound(toParent) /\ Sound(past)
    BY <2>1, PopValuesSound, ReturnToParentSound, ReturnPastBarrierSound
  <2> HIDE DEF counted, toParent, past, refused
  <2> QED
    BY <1>1, <1>2, <2>2
<1> HIDE DEF counted, toParent, past, refused
<1> QED
  BY <1>1, <1>2, <1>3

(***************************************************************************)
(* The steps.                                                              *)
(***************************************************************************)

\* The numbers of operations, parameters and results.
LEMMA Counted ==
  ASSUME PassInv
  PROVE  Length \in Nat /\ NumParameters \in Nat /\ Len(method.returns) \in Nat /\ instrNum \in Int
<1>1. method \in Programs /\ instrNum \in -1..Length
  BY DEF PassInv
<1>2. {Len(method.ops), Len(method.params), Len(method.returns)} \subseteq Nat
  BY <1>1, ProgramAssumption
<1>3. instrNum \in Int
  BY <1>1, <1>2 DEF Length
<1> QED
  BY <1>2, <1>3 DEF Length, NumParameters

LEMMA NothingFull ==
  ASSUME NEW c, NEW i \in Int, i < 0,
         c.opstack = <<>>, c.localstack = <<>>, c.stackjournal = <<>>, c.il = <<>>,
         c.journal = <<>>, c.actions = <<>>
  PROVE  Full(c, i, 0, 0)
<1>1. IsList(<<>>) /\ Len(<<>>) = 0
  BY EmptyList
<1>2. Lists(c)
  BY <1>1 DEF Lists
<1>3. Matched(<<>>, <<>>, <<>>) /\ Leading(<<>>, 0) /\ Descending(<<>>, 0)
  BY <1>1 DEF Matched, Leading, Descending
<1>4. Spans(<<>>, <<>>, 0, i) /\ Timed(c.meta, <<>>, i)
  BY <1>1 DEF Spans, Timed
<1>5. Replay(<<>>) = Pushed(<<>>, <<>>, 0)
  <2>1. [k \in 1..0 |-> k - 1] = <<>> /\ [k \in 1..Len(<<>>) |-> <<>>[k].sa] = <<>>
    BY <1>1
  <2>2. <<>> \o <<>> = <<>>
    BY <1>1, ConcatLists
  <2> QED
    BY <2>1, <2>2, ReplayNothing, StoredNothing DEF Pushed
<1> QED
  BY <1>2, <1>3, <1>4, <1>5 DEF Full

LEMMA InitInv ==
  ASSUME Init
  PROVE  IInv
<1>1. PassInv
  <2>1. method \in Programs /\ pass = "create" /\ instrNum = -1 /\ capacity = <<>>
    BY DEF Init
  <2>2. {Len(method.ops), Len(method.params), Len(method.returns)} \subseteq Nat
    BY <2>1, ProgramAssumption
  <2>3. Length \in Nat
    BY <2>2 DEF Length
  <2>4. instrNum \in -1..Length
    BY <2>1, <2>3
  <2> QED
    BY <2>1, <2>4 DEF PassInv
<1>2. OpsInv
  BY EmptyList DEF Init, OpsInv
<1>3. CompInv
  <2> DEFINE meta == [i \in Labels |-> [translated |-> 0, validation |-> 0, min |-> 0, max |-> 0,
                                        valid |-> FALSE]]
  <2>1. comp = [NoCompiler EXCEPT !.meta = meta] /\ pass = "create"
    BY DEF Init
  <2>2. meta = [i \in Labels |-> meta[i]]
    OBVIOUS
  <2> HIDE DEF meta
  <2>3. comp.meta = meta /\ comp.ok = TRUE /\ comp = [f \in CompFields |-> comp[f]]
    BY <2>1 DEF NoCompiler, CompFields
  <2>4. Shape(comp)
    BY <2>2, <2>3 DEF Shape
  <2> QED
    BY <2>1, <2>3, <2>4 DEF CompInv, Recording, Generating
<1> QED
  BY <1>1, <1>2, <1>3 DEF IInv

LEMMA RejectKeeps ==
  ASSUME IInv, Reject
  PROVE  IInv'
<1>1. Length \in Nat
  BY Counted DEF IInv
<1>2. pass' = "rejected" /\ instrNum' = 0 /\ method' = method
  BY DEF Reject
<1>3. PassInv'
  BY <1>1, <1>2 DEF IInv, PassInv, Length
<1> QED
  BY <1>2, <1>3 DEF IInv, OpsInv, CompInv, Running

LEMMA StutterKeeps ==
  ASSUME IInv, UNCHANGED vars
  PROVE  IInv'
  BY DEF vars, IInv, PassInv, OpsInv, CompInv, Running, Recording, Generating, Allocated, Shape, Labels,
         Length, NumParameters, Full, Timed, Emptied

\* The part of the invariant about the members, of the members c before the
\* operation i.
MembersInv(c, i) ==
  IF i = -1 THEN Emptied(c) ELSE Full(c, i - 1, NumParameters, Len(method.returns))

\* What a step has to show of the members it leaves.
LEMMA PrimedMembers ==
  ASSUME method' = method
  PROVE  CompInv' <=>
           /\ Running' => Shape(comp') /\ comp'.ok
           /\ Running' /\ Recording' => MembersInv(comp', instrNum')
           /\ pass' = "compiled" =>
                /\ Len(comp'.journal) \in Nat /\ DOMAIN comp'.journal = 1..Len(comp'.journal)
                /\ Translated(comp'.journal)
<1>1. Labels' = Labels /\ NumParameters' = NumParameters /\ Len(method.returns)' = Len(method.returns)
  BY DEF Labels, Length, NumParameters
<1> QED
  BY <1>1 DEF CompInv, MembersInv, Full, Timed, Shape

LEMMA EndPassKeeps ==
  ASSUME IInv, EndPass
  PROVE  IInv'
<1> DEFINE ended == EmitSimple(comp, "fatal")
           next == [create |-> "generate", generate |-> "record", record |-> "stitch"]
<1>1. /\ Running /\ instrNum = Length /\ pass # "stitch"
      /\ comp' = [NoCompiler EXCEPT !.maximum = ended.maximum, !.meta = ended.meta,
                                    !.nextID = ended.nextID, !.lowest = ended.lowest]
      /\ capacity' = [list \in NowAllocated |->
                        IF list \in DOMAIN capacity THEN capacity[list] ELSE ended.maximum[list]]
      /\ pass' = next[pass] /\ instrNum' = -1 /\ method' = method /\ decOps' = decOps
  BY DEF EndPass
<1>2. Length \in Nat /\ Shape(comp)
  BY <1>1, Counted DEF IInv, CompInv
<1>3. ended.meta = comp.meta
  BY <1>2, EmitFields DEF EmitSimple, Emitted
<1> HIDE DEF ended
<1>4. \/ (pass = "create" /\ pass' = "generate")
      \/ (pass = "generate" /\ pass' = "record")
      \/ (pass = "record" /\ pass' = "stitch")
  <2>1. pass \in {"create", "generate", "record"}
    BY <1>1 DEF Running
  <2> QED
    BY <1>1, <2>1
<1>5. DOMAIN capacity' = NowAllocated
  BY <1>1
<1>6. PassInv'
  <2>1. pass' = "generate" => DOMAIN capacity' = Stacks
    BY <1>4, <1>5 DEF NowAllocated
  <2>2. pass' \in {"record", "stitch"} => DOMAIN capacity' = Stacks \cup Outputs
    BY <1>4, <1>5 DEF NowAllocated, IInv, PassInv
  <2>3. instrNum' \in -1..Length /\ method' \in Programs /\ Length' = Length
    BY <1>1, <1>2 DEF IInv, PassInv, Length
  <2> QED
    BY <1>4, <2>1, <2>2, <2>3 DEF PassInv
<1>7. OpsInv'
  <2>1. OpsInv /\ Length' = Length
    BY <1>1 DEF IInv, Length
  <2>2. Len(decOps) = Length
    BY <1>1, <1>2, <2>1 DEF OpsInv
  <2> QED
    BY <1>1, <1>4, <2>1, <2>2 DEF OpsInv
<1>8. CompInv'
  <2>1. comp.meta = [i \in Labels |-> comp.meta[i]] /\ Labels' = Labels
    BY <1>1, <1>2 DEF Shape, Labels, Length
  <2>2. Emptied(comp') /\ comp'.meta = comp.meta
    BY <1>1, <1>3 DEF NoCompiler, Emptied, CompFields
  <2>3. Shape(comp') /\ comp'.ok
    BY <2>1, <2>2 DEF Shape, Emptied
  <2>4. instrNum' = -1 /\ pass' # "compiled"
    BY <1>1, <1>4
  <2> QED
    BY <1>1, <2>2, <2>3, <2>4, PrimedMembers DEF MembersInv
<1> QED
  BY <1>6, <1>7, <1>8 DEF IInv

LEMMA UnbalancedKeeps ==
  ASSUME IInv, Unbalanced
  PROVE  IInv'
  BY RejectKeeps DEF Unbalanced

\* Later operations begin at later instructions.
LEMMA StartGrows ==
  ASSUME NEW meta, NEW il, NEW i \in Int, Timed(meta, il, i),
         NEW a \in 0..i, NEW b \in 0..i, a <= b
  PROVE  StartOf(meta, a) \in Nat /\ StartOf(meta, b) \in Nat /\ StartOf(meta, a) <= StartOf(meta, b)
<1>1. /\ meta[a].translated \in Nat /\ meta[a].validation \in Nat
      /\ meta[b].translated \in Nat /\ meta[b].validation \in Nat
  BY DEF Timed
<1>2. a < b => StartOf(meta, a) <= meta[b].translated
  BY DEF Timed
<1>3. a = b \/ a < b
  OBVIOUS
<1> QED
  BY <1>1, <1>2, <1>3 DEF StartOf

\* Spans that are apart stay apart when they are turned into instructions.
LEMMA SpansTranslated ==
  ASSUME NEW c, NEW sj, NEW n, NEW i \in Int, IsList(c.journal),
         \A k \in 1..Len(c.journal) : IsRecord(c.journal[k], SpanFields),
         Spans(sj, c.journal, n, i), Timed(c.meta, c.il, i),
         NEW t, t = [k \in DOMAIN c.journal |-> TranslateJournal(c, c.journal[k])]
  PROVE  Len(t) \in Nat /\ DOMAIN t = 1..Len(t) /\ Translated(t)
<1>1. DOMAIN c.journal = 1..Len(c.journal) /\ Len(c.journal) \in Nat
  BY ListInSeq DEF IsList
<1>2. IsList(t) /\ Len(t) = Len(c.journal)
  <2> DEFINE f == [k \in 1..Len(c.journal) |-> TranslateJournal(c, c.journal[k])]
  <2>1. t = f
    BY <1>1
  <2>2. f \in Seq({f[k] : k \in 1..Len(c.journal)}) /\ Len(f) = Len(c.journal)
    BY <1>1
  <2> QED
    BY <2>1, <2>2, SeqIsList
<1>3. ASSUME NEW k \in 1..Len(c.journal)
      PROVE  /\ t[k].parameter = c.journal[k].parameter /\ t[k].offset = c.journal[k].offset
             /\ t[k].start = StartOf(c.meta, c.journal[k].start)
             /\ t[k].end = StartOf(c.meta, c.journal[k].end)
  <2> DEFINE q == c.journal[k]
  <2>1. t[k] = [q EXCEPT !.start = Start(c, @), !.end = Start(c, @)]
    BY <1>1 DEF TranslateJournal
  <2>2. q = [f \in SpanFields |-> q[f]]
    BY DEF IsRecord
  <2> HIDE DEF q
  <2> DEFINE s == t[k]
  <2>3. s = [[q EXCEPT !.start = Start(c, q.start)] EXCEPT !.end = Start(c, q.end)]
    BY <2>1, <2>2 DEF SpanFields
  <2> HIDE DEF s
  <2>4. s.start = Start(c, q.start) /\ s.end = Start(c, q.end)
    BY <2>2, <2>3 DEF SpanFields
  <2>5. s.parameter = q.parameter /\ s.offset = q.offset
    BY <2>2, <2>3 DEF SpanFields
  <2> QED
    BY <2>4, <2>5 DEF Start, StartOf, q, s
<1>4. /\ \A k \in 1..Len(c.journal) : ~c.journal[k].parameter => IsSpan(c.journal[k], i)
      /\ AllApart(c.journal)
  BY SpansParts DEF EachSpan
<1>5. ASSUME NEW k \in 1..Len(c.journal), ~t[k].parameter
      PROVE  t[k].start \in Nat /\ t[k].end \in Nat
  <2>1. IsSpan(c.journal[k], i)
    BY <1>3, <1>4, <1>5
  <2>2. c.journal[k].start \in 0..i /\ c.journal[k].end \in 0..i
    BY <2>1 DEF IsSpan
  <2>3. StartOf(c.meta, c.journal[k].start) \in Nat /\ StartOf(c.meta, c.journal[k].end) \in Nat
    BY <2>2, StartGrows
  <2> QED
    BY <1>3, <2>3
<1>6. ASSUME NEW k \in 1..Len(c.journal), NEW l \in 1..Len(c.journal), k < l,
             ~t[k].parameter, ~t[l].parameter, t[k].offset = t[l].offset
      PROVE  t[k].end <= t[l].start \/ t[l].end <= t[k].start
  <2> DEFINE p == c.journal[k]
             q == c.journal[l]
  <2>1. IsSpan(p, i) /\ IsSpan(q, i) /\ Apart(p, q) /\ p.offset = q.offset
    BY <1>3, <1>4, <1>6 DEF AllApart
  <2> HIDE DEF p, q
  <2>2. p.start \in 0..i /\ p.end \in 0..i /\ q.start \in 0..i /\ q.end \in 0..i
    BY <2>1 DEF IsSpan
  <2>3. p.end <= q.start \/ q.end <= p.start
    BY <2>1 DEF Apart
  <2>4. StartOf(c.meta, p.end) <= StartOf(c.meta, q.start) \/ StartOf(c.meta, q.end) <= StartOf(c.meta, p.start)
    BY <2>2, <2>3, StartGrows
  <2> QED
    BY <1>3, <2>4 DEF p, q
<1> QED
  BY <1>1, <1>2, <1>5, <1>6, ListInSeq DEF Translated, Apart

LEMMA FinishKeeps ==
  ASSUME IInv, Finish
  PROVE  IInv'
<1> DEFINE ended == EmitSimple(comp, "fatal")
<1>1. /\ pass = "stitch" /\ instrNum = Length /\ pass' = "compiled" /\ instrNum' = instrNum
      /\ method' = method /\ capacity' = capacity
      /\ comp' = [ended EXCEPT
                    !.journal = [k \in DOMAIN @ |-> TranslateJournal(ended, @[k])],
                    !.handlers = [k \in DOMAIN @ |-> TranslateHandler(ended, @[k])],
                    !.localstack = <<>>]
  BY DEF Finish
<1>2. Length \in Nat
  BY Counted DEF IInv
<1>3. Running /\ Recording
  BY <1>1 DEF IInv, PassInv, Running, Recording, Generating, Allocated
<1>4. Shape(comp) /\ Full(comp, Length - 1, NumParameters, Len(method.returns))
  <2>1. instrNum # -1
    BY <1>1, <1>2
  <2> QED
    BY <1>1, <1>3, <2>1 DEF IInv, CompInv
<1>5. Emitted(comp, ended)
  BY <1>4, EmitFields DEF EmitSimple
<1>6. PICK x : ended.il = Append(comp.il, x)
  BY <1>5 DEF Emitted
<1>7. Full(ended, Length - 1, NumParameters, Len(method.returns))
  BY <1>4, <1>5, <1>6, FullEmitted DEF Emitted
<1> DEFINE journal == [k \in DOMAIN ended.journal |-> TranslateJournal(ended, ended.journal[k])]
<1>8. comp'.journal = journal
  <2>1. Shape(ended)
    BY <1>5 DEF Emitted
  <2> HIDE DEF ended
  <2>2. ended = [f \in CompFields |-> ended[f]]
    BY <2>1 DEF Shape
  <2> QED
    BY <1>1, <2>2 DEF CompFields
<1> HIDE DEF ended
<1>9. Len(journal) \in Nat /\ DOMAIN journal = 1..Len(journal) /\ Translated(journal)
  <2>1. Length - 1 \in Int
    BY <1>2
  <2> QED
    BY <1>7, <2>1, SpansTranslated DEF Full, Lists
<1> HIDE DEF journal
<1>10. CompInv'
  <2>1. ~Running'
    BY <1>1 DEF Running
  <2> QED
    BY <1>1, <1>8, <1>9, <2>1, PrimedMembers
<1>11. OpsInv'
  BY <1>1 DEF OpsInv, Running
<1>12. PassInv'
  BY <1>1 DEF IInv, PassInv, Length
<1> QED
  BY <1>10, <1>11, <1>12 DEF IInv

\* The compiler has pushed r results.
Returned(c, r) ==
  /\ Shape(c) /\ c.ok
  /\ Recording => /\ Full(c, -1, 0, r) /\ c.opstack = <<>> /\ c.localstack = <<>>
                  /\ Len(c.actions) = r

LEMMA PushReturnReturned ==
  ASSUME NEW c, NEW r \in Nat, Returned(c, r)
  PROVE  Returned(PushList(c, "actions", "PushReturn"), r + 1)
<1> DEFINE d == PushList(c, "actions", "PushReturn")
<1>1. /\ Shape(d) /\ d.actions = Append(c.actions, IF Allocated("actions") THEN "PushReturn" ELSE Zeros["actions"])
      /\ \A g \in CompFields \ {"actions", "maximum"} : d[g] = c[g]
  BY PushListFields DEF Returned, Outputs
<1> HIDE DEF d
<1>2. /\ d.opstack = c.opstack /\ d.localstack = c.localstack /\ d.stackjournal = c.stackjournal
      /\ d.il = c.il /\ d.journal = c.journal /\ d.meta = c.meta /\ d.ok = c.ok
  BY <1>1 DEF CompFields
<1>3. ASSUME Recording
      PROVE  Full(d, -1, 0, r + 1) /\ d.opstack = <<>> /\ d.localstack = <<>> /\ Len(d.actions) = r + 1
  <2>1. Full(c, -1, 0, r) /\ c.opstack = <<>> /\ c.localstack = <<>> /\ Len(c.actions) = r
    BY <1>3 DEF Returned
  <2>2. d.actions = Append(c.actions, "PushReturn")
    BY <1>1, <1>3 DEF Recording, Outputs
  <2>3. IsList(c.actions)
    BY <2>1 DEF Full, Lists
  <2>4. IsList(d.actions) /\ Len(d.actions) = r + 1
    BY <2>1, <2>2, <2>3, AppendList
  <2>5. Replay(d.actions) = Append(Replay(c.actions), r)
    BY <2>1, <2>2, <2>3, ReplayAppend
  <2>6. Replay(d.actions) = Pushed(<<>>, <<>>, r + 1)
    BY <2>1, <2>5, PushedResult DEF Full
  <2>7. Lists(d)
    BY <1>2, <2>1, <2>4 DEF Full, Lists
  <2> QED
    BY <1>2, <2>1, <2>4, <2>6, <2>7 DEF Full
<1> QED
  BY <1>1, <1>2, <1>3 DEF Returned, d

LEMMA PushReturnsReturned ==
  ASSUME NEW c, Returned(c, 0), NEW n \in Nat
  PROVE  Returned(PushReturns(c, n), n)
<1>1. PICK f : ReturnPushesTo(c, n, f, n) /\ PushReturns(c, n) = f[n]
  BY ReturnPushesAre
<1> DEFINE S == {m \in Nat : m <= n => Returned(f[m], m)}
<1>2. 0 \in S
  BY <1>1 DEF ReturnPushesTo
<1>3. ASSUME NEW m \in Nat, m \in S
      PROVE  m + 1 \in S
  <2>1. SUFFICES ASSUME m + 1 <= n
                 PROVE  Returned(f[m + 1], m + 1)
    OBVIOUS
  <2>2. f[m + 1] = PushList(f[m], "actions", "PushReturn")
    <3>1. m + 1 \in 0..n /\ m + 1 # 0 /\ m + 1 - 1 = m
      BY <2>1
    <3> QED
      BY <1>1, <3>1 DEF ReturnPushesTo
  <2>3. Returned(f[m], m)
    BY <1>3, <2>1
  <2> QED
    BY <2>2, <2>3, PushReturnReturned
<1> HIDE DEF S
<1>4. n \in S
  BY <1>2, <1>3, SetInduction
<1> QED
  BY <1>1, <1>4 DEF S

\* The compiler has pushed n parameters after r results.
Entered(c, n, r) ==
  /\ Shape(c)
  /\ Recording /\ c.ok => Full(c, -1, n, r) /\ c.opstack = <<>> /\ Len(c.localstack) = n

LEMMA JournalParameter ==
  ASSUME NEW c, NEW n, NEW r, NEW i, Full(c, i, n, r), NEW q, IsRecord(q, SpanFields), q.parameter,
         NEW d, SameStacks(c, d), d.il = c.il, d.meta = c.meta, d.journal = Append(c.journal, q)
  PROVE  Full(d, i, n, r)
<1>1. Lists(c) /\ IsList(c.journal) /\ \A k \in 1..Len(c.journal) : IsRecord(c.journal[k], SpanFields)
  BY DEF Full, Lists
<1>2. Spans(c.stackjournal, d.journal, n, i)
  BY <1>1, AppendSpan DEF Full
<1>3. IsList(d.journal) /\ \A k \in 1..Len(d.journal) : IsRecord(d.journal[k], SpanFields)
  <2>1. IsList(d.journal) /\ Len(d.journal) = Len(c.journal) + 1 /\ d.journal[Len(c.journal) + 1] = q
        /\ \A k \in 1..Len(c.journal) : d.journal[k] = c.journal[k]
    BY <1>1, AppendList
  <2>2. Len(c.journal) \in Nat
    BY <1>1 DEF IsList
  <2>3. \A k \in 1..Len(c.journal) + 1 : k \in 1..Len(c.journal) \/ k = Len(c.journal) + 1
    BY <2>2
  <2> QED
    BY <1>1, <2>1, <2>3
<1>4. Lists(d)
  BY <1>1, <1>3 DEF Lists, SameStacks
<1> QED
  BY <1>2, <1>4 DEF Full, SameStacks

LEMMA ParameterEntered ==
  ASSUME instrNum = -1, NEW c, NEW n \in Nat, NEW r \in Nat, Entered(c, n, r), NEW p
  PROVE  Entered(Parameter(c, p), n + 1, r)
<1> DEFINE param == [pointer |-> TypeIsRefStruct(p.type), parameter |-> TRUE, const |-> p.const,
                     notNull |-> p.notNull]
           d == AppendLocal(c, p.type, 0, param)
           fits == p.type \notin {Null, Varying} /\ (p.notNull => p.const)
           q == [start |-> 0, end |-> 0, offset |-> 0, type |-> p.type, parameter |-> TRUE]
           l == NewLocal(c, p.type, 0, param)
           e == LocalEntry(c, p.type, param)
           g == Require(d, fits)
           h == PushList(g, "journal", q)
<1>1. Parameter(c, p) = h
  BY DEF Parameter
<1>2. LocalAppended(c, d, l, e)
  BY AppendLocalFields DEF Entered
<1>3. l.parameter /\ l.sa = Len(c.actions) /\ l.offset = 0 /\ e.offset = 0 /\ e.start = -1 /\ e.vst = "Value"
      /\ IsEntry(e)
  BY DEF NewLocal, LocalEntry, LocalOffset, IsEntry, IsRecord, EntryFields
<1>4. IsRecord(q, SpanFields) /\ q.parameter
  BY DEF IsRecord, SpanFields
<1> HIDE DEF d, l, e, q, fits, param
<1>5. ASSUME Recording, d.ok
      PROVE  Full(d, -1, n + 1, r) /\ d.opstack = <<>> /\ Len(d.localstack) = n + 1
  <2>1. Full(c, -1, n, r) /\ c.opstack = <<>> /\ Len(c.localstack) = n
    BY <1>2, <1>5 DEF LocalAppended, Entered
  <2>2. PICK a : a # "Pop" /\ d.actions = Append(c.actions, a)
    BY <1>2, <1>5 DEF LocalAppended
  <2>3. /\ d.localstack = Append(c.localstack, l) /\ d.stackjournal = Append(c.stackjournal, e)
        /\ d.opstack = c.opstack /\ d.il = c.il /\ d.journal = c.journal /\ d.meta = c.meta
    BY <1>2, <1>5 DEF LocalAppended
  <2>4. Placed(e)
    BY <1>3 DEF Placed
  <2>5. Full(d, -1, n + 1, r)
    <3>1. n + 1 \in Nat /\ -1 \in Int
      OBVIOUS
    <3>2. l.sa = Len(c.actions) /\ l.offset = e.offset /\ e.start = -1 /\ IsEntry(e) /\ l.parameter
          /\ l.offset = 0
      BY <1>3
    <3> QED
      BY <2>1, <2>2, <2>3, <2>4, <3>1, <3>2, FullWithLocal
  <2>6. IsList(c.localstack)
    BY <2>1 DEF Full, Lists
  <2>7. Len(d.localstack) = n + 1
    BY <2>1, <2>3, <2>6, AppendList
  <2> QED
    BY <2>1, <2>3, <2>5, <2>7
<1>6. /\ Shape(g) /\ (g.ok => d.ok) /\ SameStacks(d, g) /\ g.il = d.il /\ g.journal = d.journal
      /\ g.meta = d.meta
  BY <1>2, RequireFields DEF LocalAppended
<1> HIDE DEF g
<1>7. /\ Shape(h) /\ h.journal = Append(g.journal, IF Allocated("journal") THEN q ELSE Zeros["journal"])
      /\ \A f \in CompFields \ {"journal", "maximum"} : h[f] = g[f]
  BY <1>6, PushListFields DEF Outputs
<1> HIDE DEF h
<1>8. SameStacks(g, h) /\ h.il = g.il /\ h.meta = g.meta /\ h.ok = g.ok
  BY <1>7 DEF CompFields, SameStacks
<1>9. ASSUME Recording, h.ok
      PROVE  Full(h, -1, n + 1, r) /\ h.opstack = <<>> /\ Len(h.localstack) = n + 1
  <2>1. Full(d, -1, n + 1, r) /\ d.opstack = <<>> /\ Len(d.localstack) = n + 1
    BY <1>5, <1>6, <1>8, <1>9
  <2>2. h.journal = Append(d.journal, q)
    BY <1>6, <1>7, <1>9 DEF Recording, Outputs
  <2>3. SameStacks(d, h) /\ h.il = d.il /\ h.meta = d.meta
    BY <1>6, <1>8 DEF SameStacks
  <2>4. Full(h, -1, n + 1, r)
    BY <1>4, <2>1, <2>2, <2>3, JournalParameter
  <2> QED
    BY <2>1, <2>3, <2>4 DEF SameStacks
<1> QED
  BY <1>1, <1>7, <1>9 DEF Entered

LEMMA ParametersEntered ==
  ASSUME instrNum = -1, NEW c, NEW r \in Nat, Entered(c, 0, r), NEW params, Len(params) \in Nat
  PROVE  Entered(Parameters(c, params), Len(params), r)
<1> DEFINE n == Len(params)
<1>1. PICK f : ParameterPushesTo(c, params, f, n) /\ Parameters(c, params) = f[n]
  BY ParameterPushesAre
<1> DEFINE S == {m \in Nat : m <= n => Entered(f[m], m, r)}
<1>2. 0 \in S
  BY <1>1 DEF ParameterPushesTo
<1>3. ASSUME NEW m \in Nat, m \in S
      PROVE  m + 1 \in S
  <2>1. SUFFICES ASSUME m + 1 <= n
                 PROVE  Entered(f[m + 1], m + 1, r)
    OBVIOUS
  <2>2. f[m + 1] = Parameter(f[m], params[m + 1])
    <3>1. m + 1 \in 0..n /\ m + 1 # 0 /\ m + 1 - 1 = m
      BY <2>1
    <3> QED
      BY <1>1, <3>1 DEF ParameterPushesTo
  <2>3. Entered(f[m], m, r)
    BY <1>3, <2>1
  <2> QED
    BY <2>2, <2>3, ParameterEntered
<1> HIDE DEF S
<1>4. n \in S
  BY <1>2, <1>3, SetInduction
<1> QED
  BY <1>1, <1>4 DEF S

LEMMA BeginPassKeeps ==
  ASSUME IInv, BeginPass
  PROVE  IInv'
<1> DEFINE r == Len(method.returns)
           returned == PushReturns(comp, r)
           c == Parameters(returned, method.params)
           typed == \A k \in DOMAIN method.returns : method.returns[k] \notin {Null, Varying}
<1>1. /\ Running /\ instrNum = -1
      /\ IF c.ok /\ typed
         THEN /\ comp' = c /\ instrNum' = 0
              /\ UNCHANGED <<method, decOps, pass, capacity, recorded, frames>>
         ELSE Reject
  BY DEF BeginPass
<1>2. Length \in Nat /\ NumParameters \in Nat /\ r \in Nat
  BY Counted DEF IInv
<1>3. Returned(comp, 0)
  <2>1. Shape(comp) /\ comp.ok /\ (Recording => Emptied(comp))
    BY <1>1 DEF IInv, CompInv
  <2>2. Emptied(comp) => Full(comp, -1, 0, 0) /\ comp.opstack = <<>> /\ comp.localstack = <<>>
                         /\ Len(comp.actions) = 0
    BY NothingFull, EmptyList DEF Emptied
  <2> QED
    BY <2>1, <2>2 DEF Returned
<1>4. Returned(returned, r)
  BY <1>2, <1>3, PushReturnsReturned
<1>5. Entered(returned, 0, r)
  BY <1>4, EmptyList DEF Returned, Entered
<1>6. Entered(c, NumParameters, r)
  BY <1>1, <1>2, <1>5, ParametersEntered DEF NumParameters
<1> HIDE DEF c, typed
<1>7. CASE c.ok /\ typed
  <2>1. comp' = c /\ instrNum' = 0 /\ UNCHANGED <<method, decOps, pass, capacity>>
    BY <1>1, <1>7
  <2>2. PassInv'
    BY <1>2, <2>1 DEF IInv, PassInv, Length
  <2>3. OpsInv'
    BY <1>1, <2>1 DEF IInv, OpsInv, Running, Length
  <2>4. Recording' <=> Recording
    BY <2>1 DEF Recording, Generating, Allocated
  <2>5. Recording => Full(c, 0 - 1, NumParameters, r)
    BY <1>6, <1>7 DEF Entered
  <2>6. CompInv'
    BY <1>1, <1>6, <1>7, <2>1, <2>4, <2>5, PrimedMembers DEF MembersInv, Entered, Running
  <2> QED
    BY <2>2, <2>3, <2>6 DEF IInv
<1>8. CASE ~(c.ok /\ typed)
  BY <1>1, <1>8, RejectKeeps
<1> QED
  BY <1>7, <1>8

(***************************************************************************)
(* An operation that is accepted.                                          *)
(***************************************************************************)

LEMMA OperationBegins ==
  ASSUME IInv, Running, instrNum \in Labels
  PROVE  Context /\ ReadyToCall(AddDebugInfo(MarkOp(comp)))
<1>1. Length \in Nat /\ NumParameters \in Nat /\ Len(method.returns) \in Nat
  BY Counted DEF IInv
<1>2. instrNum \in Nat /\ instrNum # -1
  BY <1>1 DEF Labels
<1>3. Context
  BY <1>1, <1>2 DEF Context
<1>4. Shape(comp) /\ comp.ok /\ SoundWith(comp, instrNum - 1, NumParameters, Len(method.returns))
  BY <1>2 DEF IInv, CompInv, SoundWith
<1> DEFINE marked == MarkOp(comp)
           c == AddDebugInfo(marked)
<1>5. Ready(marked)
  BY <1>3, <1>4, MarkOpReady
<1>6. marked.ok
  BY <1>4 DEF MarkOp, Shape, CompFields
<1> HIDE DEF marked
<1>7. Ready(c)
  BY <1>3, <1>5, AddDebugInfoReady
<1>8. c.ok
  <2> DEFINE emitted == EmitSimple(marked, "debuginfo")
  <2>1. Shape(emitted) /\ emitted.ok = marked.ok
    BY <1>5, EmitFields DEF Ready, Sound, SoundWith, EmitSimple, Emitted
  <2> DEFINE told == [emitted EXCEPT !.meta[instrNum].translated = @ + 1]
             d == IF Len(marked.il) = marked.lastDebug THEN marked ELSE told
  <2>2. c = IF instrNum \notin method.debug THEN marked ELSE [d EXCEPT !.lastDebug = Len(d.il)]
    BY DEF AddDebugInfo
  <2> HIDE DEF emitted, c
  <2>3. told = [f \in CompFields |-> told[f]] /\ told.ok = emitted.ok
    BY <2>1 DEF Shape, CompFields
  <2> HIDE DEF told
  <2>4. d = [f \in CompFields |-> d[f]] /\ d.ok
    BY <1>5, <1>6, <2>1, <2>3 DEF Ready, Sound, SoundWith, Shape
  <2> HIDE DEF d
  <2>5. [d EXCEPT !.lastDebug = Len(d.il)].ok
    BY <2>4 DEF CompFields
  <2> QED
    BY <1>6, <2>2, <2>5
<1> QED
  BY <1>3, <1>7, <1>8 DEF ReadyToCall, marked

\* The operands of the operation that is compiled.
Typed(o) == o.sint1 \in Int /\ o.sint2 \in Int /\ Len(o.props) \in Nat

LEMMA FetchedTyped ==
  ASSUME IInv, Running, instrNum \in Labels, NEW o \in Fetched
  PROVE  o \in method.ops[instrNum + 1] /\ Typed(o)
<1>1. Length \in Nat /\ instrNum + 1 \in 1..Length
  BY Counted DEF IInv, Labels
<1>2. o \in method.ops[instrNum + 1]
  <2>1. CASE pass = "create"
    BY <2>1 DEF Fetched
  <2>2. CASE pass # "create"
    <3>1. Len(decOps) = Length /\ \A k \in 1..Len(decOps) : decOps[k] \in method.ops[k]
      BY <2>2 DEF IInv, OpsInv
    <3> QED
      BY <1>1, <2>2, <3>1 DEF Fetched
  <2> QED
    BY <2>1, <2>2
<1>3. method \in Programs
  BY DEF IInv, PassInv
<1> QED
  BY <1>1, <1>2, <1>3, ProgramAssumption DEF Length, Typed

LEMMA ProceedKeeps ==
  ASSUME IInv, Running, instrNum \in Labels, NEW o \in Fetched, NEW c, Sound(c), c.ok, Proceed(o, c)
  PROVE  IInv'
<1>1. /\ comp' = c /\ instrNum' = instrNum + 1 /\ method' = method /\ pass' = pass
      /\ capacity' = capacity
      /\ decOps' = IF pass = "create" THEN Append(decOps, o) ELSE decOps
  BY DEF Proceed
<1>2. Length \in Nat /\ instrNum \in 0..Length - 1
  BY Counted DEF IInv, Labels
<1>3. PassInv'
  BY <1>1, <1>2 DEF IInv, PassInv, Length
<1>4. OpsInv'
  <2>1. IsList(decOps) /\ \A k \in 1..Len(decOps) : k <= Length /\ decOps[k] \in method.ops[k]
    BY DEF IInv, OpsInv
  <2>2. CASE pass = "create"
    <3>1. Len(decOps) = instrNum
      BY <1>2, <2>2 DEF IInv, OpsInv
    <3>2. decOps' = Append(decOps, o)
      BY <1>1, <2>2
    <3>3. /\ IsList(decOps') /\ Len(decOps') = instrNum + 1 /\ decOps'[instrNum + 1] = o
          /\ \A k \in 1..instrNum : decOps'[k] = decOps[k]
      BY <2>1, <3>1, <3>2, AppendList
    <3>4. o \in method.ops[instrNum + 1]
      BY FetchedTyped
    <3>5. ASSUME NEW k \in 1..Len(decOps')
          PROVE  k <= Length /\ decOps'[k] \in method.ops[k]
      <4>1. k \in 1..instrNum \/ k = instrNum + 1
        BY <1>2, <3>3
      <4> QED
        BY <1>2, <2>1, <3>1, <3>3, <3>4, <4>1
    <3> QED
      BY <1>1, <1>2, <2>2, <3>3, <3>5 DEF OpsInv, Length
  <2>3. CASE pass # "create"
    BY <1>1, <2>1, <2>3 DEF IInv, OpsInv, Length
  <2> QED
    BY <2>2, <2>3
<1>5. CompInv'
  <2>1. Recording' <=> Recording
    BY <1>1 DEF Recording, Generating, Allocated
  <2>2. Shape(c) /\ (Recording => Full(c, instrNum, NumParameters, Len(method.returns)))
    BY DEF Sound, SoundWith
  <2>3. instrNum' # -1 /\ instrNum' - 1 = instrNum /\ pass' # "compiled"
    BY <1>1, <1>2 DEF Running
  <2> QED
    BY <1>1, <2>1, <2>2, <2>3, PrimedMembers DEF MembersInv
<1> QED
  BY <1>3, <1>4, <1>5 DEF IInv

\* The compiler when the operation that comes next is about to be compiled.
Entry == AddDebugInfo(MarkOp(comp))

LEMMA OperationKeeps ==
  ASSUME IInv, Running, instrNum \in Labels, NEW o \in Fetched, NEW c, Sound(c),
         IF c.ok THEN Proceed(o, c) ELSE Reject
  PROVE  IInv'
  BY ProceedKeeps, RejectKeeps

\* What an operation starts from.
LEMMA Begins ==
  ASSUME IInv, Running, instrNum \in Labels
  PROVE  /\ Context /\ Sound(Entry) /\ ReadyToCall(Entry)
         /\ \A o \in Fetched : Typed(o)
  BY OperationBegins, FetchedTyped DEF Entry, ReadyToCall, Ready

LEMMA StartBarrierKeeps ==
  ASSUME IInv, StartBarrier
  PROVE  IInv'
<1>1. /\ Running /\ instrNum \in Labels
      /\ \E o \in Fetched : LET c == StartBarrierResult(Entry, o) IN IF c.ok THEN Proceed(o, c) ELSE Reject
  BY DEF StartBarrier, Compile, Entry
<1>2. PICK o \in Fetched : LET c == StartBarrierResult(Entry, o) IN IF c.ok THEN Proceed(o, c) ELSE Reject
  BY <1>1
<1>3. Sound(StartBarrierResult(Entry, o))
  BY <1>1, Begins, StartBarrierResultSound
<1> QED
  BY <1>1, <1>2, <1>3, OperationKeeps

LEMMA EndBarrierKeeps ==
  ASSUME IInv, EndBarrier
  PROVE  IInv'
<1>1. /\ Running /\ instrNum \in Labels
      /\ \E o \in Fetched : LET c == EndBarrierResult(Entry, o) IN IF c.ok THEN Proceed(o, c) ELSE Reject
  BY DEF EndBarrier, Compile, Entry
<1>2. PICK o \in Fetched : LET c == EndBarrierResult(Entry, o) IN IF c.ok THEN Proceed(o, c) ELSE Reject
  BY <1>1
<1>3. Sound(EndBarrierResult(Entry, o))
  BY <1>1, Begins, EndBarrierResultSound
<1> QED
  BY <1>1, <1>2, <1>3, OperationKeeps

LEMMA ThrowKeeps ==
  ASSUME IInv, Throw
  PROVE  IInv'
<1>1. /\ Running /\ instrNum \in Labels
      /\ \E o \in Fetched : LET c == ThrowResult(Entry, o) IN IF c.ok THEN Proceed(o, c) ELSE Reject
  BY DEF Throw, Compile, Entry
<1>2. PICK o \in Fetched : LET c == ThrowResult(Entry, o) IN IF c.ok THEN Proceed(o, c) ELSE Reject
  BY <1>1
<1>3. Sound(ThrowResult(Entry, o))
  BY <1>1, Begins, ThrowResultSound
<1> QED
  BY <1>1, <1>2, <1>3, OperationKeeps

LEMMA TryKeeps ==
  ASSUME IInv, Try
  PROVE  IInv'
<1>1. /\ Running /\ instrNum \in Labels
      /\ \E o \in Fetched : LET c == TryResult(Entry, o) IN IF c.ok THEN Proceed(o, c) ELSE Reject
  BY DEF Try, Compile, Entry
<1>2. PICK o \in Fetched : LET c == TryResult(Entry, o) IN IF c.ok THEN Proceed(o, c) ELSE Reject
  BY <1>1
<1>3. Sound(TryResult(Entry, o))
  BY <1>1, Begins, TryResultSound
<1> QED
  BY <1>1, <1>2, <1>3, OperationKeeps

LEMMA CatchKeeps ==
  ASSUME IInv, Catch
  PROVE  IInv'
<1>1. /\ Running /\ instrNum \in Labels
      /\ \E o \in Fetched : LET c == CatchResult(Entry, o) IN IF c.ok THEN Proceed(o, c) ELSE Reject
  BY DEF Catch, Compile, Entry
<1>2. PICK o \in Fetched : LET c == CatchResult(Entry, o) IN IF c.ok THEN Proceed(o, c) ELSE Reject
  BY <1>1
<1>3. Sound(CatchResult(Entry, o))
  BY <1>1, Begins, CatchResultSound
<1> QED
  BY <1>1, <1>2, <1>3, OperationKeeps

LEMMA TryCastKeeps ==
  ASSUME IInv, TryCast
  PROVE  IInv'
<1>1. /\ Running /\ instrNum \in Labels
      /\ \E o \in Fetched : LET c == TryCastResult(Entry, o) IN IF c.ok THEN Proceed(o, c) ELSE Reject
  BY DEF TryCast, Compile, Entry
<1>2. PICK o \in Fetched : LET c == TryCastResult(Entry, o) IN IF c.ok THEN Proceed(o, c) ELSE Reject
  BY <1>1
<1>3. Sound(TryCastResult(Entry, o))
  BY <1>1, Begins, TryCastResultSound
<1> QED
  BY <1>1, <1>2, <1>3, OperationKeeps

LEMMA JumpKeeps ==
  ASSUME IInv, Jump
  PROVE  IInv'
<1>1. /\ Running /\ instrNum \in Labels
      /\ \E o \in Fetched : LET c == JumpResult(Entry, o) IN IF c.ok THEN Proceed(o, c) ELSE Reject
  BY DEF Jump, Compile, Entry
<1>2. PICK o \in Fetched : LET c == JumpResult(Entry, o) IN IF c.ok THEN Proceed(o, c) ELSE Reject
  BY <1>1
<1>3. Sound(JumpResult(Entry, o))
  BY <1>1, Begins, JumpResultSound
<1> QED
  BY <1>1, <1>2, <1>3, OperationKeeps

LEMMA JumpIfKeeps ==
  ASSUME IInv, JumpIf
  PROVE  IInv'
<1>1. /\ Running /\ instrNum \in Labels
      /\ \E o \in Fetched : LET c == JumpIfResult(Entry, o) IN IF c.ok THEN Proceed(o, c) ELSE Reject
  BY DEF JumpIf, Compile, Entry
<1>2. PICK o \in Fetched : LET c == JumpIfResult(Entry, o) IN IF c.ok THEN Proceed(o, c) ELSE Reject
  BY <1>1
<1>3. Sound(JumpIfResult(Entry, o))
  BY <1>1, Begins, JumpIfResultSound
<1> QED
  BY <1>1, <1>2, <1>3, OperationKeeps

LEMMA JumpIfTrueKeeps ==
  ASSUME IInv, JumpIfTrue
  PROVE  IInv'
<1>1. /\ Running /\ instrNum \in Labels
      /\ \E o \in Fetched : LET c == JumpIfTrueResult(Entry, o) IN IF c.ok THEN Proceed(o, c) ELSE Reject
  BY DEF JumpIfTrue, Compile, Entry
<1>2. PICK o \in Fetched : LET c == JumpIfTrueResult(Entry, o) IN IF c.ok THEN Proceed(o, c) ELSE Reject
  BY <1>1
<1>3. Sound(JumpIfTrueResult(Entry, o))
  BY <1>1, Begins, JumpIfTrueResultSound
<1> QED
  BY <1>1, <1>2, <1>3, OperationKeeps

LEMMA JumpIfEqualKeeps ==
  ASSUME IInv, JumpIfEqual
  PROVE  IInv'
<1>1. /\ Running /\ instrNum \in Labels
      /\ \E o \in Fetched : LET c == JumpIfEqualResult(Entry, o) IN IF c.ok THEN Proceed(o, c) ELSE Reject
  BY DEF JumpIfEqual, Compile, Entry
<1>2. PICK o \in Fetched : LET c == JumpIfEqualResult(Entry, o) IN IF c.ok THEN Proceed(o, c) ELSE Reject
  BY <1>1
<1>3. Sound(JumpIfEqualResult(Entry, o))
  BY <1>1, Begins, JumpIfEqualResultSound
<1> QED
  BY <1>1, <1>2, <1>3, OperationKeeps

LEMMA CallKeeps ==
  ASSUME IInv, Call
  PROVE  IInv'
<1>1. /\ Running /\ instrNum \in Labels
      /\ \E o \in Fetched : LET c == CallResult(Entry, o) IN IF c.ok THEN Proceed(o, c) ELSE Reject
  BY DEF Call, Compile, Entry
<1>2. PICK o \in Fetched : LET c == CallResult(Entry, o) IN IF c.ok THEN Proceed(o, c) ELSE Reject
  BY <1>1
<1>3. Sound(CallResult(Entry, o))
  BY <1>1, Begins, CallResultSound
<1> QED
  BY <1>1, <1>2, <1>3, OperationKeeps

LEMMA CallVirtualKeeps ==
  ASSUME IInv, CallVirtual
  PROVE  IInv'
<1>1. /\ Running /\ instrNum \in Labels
      /\ \E o \in Fetched : LET c == CallVirtualResult(Entry, o) IN IF c.ok THEN Proceed(o, c) ELSE Reject
  BY DEF CallVirtual, Compile, Entry
<1>2. PICK o \in Fetched : LET c == CallVirtualResult(Entry, o) IN IF c.ok THEN Proceed(o, c) ELSE Reject
  BY <1>1
<1>3. Sound(CallVirtualResult(Entry, o))
  BY <1>1, Begins, CallVirtualResultSound
<1> QED
  BY <1>1, <1>2, <1>3, OperationKeeps

LEMMA CallDelegateKeeps ==
  ASSUME IInv, CallDelegate
  PROVE  IInv'
<1>1. /\ Running /\ instrNum \in Labels
      /\ \E o \in Fetched : LET c == CallDelegateResult(Entry, o) IN IF c.ok THEN Proceed(o, c) ELSE Reject
  BY DEF CallDelegate, Compile, Entry
<1>2. PICK o \in Fetched : LET c == CallDelegateResult(Entry, o) IN IF c.ok THEN Proceed(o, c) ELSE Reject
  BY <1>1
<1>3. Sound(CallDelegateResult(Entry, o))
  BY <1>1, Begins, CallDelegateResultSound
<1> QED
  BY <1>1, <1>2, <1>3, OperationKeeps

LEMMA AllocLocalKeeps ==
  ASSUME IInv, AllocLocal
  PROVE  IInv'
<1>1. /\ Running /\ instrNum \in Labels
      /\ \E o \in Fetched : LET c == AllocLocalResult(Entry, o) IN IF c.ok THEN Proceed(o, c) ELSE Reject
  BY DEF AllocLocal, Compile, Entry
<1>2. PICK o \in Fetched : LET c == AllocLocalResult(Entry, o) IN IF c.ok THEN Proceed(o, c) ELSE Reject
  BY <1>1
<1>3. Sound(AllocLocalResult(Entry, o))
  BY <1>1, Begins, AllocLocalResultSound
<1> QED
  BY <1>1, <1>2, <1>3, OperationKeeps

LEMMA CreateLocalKeeps ==
  ASSUME IInv, CreateLocal
  PROVE  IInv'
<1>1. /\ Running /\ instrNum \in Labels
      /\ \E o \in Fetched : LET c == CreateLocalResult(Entry, o) IN IF c.ok THEN Proceed(o, c) ELSE Reject
  BY DEF CreateLocal, Compile, Entry
<1>2. PICK o \in Fetched : LET c == CreateLocalResult(Entry, o) IN IF c.ok THEN Proceed(o, c) ELSE Reject
  BY <1>1
<1>3. Sound(CreateLocalResult(Entry, o))
  BY <1>1, Begins, CreateLocalResultSound
<1> QED
  BY <1>1, <1>2, <1>3, OperationKeeps

LEMMA RemoveLocalKeeps ==
  ASSUME IInv, RemoveLocal
  PROVE  IInv'
<1>1. /\ Running /\ instrNum \in Labels
      /\ \E o \in Fetched : LET c == RemoveLocalResult(Entry, o) IN IF c.ok THEN Proceed(o, c) ELSE Reject
  BY DEF RemoveLocal, Compile, Entry
<1>2. PICK o \in Fetched : LET c == RemoveLocalResult(Entry, o) IN IF c.ok THEN Proceed(o, c) ELSE Reject
  BY <1>1
<1>3. Sound(RemoveLocalResult(Entry, o))
  BY <1>1, Begins, RemoveLocalResultSound
<1> QED
  BY <1>1, <1>2, <1>3, OperationKeeps

LEMMA PushEmptyKeeps ==
  ASSUME IInv, PushEmpty
  PROVE  IInv'
<1>1. /\ Running /\ instrNum \in Labels
      /\ \E o \in Fetched : LET c == PushEmptyResult(Entry, o) IN IF c.ok THEN Proceed(o, c) ELSE Reject
  BY DEF PushEmpty, Compile, Entry
<1>2. PICK o \in Fetched : LET c == PushEmptyResult(Entry, o) IN IF c.ok THEN Proceed(o, c) ELSE Reject
  BY <1>1
<1>3. Sound(PushEmptyResult(Entry, o))
  BY <1>1, Begins, PushEmptyResultSound
<1> QED
  BY <1>1, <1>2, <1>3, OperationKeeps

LEMMA NewInstanceKeeps ==
  ASSUME IInv, NewInstance
  PROVE  IInv'
<1>1. /\ Running /\ instrNum \in Labels
      /\ \E o \in Fetched : LET c == NewInstanceResult(Entry, o) IN IF c.ok THEN Proceed(o, c) ELSE Reject
  BY DEF NewInstance, Compile, Entry
<1>2. PICK o \in Fetched : LET c == NewInstanceResult(Entry, o) IN IF c.ok THEN Proceed(o, c) ELSE Reject
  BY <1>1
<1>3. Sound(NewInstanceResult(Entry, o))
  BY <1>1, Begins, NewInstanceResultSound DEF Typed
<1> QED
  BY <1>1, <1>2, <1>3, OperationKeeps

LEMMA NewInstanceSetKeeps ==
  ASSUME IInv, NewInstanceSet
  PROVE  IInv'
<1>1. /\ Running /\ instrNum \in Labels
      /\ \E o \in Fetched : LET c == NewInstanceSetResult(Entry, o) IN IF c.ok THEN Proceed(o, c) ELSE Reject
  BY DEF NewInstanceSet, Compile, Entry
<1>2. PICK o \in Fetched : LET c == NewInstanceSetResult(Entry, o) IN IF c.ok THEN Proceed(o, c) ELSE Reject
  BY <1>1
<1>3. Sound(NewInstanceSetResult(Entry, o))
  BY <1>1, Begins, NewInstanceSetResultSound DEF Typed
<1> QED
  BY <1>1, <1>2, <1>3, OperationKeeps

LEMMA PushNullKeeps ==
  ASSUME IInv, PushNull
  PROVE  IInv'
<1>1. /\ Running /\ instrNum \in Labels
      /\ \E o \in Fetched : LET c == NullResult(Entry, o) IN IF c.ok THEN Proceed(o, c) ELSE Reject
  BY DEF PushNull, Compile, Entry
<1>2. PICK o \in Fetched : LET c == NullResult(Entry, o) IN IF c.ok THEN Proceed(o, c) ELSE Reject
  BY <1>1
<1>3. Sound(NullResult(Entry, o))
  BY <1>1, Begins, NullResultSound
<1> QED
  BY <1>1, <1>2, <1>3, OperationKeeps

LEMMA PinLocalKeeps ==
  ASSUME IInv, PinLocal
  PROVE  IInv'
<1>1. /\ Running /\ instrNum \in Labels
      /\ \E o \in Fetched : LET c == PinLocalResult(Entry, o) IN IF c.ok THEN Proceed(o, c) ELSE Reject
  BY DEF PinLocal, Compile, Entry
<1>2. PICK o \in Fetched : LET c == PinLocalResult(Entry, o) IN IF c.ok THEN Proceed(o, c) ELSE Reject
  BY <1>1
<1>3. Sound(PinLocalResult(Entry, o))
  BY <1>1, Begins, PinLocalResultSound
<1> QED
  BY <1>1, <1>2, <1>3, OperationKeeps

LEMMA ToVaryingKeeps ==
  ASSUME IInv, ToVarying
  PROVE  IInv'
<1>1. /\ Running /\ instrNum \in Labels
      /\ \E o \in Fetched : LET c == ToVaryingResult(Entry, o) IN IF c.ok THEN Proceed(o, c) ELSE Reject
  BY DEF ToVarying, Compile, Entry
<1>2. PICK o \in Fetched : LET c == ToVaryingResult(Entry, o) IN IF c.ok THEN Proceed(o, c) ELSE Reject
  BY <1>1
<1>3. Sound(ToVaryingResult(Entry, o))
  BY <1>1, Begins, ToVaryingResultSound
<1> QED
  BY <1>1, <1>2, <1>3, OperationKeeps

LEMMA ArrayIndexKeeps ==
  ASSUME IInv, ArrayIndex
  PROVE  IInv'
<1>1. /\ Running /\ instrNum \in Labels
      /\ \E o \in Fetched : LET c == ArrayIndexResult(Entry, o) IN IF c.ok THEN Proceed(o, c) ELSE Reject
  BY DEF ArrayIndex, Compile, Entry
<1>2. PICK o \in Fetched : LET c == ArrayIndexResult(Entry, o) IN IF c.ok THEN Proceed(o, c) ELSE Reject
  BY <1>1
<1>3. Sound(ArrayIndexResult(Entry, o))
  BY <1>1, Begins, ArrayIndexResultSound DEF Typed
<1> QED
  BY <1>1, <1>2, <1>3, OperationKeeps

LEMMA PropertyKeeps ==
  ASSUME IInv, Property
  PROVE  IInv'
<1>1. /\ Running /\ instrNum \in Labels
      /\ \E o \in Fetched : LET c == PropertyResult(Entry, o) IN IF c.ok THEN Proceed(o, c) ELSE Reject
  BY DEF Property, Compile, Entry
<1>2. PICK o \in Fetched : LET c == PropertyResult(Entry, o) IN IF c.ok THEN Proceed(o, c) ELSE Reject
  BY <1>1
<1>3. Sound(PropertyResult(Entry, o))
  BY <1>1, Begins, PropertyResultSound
<1> QED
  BY <1>1, <1>2, <1>3, OperationKeeps

LEMMA MoveKeeps ==
  ASSUME IInv, Move
  PROVE  IInv'
<1>1. /\ Running /\ instrNum \in Labels
      /\ \E o \in Fetched : LET c == MoveResult(Entry, o) IN IF c.ok THEN Proceed(o, c) ELSE Reject
  BY DEF Move, Compile, Entry
<1>2. PICK o \in Fetched : LET c == MoveResult(Entry, o) IN IF c.ok THEN Proceed(o, c) ELSE Reject
  BY <1>1
<1>3. Sound(MoveResult(Entry, o))
  BY <1>1, Begins, MoveResultSound
<1> QED
  BY <1>1, <1>2, <1>3, OperationKeeps

LEMMA CloneKeeps ==
  ASSUME IInv, Clone
  PROVE  IInv'
<1>1. /\ Running /\ instrNum \in Labels
      /\ \E o \in Fetched : LET c == CloneResult(Entry, o) IN IF c.ok THEN Proceed(o, c) ELSE Reject
  BY DEF Clone, Compile, Entry
<1>2. PICK o \in Fetched : LET c == CloneResult(Entry, o) IN IF c.ok THEN Proceed(o, c) ELSE Reject
  BY <1>1
<1>3. Sound(CloneResult(Entry, o))
  BY <1>1, Begins, CloneResultSound DEF Typed
<1> QED
  BY <1>1, <1>2, <1>3, OperationKeeps

LEMMA LoadKeeps ==
  ASSUME IInv, Load
  PROVE  IInv'
<1>1. /\ Running /\ instrNum \in Labels
      /\ \E o \in Fetched : LET c == LoadResult(Entry, o) IN IF c.ok THEN Proceed(o, c) ELSE Reject
  BY DEF Load, Compile, Entry
<1>2. PICK o \in Fetched : LET c == LoadResult(Entry, o) IN IF c.ok THEN Proceed(o, c) ELSE Reject
  BY <1>1
<1>3. Sound(LoadResult(Entry, o))
  BY <1>1, Begins, LoadResultSound
<1> QED
  BY <1>1, <1>2, <1>3, OperationKeeps

LEMMA PopValueKeeps ==
  ASSUME IInv, PopValue
  PROVE  IInv'
<1>1. /\ Running /\ instrNum \in Labels
      /\ \E o \in Fetched : LET c == PopResult(Entry, o) IN IF c.ok THEN Proceed(o, c) ELSE Reject
  BY DEF PopValue, Compile, Entry
<1>2. PICK o \in Fetched : LET c == PopResult(Entry, o) IN IF c.ok THEN Proceed(o, c) ELSE Reject
  BY <1>1
<1>3. Sound(PopResult(Entry, o))
  BY <1>1, Begins, PopResultSound
<1> QED
  BY <1>1, <1>2, <1>3, OperationKeeps

LEMMA CastKeeps ==
  ASSUME IInv, Cast
  PROVE  IInv'
<1>1. /\ Running /\ instrNum \in Labels
      /\ \E o \in Fetched : LET c == CastResult(Entry, o) IN IF c.ok THEN Proceed(o, c) ELSE Reject
  BY DEF Cast, Compile, Entry
<1>2. PICK o \in Fetched : LET c == CastResult(Entry, o) IN IF c.ok THEN Proceed(o, c) ELSE Reject
  BY <1>1
<1>3. Sound(CastResult(Entry, o))
  BY <1>1, Begins, CastResultSound
<1> QED
  BY <1>1, <1>2, <1>3, OperationKeeps

LEMMA LocalRefKeeps ==
  ASSUME IInv, LocalRef
  PROVE  IInv'
<1>1. /\ Running /\ instrNum \in Labels
      /\ \E o \in Fetched : LET c == LocalRefResult(Entry, o) IN IF c.ok THEN Proceed(o, c) ELSE Reject
  BY DEF LocalRef, Compile, Entry
<1>2. PICK o \in Fetched : LET c == LocalRefResult(Entry, o) IN IF c.ok THEN Proceed(o, c) ELSE Reject
  BY <1>1
<1>3. Sound(LocalRefResult(Entry, o))
  BY <1>1, Begins, LocalRefResultSound
<1> QED
  BY <1>1, <1>2, <1>3, OperationKeeps

LEMMA ReturnKeeps ==
  ASSUME IInv, Return
  PROVE  IInv'
<1>1. /\ Running /\ instrNum \in Labels
      /\ \E o \in Fetched : LET c == ReturnResult(Entry, o) IN IF c.ok THEN Proceed(o, c) ELSE Reject
  BY DEF Return, Compile, Entry
<1>2. PICK o \in Fetched : LET c == ReturnResult(Entry, o) IN IF c.ok THEN Proceed(o, c) ELSE Reject
  BY <1>1
<1>3. Sound(ReturnResult(Entry, o))
  BY <1>1, Begins, ReturnResultSound DEF Typed
<1> QED
  BY <1>1, <1>2, <1>3, OperationKeeps

LEMMA ResKeeps ==
  ASSUME IInv, Res
  PROVE  IInv'
<1>1. /\ Running /\ instrNum \in Labels
      /\ \E o \in Fetched : LET c == ResResult(Entry, o) IN IF c.ok THEN Proceed(o, c) ELSE Reject
  BY DEF Res, Compile, Entry
<1>2. PICK o \in Fetched : LET c == ResResult(Entry, o) IN IF c.ok THEN Proceed(o, c) ELSE Reject
  BY <1>1
<1>3. Sound(ResResult(Entry, o))
  BY <1>1, Begins, ResResultSound
<1> QED
  BY <1>1, <1>2, <1>3, OperationKeeps

LEMMA ConstantKeeps ==
  ASSUME IInv, Constant
  PROVE  IInv'
<1>1. /\ Running /\ instrNum \in Labels
      /\ \E o \in Fetched : LET c == ConstantResult(Entry, o) IN IF c.ok THEN Proceed(o, c) ELSE Reject
  BY DEF Constant, Compile, Entry
<1>2. PICK o \in Fetched : LET c == ConstantResult(Entry, o) IN IF c.ok THEN Proceed(o, c) ELSE Reject
  BY <1>1
<1>3. Sound(ConstantResult(Entry, o))
  BY <1>1, Begins, ConstantResultSound
<1> QED
  BY <1>1, <1>2, <1>3, OperationKeeps

LEMMA SwitchKeeps ==
  ASSUME IInv, Switch
  PROVE  IInv'
<1>1. /\ Running /\ instrNum \in Labels
      /\ \E o \in Fetched : LET c == SwitchResult(Entry, o) IN IF c.ok THEN Proceed(o, c) ELSE Reject
  BY DEF Switch, Compile, Entry
<1>2. PICK o \in Fetched : LET c == SwitchResult(Entry, o) IN IF c.ok THEN Proceed(o, c) ELSE Reject
  BY <1>1
<1>3. Sound(SwitchResult(Entry, o))
  BY <1>1, Begins, SwitchResultSound
<1> QED
  BY <1>1, <1>2, <1>3, OperationKeeps

LEMMA IterateArrayKeeps ==
  ASSUME IInv, IterateArray
  PROVE  IInv'
<1>1. /\ Running /\ instrNum \in Labels
      /\ \E o \in Fetched : LET c == IterateArrayResult(Entry, o) IN IF c.ok THEN Proceed(o, c) ELSE Reject
  BY DEF IterateArray, Compile, Entry
<1>2. PICK o \in Fetched : LET c == IterateArrayResult(Entry, o) IN IF c.ok THEN Proceed(o, c) ELSE Reject
  BY <1>1
<1>3. Sound(IterateArrayResult(Entry, o))
  BY <1>1, Begins, IterateArrayResultSound
<1> QED
  BY <1>1, <1>2, <1>3, OperationKeeps

LEMMA StepKeeps ==
  ASSUME IInv, [Next]_vars
  PROVE  IInv'
<1>1. ASSUME BeginPass \/ EndPass \/ Finish \/ Unbalanced
      PROVE  IInv'
  BY <1>1, BeginPassKeeps, EndPassKeeps, FinishKeeps, UnbalancedKeeps
<1>2. ASSUME StartBarrier \/ EndBarrier \/ Throw \/ Try \/ Catch \/ TryCast
      PROVE  IInv'
  BY <1>2, StartBarrierKeeps, EndBarrierKeeps, ThrowKeeps, TryKeeps, CatchKeeps, TryCastKeeps
<1>3. ASSUME Jump \/ JumpIf \/ JumpIfTrue \/ JumpIfEqual
      PROVE  IInv'
  BY <1>3, JumpKeeps, JumpIfKeeps, JumpIfTrueKeeps, JumpIfEqualKeeps
<1>4. ASSUME Call \/ CallVirtual \/ CallDelegate
      PROVE  IInv'
  BY <1>4, CallKeeps, CallVirtualKeeps, CallDelegateKeeps
<1>5. ASSUME AllocLocal \/ CreateLocal \/ RemoveLocal \/ PushEmpty
      PROVE  IInv'
  BY <1>5, AllocLocalKeeps, CreateLocalKeeps, RemoveLocalKeeps, PushEmptyKeeps
<1>6. ASSUME NewInstance \/ NewInstanceSet \/ PushNull \/ PinLocal \/ ToVarying \/ ArrayIndex
      PROVE  IInv'
  BY <1>6, NewInstanceKeeps, NewInstanceSetKeeps, PushNullKeeps, PinLocalKeeps, ToVaryingKeeps, ArrayIndexKeeps
<1>7. ASSUME Property \/ Move \/ Clone \/ Load \/ PopValue \/ Cast \/ LocalRef
      PROVE  IInv'
  BY <1>7, PropertyKeeps, MoveKeeps, CloneKeeps, LoadKeeps, PopValueKeeps, CastKeeps, LocalRefKeeps
<1>8. ASSUME Return \/ Res \/ Constant \/ Switch \/ IterateArray
      PROVE  IInv'
  BY <1>8, ReturnKeeps, ResKeeps, ConstantKeeps, SwitchKeeps, IterateArrayKeeps
<1> QED
  BY <1>1, <1>2, <1>3, <1>4, <1>5, <1>6, <1>7, <1>8, StutterKeeps DEF Next

\* Whatever the compiler has recorded holds of every program, whatever its
\* operations are and however the types convert.
THEOREM Invariance == Spec => []IInv
<1>1. Init => IInv
  BY InitInv
<1>2. IInv /\ [Next]_vars => IInv'
  BY StepKeeps
<1> QED
  BY <1>1, <1>2, PTL DEF Spec

LEMMA ActionsReplay ==
  ASSUME IInv
  PROVE  StackActionsReplay
<1>1. SUFFICES ASSUME Running, Allocated("actions"), instrNum >= 0
               PROVE  Replay(comp.actions) =
                        [k \in 1..Len(method.returns) |-> k - 1]
                          \o [k \in DOMAIN comp.localstack |-> comp.localstack[k].sa]
                          \o StoredActions(comp.opstack)
  BY DEF StackActionsReplay
<1>2. pass \in {"record", "stitch"}
  <2>1. "actions" \in DOMAIN capacity
    BY <1>1 DEF Allocated
  <2>2. pass # "create" /\ pass # "generate"
    BY <2>1 DEF IInv, PassInv, Stacks
  <2> QED
    BY <1>1, <2>2 DEF Running
<1>3. Recording
  BY <1>2 DEF IInv, PassInv, Recording, Generating, Allocated
<1>4. instrNum # -1
  BY <1>1
<1>5. Full(comp, instrNum - 1, NumParameters, Len(method.returns))
  BY <1>1, <1>3, <1>4 DEF IInv, CompInv
<1>6. DOMAIN comp.localstack = 1..Len(comp.localstack)
  BY <1>5, ListInSeq DEF Full, Lists
<1> QED
  BY <1>5, <1>6 DEF Full, Pushed

LEMMA SpansDisjoint ==
  ASSUME IInv
  PROVE  JournalsDisjoint
<1>1. SUFFICES ASSUME Compiled, NEW k \in DOMAIN comp.journal, NEW l \in DOMAIN comp.journal,
                      k < l, ~comp.journal[k].parameter, ~comp.journal[l].parameter,
                      comp.journal[k].offset = comp.journal[l].offset, NEW j \in Stops,
                      Covers(comp.journal[k], j), Covers(comp.journal[l], j)
               PROVE  FALSE
  BY DEF JournalsDisjoint
<1> DEFINE p == comp.journal[k]
           q == comp.journal[l]
<1>2. k \in 1..Len(comp.journal) /\ l \in 1..Len(comp.journal) /\ Translated(comp.journal)
  BY <1>1 DEF IInv, CompInv, Compiled
<1>3. p.start \in Nat /\ p.end \in Nat /\ q.start \in Nat /\ q.end \in Nat /\ Apart(p, q)
  BY <1>1, <1>2 DEF Translated
<1>4. j \in Int
  BY DEF Stops, Instructions
<1>5. p.offset = q.offset /\ Covers(p, j) /\ Covers(q, j)
  BY <1>1
<1> HIDE DEF p, q
<1>6. p.end <= q.start \/ q.end <= p.start
  BY <1>3, <1>5 DEF Apart
<1> QED
  BY <1>3, <1>4, <1>5, <1>6 DEF Covers

\* The stack actions of every body, replayed as far as the compiler has come,
\* leave on the stack what the compiler has on its stacks: the operands of the
\* instructions name the values that the source exporter finds
\* (rdx_sourceexport.cpp).
THEOREM ActionsName == Spec => []StackActionsReplay
<1>1. IInv => StackActionsReplay
  BY ActionsReplay
<1> QED
  BY <1>1, Invariance, PTL

\* No two journals of a compiled body tell of one slot at one instruction at
\* which a thread may stop: what the collector takes the slot for does not
\* depend on the journal it comes to first (rdx_runtime.cpp, NextJournal).
THEOREM JournalsApart == Spec => []JournalsDisjoint
<1>1. IInv => JournalsDisjoint
  BY SpansDisjoint
<1> QED
  BY <1>1, Invariance, PTL
=============================================================================
