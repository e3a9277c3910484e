--------------------------- MODULE StructuresProofs ---------------------------
(***************************************************************************)
(* Proofs about Structures (rdx_objectmanager.cpp), for every program: any *)
(* types, in any order, with the built-in types of any host.               *)
(*                                                                         *)
(* A type is laid out after its parent, so every class that is loaded has  *)
(* a number that is greater than that of its parent (Ranked), and what a   *)
(* class has in common with its parent it has in common with all its       *)
(* ancestors, by induction over these numbers.                             *)
(*                                                                         *)
(* A layout goes on behind what it is laid out after, and its parts and    *)
(* references are new ones and inherited ones (LayoutInv).  That all parts *)
(* of a value are apart and all its references in the collector's map is   *)
(* then shown by induction over the types that are in it (Numbered).       *)
(***************************************************************************)
EXTENDS Structures, NaturalInduction, FiniteSetTheorems, TLAPS

Structured == StructuredIn(program)
Named == References(program)

(* What Programs says of a program, as the state has it.                   *)
ProgramInv ==
  /\ TypesRead(program) /\ BuiltInsFound(program) /\ NativesDerived(program)
  /\ NativesPlaced(program) /\ AlignmentsNested(program)
  /\ \E arrays : ArraysMade(program, arrays)
  /\ order \in Seq(Structured)
  /\ \A t \in Structured : t \in DOMAIN BuiltIn \/ \E i \in 1..Len(order) : order[i] = t

-----------------------------------------------------------------------------
(* The recursive functions of the relations exist.                         *)

\* The loop over the parents of a type.
LEMMA InheritsIs ==
  ASSUME TypesRead(program), NEW st \in Structured \cup {Null}, NEW to, NEW initialFrom
  PROVE  /\ Inherits(st, to, initialFrom) \in BOOLEAN
         /\ Inherits(st, to, initialFrom) <=>
              /\ st # Null /\ st # initialFrom
              /\ st = to \/ Inherits(program[st].parent, to, initialFrom)
<1> DEFINE S == Structured \cup {Null}
           D == SUBSET S
           Body(t, up) == t # Null /\ t # initialFrom /\ (t = to \/ up)
           Recurs(w) == w = [t \in S |-> Body(t, w[program[t].parent])]
           step == [X \in D |-> {t \in S : Body(t, program[t].parent \in X)}]
           none == {}
<1>1. step \in [D -> D] /\ none \in D
  OBVIOUS
<1>2. \A X \in D : \A t \in S : t \in step[X] <=> Body(t, program[t].parent \in X)
  OBVIOUS
<1>3. \A t \in S : t # Null => program[t].parent \in S
  BY DEF TypesRead, Structured
<1> HIDE DEF D, step, none
<1>4. PICK f \in [Nat -> D] : f[0] = none /\ \A n \in Nat : f[n + 1] = step[f[n]]
  BY <1>1, IterationExists
<1> DEFINE g == [t \in S |-> \E n \in Nat : t \in f[n]]
<1>5. ASSUME NEW t \in S
      PROVE  g[t] = Body(t, g[program[t].parent])
  <2>1. CASE t = Null \/ t = initialFrom
    <3>1. \A n \in Nat : t \notin f[n]
      <4> SUFFICES ASSUME NEW n \in Nat, t \in f[n]
                   PROVE  FALSE
        OBVIOUS
      <4>1. n # 0
        BY <1>4 DEF none
      <4>2. n - 1 \in Nat /\ n - 1 + 1 = n
        BY <4>1
      <4>3. f[n] = step[f[n - 1]] /\ f[n - 1] \in D
        BY <1>4, <4>2
      <4> QED
        BY <1>2, <2>1, <4>3
    <3> QED
      BY <2>1, <3>1
  <2>2. CASE t # Null /\ t # initialFrom
    <3>1. program[t].parent \in S
      BY <1>3, <2>2
    <3>2. ASSUME NEW n \in Nat, t \in f[n], t # to
          PROVE  \E m \in Nat : program[t].parent \in f[m]
      <4>1. n # 0
        BY <1>4, <3>2 DEF none
      <4>2. n - 1 \in Nat /\ n - 1 + 1 = n
        BY <4>1
      <4>3. f[n] = step[f[n - 1]] /\ f[n - 1] \in D
        BY <1>4, <4>2
      <4> QED
        BY <1>2, <3>2, <4>2, <4>3
    <3>3. ASSUME NEW m \in Nat, t = to \/ program[t].parent \in f[m]
          PROVE  \E n \in Nat : t \in f[n]
      <4>1. f[m + 1] = step[f[m]] /\ f[m] \in D /\ m + 1 \in Nat
        BY <1>4
      <4>2. t \in f[m + 1]
        BY <1>2, <2>2, <3>3, <4>1
      <4> QED
        BY <4>1, <4>2
    <3>4. t = to => \E n \in Nat : t \in f[n]
      <4>1. 0 \in Nat
        OBVIOUS
      <4> QED
        BY <3>3, <4>1
    <3>5. (\E n \in Nat : t \in f[n]) <=> (t = to \/ \E n \in Nat : program[t].parent \in f[n])
      BY <3>2, <3>3, <3>4
    <3> QED
      BY <2>2, <3>1, <3>5
  <2> QED
    BY <2>1, <2>2
<1>6. Recurs(g)
  <2> HIDE DEF Body
  <2>1. g = [t \in S |-> g[t]]
    OBVIOUS
  <2> HIDE DEF g
  <2>2. [t \in S |-> g[t]] = [t \in S |-> Body(t, g[program[t].parent])]
    BY <1>5
  <2> QED
    BY <2>1, <2>2
<1> DEFINE w == CHOOSE w : Recurs(w)
<1>7. \A x \in S : Inherits(x, to, initialFrom) = w[x]
  BY DEF Inherits, Structured
<1> HIDE DEF Recurs
<1>8. Recurs(w)
  BY <1>6
<1> HIDE DEF w
<1>9. w = [t \in S |-> Body(t, w[program[t].parent])]
  BY <1>8 DEF Recurs
<1>10. w[st] = Body(st, w[program[st].parent])
  BY <1>9
<1> QED
  BY <1>3, <1>7, <1>10

(* One level of RefTypesCompatibleRecursive.                               *)
Level(from, to, initialFrom, deeper) ==
  \/ from = Null /\ (TypeIsObjectReference(to) \/ TypeIsInterface(to))
  \/ from = to
  \/ from # Null /\ to = Object
  \/ IsArray(from) /\ to = Array
  \/ IsDelegate(from) /\ to = Method
  \/ /\ IsArray(from) /\ IsArray(to)
     /\ program[from].isConstant => program[to].isConstant
     /\ program[from].dimensions = program[to].dimensions
     /\ program[from].of # initialFrom
     /\ \/ program[from].of = program[to].of
        \/ /\ ElementsConvertible(from, to)
           /\ IF TypeIsObjectReference(program[from].of) THEN deeper
              ELSE NonRefTypesCompatible(program[from].of, program[to].of)
  \/ /\ TypeIsClass(from) /\ TypeIsClass(to)
     /\ Inherits(program[from].parent, to, initialFrom)

\* The recursion into the elements of arrays, down to MaxDepth.
LEMMA CompatibleIs ==
  ASSUME MaxDepth \in Nat,
         NEW from \in Named, NEW to \in Named, NEW initialFrom, NEW depth \in 0..MaxDepth
  PROVE  /\ RefTypesCompatibleRecursive(initialFrom)[depth][from][to] \in BOOLEAN
         /\ RefTypesCompatibleRecursive(initialFrom)[depth][from][to] <=>
              /\ depth < MaxDepth
              /\ Level(from, to, initialFrom,
                   RefTypesCompatibleRecursive(initialFrom)
                     [depth + 1][program[from].of][program[to].of])
<1> DEFINE D == [Named -> [Named -> BOOLEAN]]
           Row(d, below) ==
             [f \in Named |-> [t \in Named |->
               d < MaxDepth /\ Level(f, t, initialFrom, below[program[f].of][program[t].of])]]
           Recurs(w) == w = [d \in 0..MaxDepth |-> Row(d, w[d + 1])]
           step == [F \in D |-> [f \in Named |-> [t \in Named |->
                     Level(f, t, initialFrom, F[program[f].of][program[t].of])]]]
           none == [f \in Named |-> [t \in Named |-> FALSE]]
<1>1. \A f, t, deeper : Level(f, t, initialFrom, deeper) \in BOOLEAN
  BY DEF Level
<1>2. step \in [D -> D] /\ none \in D
  BY <1>1
<1>3. \A F \in D : step[F] = [f \in Named |-> [t \in Named |->
                     Level(f, t, initialFrom, F[program[f].of][program[t].of])]]
  OBVIOUS
<1> HIDE DEF D, step
<1>4. PICK g \in [Nat -> D] : g[0] = none /\ \A n \in Nat : g[n + 1] = step[g[n]]
  <2> HIDE DEF none
  <2> QED
    BY <1>2, IterationExists
<1> DEFINE up == [d \in 0..MaxDepth |-> g[MaxDepth - d]]
<1>5. ASSUME NEW d \in 0..MaxDepth
      PROVE  up[d] = Row(d, up[d + 1])
  <2>1. CASE d = MaxDepth
    <3>1. up[d] = none
      <4>1. MaxDepth - d = 0
        BY <2>1
      <4>2. up[d] = g[0]
        BY <4>1
      <4> HIDE DEF up
      <4> QED
        BY <1>4, <4>2
    <3>2. ~(d < MaxDepth)
      BY <2>1
    <3>3. \A below : Row(d, below) = none
      <4> TAKE below
      <4>1. \A f, t \in Named : (d < MaxDepth /\ Level(f, t, initialFrom, below[program[f].of][program[t].of])) = FALSE
        BY <3>2
      <4> QED
        BY <4>1
    <3> QED
      BY <3>1, <3>3, ZenonT(30)
  <2>2. CASE d # MaxDepth
    <3>1. d < MaxDepth /\ MaxDepth - (d + 1) \in Nat /\ d + 1 \in 0..MaxDepth
           /\ MaxDepth - (d + 1) + 1 = MaxDepth - d
      BY <2>2
    <3>2. up[d] = step[up[d + 1]] /\ up[d + 1] \in D
      BY <1>4, <3>1
    <3>3. step[up[d + 1]] = Row(d, up[d + 1])
      <4> HIDE DEF up
      <4> DEFINE below == up[d + 1]
      <4>1. \A f, t \in Named :
              (d < MaxDepth /\ Level(f, t, initialFrom, below[program[f].of][program[t].of]))
                = Level(f, t, initialFrom, below[program[f].of][program[t].of])
        BY <1>1, <3>1
      <4>2. below \in D
        BY <3>2
      <4> HIDE DEF below
      <4>3. step[below] = Row(d, below)
        BY <1>3, <4>1, <4>2
      <4> QED
        BY <4>3 DEF below
    <3> QED
      BY <3>2, <3>3
  <2> QED
    BY <2>1, <2>2
<1> HIDE DEF none, Row
<1>6. Recurs(up)
  <2>1. up = [d \in 0..MaxDepth |-> up[d]]
    OBVIOUS
  <2> HIDE DEF up
  <2>2. [d \in 0..MaxDepth |-> up[d]] = [d \in 0..MaxDepth |-> Row(d, up[d + 1])]
    BY <1>5
  <2> QED
    BY <2>1, <2>2
<1> DEFINE w == CHOOSE w : Recurs(w)
<1>7. RefTypesCompatibleRecursive(initialFrom) = w
  BY DEF RefTypesCompatibleRecursive, Level, Named, Row
<1> HIDE DEF Recurs, up
<1>8. Recurs(w)
  BY <1>6
<1> HIDE DEF w
<1>9. w = [d \in 0..MaxDepth |-> Row(d, w[d + 1])]
  BY <1>8 DEF Recurs
<1>10. w[depth] = Row(depth, w[depth + 1])
  BY <1>9
<1>11. w[depth][from][to]
         = (depth < MaxDepth /\ Level(from, to, initialFrom, w[depth + 1][program[from].of][program[to].of]))
  BY <1>10 DEF Row
<1> QED
  BY <1>1, <1>7, <1>11

-----------------------------------------------------------------------------
(* The invariant.                                                          *)
IsSequence(s) == \E S : s \in Seq(S)

(* s and what follows it.                                                  *)
Continues(s, t) ==
  /\ IsSequence(s) /\ IsSequence(t) /\ Len(s) <= Len(t)
  /\ \A i \in 1..Len(s) : t[i] = s[i]

SequencesLaid ==
  \A t \in DOMAIN laid : IsSequence(laid[t].propertyOffsets) /\ IsSequence(laid[t].interfaceOffsets)

(* A class that has its layout, and what it has of its parent's.           *)
Follows(t, p) ==
  /\ Continues(laid[p].propertyOffsets, laid[t].propertyOffsets)
  /\ Continues(laid[p].interfaceOffsets, laid[t].interfaceOffsets)
  /\ Len(laid[p].propertyOffsets) <= Len(program[t].properties)
  /\ Len(laid[p].interfaceOffsets) <= Len(program[t].interfaces)
  /\ laid[p].base = laid[t].base
  /\ \/ laid[p].nativeSize = laid[t].nativeSize
     \/ /\ {laid[p].nativeSize, laid[t].nativeSize} \subseteq Int
        /\ laid[p].nativeSize <= laid[t].nativeSize

LaidClass(t) ==
  /\ ParentClass(t) # Null /\ ParentClass(t) \in DOMAIN laid
  /\ Parent(t) = Null => IsNative(t)
  /\ Len(laid[t].propertyOffsets) = Len(program[t].properties)
  /\ Len(laid[t].interfaceOffsets) = Len(program[t].interfaces)
  /\ laid[t].inherited = ~IsNative(t)
  /\ IsNative(t) => laid[t].base = Native(t).base /\ laid[t].nativeSize = Native(t).sizeInSubclass
  /\ TypeIsClass(ParentClass(t)) => Follows(t, ParentClass(t))

LaidInv ==
  /\ \A t \in DOMAIN BuiltIn : t \in DOMAIN laid /\ laid[t] = HostLayout(t)
  /\ \A t \in DOMAIN laid \ DOMAIN BuiltIn : TypeIsClass(t) => LaidClass(t)

(* The numbers of the classes.                                             *)
Ranks(rank) ==
  /\ rank \in [DOMAIN laid -> Nat]
  /\ \A t \in DOMAIN laid : TypeIsClass(t) /\ ParentClass(t) # Null =>
       ParentClass(t) \in DOMAIN laid /\ rank[ParentClass(t)] < rank[t]

Ranked == \E rank : Ranks(rank)

AllLaid == \A i \in 1..Len(order) : order[i] \in DOMAIN laid

LoopInv ==
  /\ cursor \in Nat \ {0} /\ deferredAny \in BOOLEAN
  /\ phase = "harden" /\ ~deferredAny =>
       \A i \in 1..Len(order) : i < cursor => order[i] \in DOMAIN laid
  /\ phase \in {"validate", "loaded"} => ArraysValid /\ AllLaid
  /\ phase = "loaded" => \A i \in 1..Len(order) : StructureValid(order[i])

IInv == ProgramInv /\ SequencesLaid /\ LaidInv /\ Ranked /\ LoopInv

LEMMA InitSatisfies ==
  ASSUME Init
  PROVE  IInv
<1>1. PICK p \in Programs : program = p.types /\ order \in p.orders
  BY DEF Init
<1>2. ProgramInv
  BY <1>1, ProgramAssumption DEF ProgramInv, Structured
<1>3. laid = [t \in DOMAIN BuiltIn |-> HostLayout(t)]
  BY DEF Init
<1>4. \A t \in DOMAIN BuiltIn :
        /\ laid[t].propertyOffsets = <<>> /\ laid[t].interfaceOffsets = <<>>
        /\ laid[t] = HostLayout(t)
  BY <1>3 DEF HostLayout, EmptyLayout
<1>5. SequencesLaid
  <2>1. IsSequence(<<>>)
    <3>1. <<>> \in Seq({})
      OBVIOUS
    <3> QED
      BY <3>1 DEF IsSequence
  <2> QED
    BY <1>3, <1>4, <2>1 DEF SequencesLaid
<1>6. LaidInv
  BY <1>3, <1>4 DEF LaidInv
<1>7. Ranked
  <2> DEFINE rank == [t \in DOMAIN BuiltIn |->
                       IF t = Object THEN 0 ELSE IF program[t].parent \in {Object, Null} THEN 1 ELSE 2]
  <2>1. \A t \in DOMAIN BuiltIn : TypeIsClass(t) /\ ParentClass(t) # Null =>
          /\ t # Object /\ ParentClass(t) \in DOMAIN BuiltIn
          /\ ParentClass(t) # Object =>
               program[ParentClass(t)].parent = Object /\ program[t].parent \notin {Object, Null}
    BY <1>2, BuiltInAssumption DEF ProgramInv, BuiltInsFound, ParentClass, Parent
  <2>2. Object \in DOMAIN BuiltIn /\ DOMAIN laid = DOMAIN BuiltIn
    BY <1>3, BuiltInAssumption
  <2>3. rank \in [DOMAIN laid -> Nat]
    BY <2>2
  <2>4. \A t \in DOMAIN BuiltIn : t # Object => rank[Object] < rank[t]
    BY <2>2
  <2>5. \A t, q \in DOMAIN BuiltIn :
          t # Object /\ q # Object /\ program[q].parent = Object
            /\ program[t].parent \notin {Object, Null} => rank[q] < rank[t]
    OBVIOUS
  <2> HIDE DEF rank
  <2>6. Ranks(rank)
    BY <2>1, <2>2, <2>3, <2>4, <2>5 DEF Ranks
  <2> QED
    BY <2>6 DEF Ranked
<1>8. LoopInv
  <2>1. cursor = 1 /\ deferredAny = FALSE /\ phase = "harden"
    BY DEF Init
  <2>2. Len(order) \in Nat
    BY <1>2 DEF ProgramInv
  <2>3. \A i \in 1..Len(order) : ~(i < cursor)
    BY <2>1, <2>2
  <2>4. cursor \in Nat \ {0} /\ deferredAny \in BOOLEAN
    <3>1. 1 \in Nat \ {0} /\ FALSE \in BOOLEAN
      OBVIOUS
    <3> QED
      BY <2>1, <3>1
  <2>5. phase \notin {"validate", "loaded"} /\ phase # "loaded"
    BY <2>1
  <2> QED
    BY <2>3, <2>4, <2>5 DEF LoopInv
<1> QED
  BY <1>2, <1>5, <1>6, <1>7, <1>8 DEF IInv

-----------------------------------------------------------------------------
(* Each step keeps the invariant.                                          *)
LEMMA SequenceIs ==
  ASSUME NEW n \in Nat, NEW f, f = [i \in 1..n |-> f[i]]
  PROVE  IsSequence(f) /\ Len(f) = n
<1> DEFINE S == {f[i] : i \in 1..n}
<1>1. f \in Seq(S)
  OBVIOUS
<1>2. Len(f) = n
  OBVIOUS
<1> QED
  BY <1>1, <1>2 DEF IsSequence

LEMMA Appended ==
  ASSUME NEW s, NEW t, IsSequence(s), IsSequence(t)
  PROVE  /\ Continues(s, s \o t) /\ Len(s \o t) = Len(s) + Len(t)
         /\ \A i \in 1..Len(t) : (s \o t)[Len(s) + i] = t[i]
<1>1. PICK S : s \in Seq(S)
  BY DEF IsSequence
<1>2. PICK T : t \in Seq(T)
  BY DEF IsSequence
<1>3. s \in Seq(S \cup T) /\ t \in Seq(S \cup T)
  BY <1>1, <1>2
<1>4. s \o t \in Seq(S \cup T) /\ Len(s \o t) = Len(s) + Len(t) /\ Len(s) \in Nat /\ Len(t) \in Nat
  BY <1>3
<1>5. \A i \in 1..Len(s) : (s \o t)[i] = s[i]
  BY <1>3
<1>6. \A i \in 1..Len(t) : (s \o t)[Len(s) + i] = t[i]
  BY <1>3
<1> QED
  BY <1>4, <1>5, <1>6 DEF Continues, IsSequence

LEMMA NewOfIs ==
  ASSUME NEW S, NEW own \in Seq(S), NEW inherited, Len(inherited) \in Nat,
         Len(inherited) <= Len(own)
  PROVE  /\ DOMAIN NewOf(own, inherited) = 1..Len(own) - Len(inherited)
         /\ Len(NewOf(own, inherited)) = Len(own) - Len(inherited)
         /\ \A i \in 1..Len(own) - Len(inherited) : NewOf(own, inherited)[i] = own[Len(inherited) + i]
<1> DEFINE n == Len(own) - Len(inherited)
           f == SubSeq(own, Len(inherited) + 1, Len(own))
<1>1. Len(own) \in Nat /\ n \in Nat
  OBVIOUS
<1>2. f \in Seq(S)
  BY <1>1
<1>3. Len(f) = n
  BY <1>1
<1>4. DOMAIN f = 1..n
  BY <1>2, <1>3
<1>5. \A i \in 1..n : f[i] = own[Len(inherited) + i]
  BY <1>1
<1> QED
  BY <1>3, <1>4, <1>5 DEF NewOf

LEMMA TypesStay ==
  ASSUME UNCHANGED program
  PROVE  \A t : /\ TypeIsClass(t)' <=> TypeIsClass(t)
                /\ ParentClass(t)' = ParentClass(t) /\ Parent(t)' = Parent(t)
                /\ IsNative(t)' <=> IsNative(t)
                /\ Native(t)' = Native(t)
  BY DEF TypeIsClass, Stored, IsStructured, Types, ParentClass, Parent, IsNative, Native

LEMMA ProgramStays ==
  ASSUME ProgramInv, UNCHANGED <<program, order>>
  PROVE  ProgramInv'
  BY DEF ProgramInv, Structured

LEMMA LayoutsStay ==
  ASSUME SequencesLaid, LaidInv, Ranked, UNCHANGED <<program, laid>>
  PROVE  SequencesLaid' /\ LaidInv' /\ Ranked'
<1>1. SequencesLaid'
  BY DEF SequencesLaid
<1>2. LaidInv'
  <2>1. \A t : LaidClass(t) => LaidClass(t)'
    BY TypesStay DEF LaidClass, Follows
  <2> QED
    BY <2>1, TypesStay DEF LaidInv
<1>3. Ranked'
  BY TypesStay DEF Ranked, Ranks
<1> QED
  BY <1>1, <1>2, <1>3

(* What LayoutOf makes of a type begins with what it is laid out after.    *)
Extended(t, places, layout) ==
  /\ Continues(InheritedOffsets(t), layout.propertyOffsets)
  /\ Continues(InheritedInterfaces(t), layout.interfaceOffsets)
  /\ Len(InheritedOffsets(t)) <= Len(program[t].properties)
  /\ Len(InheritedInterfaces(t)) <= Len(program[t].interfaces)
  /\ Len(layout.propertyOffsets) = Len(program[t].properties)
  /\ Len(layout.interfaceOffsets) = Len(program[t].interfaces)
  /\ \A i \in 1..Len(program[t].properties) - Len(InheritedOffsets(t)) :
       layout.propertyOffsets[Len(InheritedOffsets(t)) + i] = OffsetOf(t, places, i)
  /\ \A i \in 1..Len(program[t].interfaces) - Len(InheritedInterfaces(t)) :
       layout.interfaceOffsets[Len(InheritedInterfaces(t)) + i] = places[i]

\* What LayoutOf makes of a type.
LEMMA LayoutIs ==
  ASSUME ProgramInv, SequencesLaid, NEW t \in Structured, Ready(t), Resolvable(t),
         NEW places, places = Places(StartOf(t), NewParts(t)),
         NEW layout, layout = LayoutOf(t, places)
  PROVE  Extended(t, places, layout)
<1> DEFINE ip == InheritedOffsets(t)
           ii == InheritedInterfaces(t)
<1>1. /\ program[t].properties \in Seq(PropertiesOver(program))
      /\ \E S : program[t].interfaces \in Seq(S)
  BY DEF ProgramInv, TypesRead, Structured
<1> DEFINE np == Len(program[t].properties) - Len(ip)
           ni == Len(program[t].interfaces) - Len(ii)
<1>2. IsSequence(ip) /\ IsSequence(ii) /\ Len(ip) \in Nat /\ Len(ii) \in Nat
  <2>1. IsSequence(<<>>)
    <3>1. <<>> \in Seq({})
      OBVIOUS
    <3> QED
      BY <3>1 DEF IsSequence
  <2>2. IsSequence(ip) /\ IsSequence(ii)
    BY <2>1 DEF Ready, SequencesLaid, InheritedOffsets, InheritedInterfaces
  <2> QED
    BY <2>2 DEF IsSequence
<1> HIDE DEF ip, ii
<1>3. np \in Nat /\ ni \in Nat
  BY <1>1, <1>2 DEF Resolvable, InheritsAll, ip, ii
<1>4. /\ DOMAIN NewProperties(t) = 1..np /\ Len(NewProperties(t)) = np
      /\ DOMAIN NewInterfaces(t) = 1..ni /\ Len(NewInterfaces(t)) = ni
  <2>1. /\ DOMAIN NewProperties(t) = 1..np /\ Len(NewProperties(t)) = np
    BY <1>1, <1>2, NewOfIs DEF NewProperties, Resolvable, InheritsAll, np, ip
  <2>2. /\ DOMAIN NewInterfaces(t) = 1..ni /\ Len(NewInterfaces(t)) = ni
    BY <1>1, <1>2, NewOfIs DEF NewInterfaces, Resolvable, InheritsAll, ni, ii
  <2> QED
    BY <2>1, <2>2
<1> HIDE DEF np, ni
<1>5. Len(NewParts(t)) = ni + np
  <2> DEFINE a == [i \in DOMAIN NewInterfaces(t) |-> ImplementedPart]
             b == [i \in DOMAIN NewProperties(t) |-> TypeValueSize(NewProperties(t)[i].type)]
  <2>1. a = [i \in 1..ni |-> a[i]] /\ b = [i \in 1..np |-> b[i]] /\ NewParts(t) = a \o b
    BY <1>4 DEF NewParts
  <2> HIDE DEF a, b
  <2> QED
    BY <1>3, <2>1, SequenceIs, Appended
<1>6. places = [i \in 1..ni + np + 1 |-> places[i]]
  BY <1>5 DEF Places
<1>7. SubSeq(places, 1, ni) = [i \in 1..ni |-> places[i]]
  <2>1. ni + np + 1 \in Nat
    BY <1>3
  <2>2. PICK S : places \in Seq(S)
    BY <1>6, <2>1, SequenceIs DEF IsSequence
  <2>3. Len(places) = ni + np + 1
    BY <1>6, <2>1, SequenceIs
  <2> QED
    BY <1>3, <2>2, <2>3
<1> DEFINE new == NewProperties(t)
           offsets == [i \in DOMAIN new |-> OffsetOf(t, places, i)]
           added == SubSeq(places, 1, ni)
<1>8. /\ layout.propertyOffsets = ip \o offsets
       /\ layout.interfaceOffsets = ii \o added
  BY <1>4 DEF LayoutOf, ip, ii
<1>9. offsets = [i \in 1..np |-> offsets[i]] /\ added = [i \in 1..ni |-> added[i]]
  BY <1>4, <1>7
<1>14. /\ \A i \in 1..np : offsets[i] = OffsetOf(t, places, i)
       /\ \A i \in 1..ni : added[i] = places[i]
  BY <1>4, <1>7
<1> HIDE DEF offsets, added
<1>10. /\ IsSequence(offsets) /\ Len(offsets) = np /\ IsSequence(added) /\ Len(added) = ni
  BY <1>3, <1>9, SequenceIs
<1>11. /\ Continues(ip, layout.propertyOffsets)
       /\ Len(layout.propertyOffsets) = Len(ip) + np
       /\ Continues(ii, layout.interfaceOffsets)
       /\ Len(layout.interfaceOffsets) = Len(ii) + ni
       /\ \A i \in 1..np : layout.propertyOffsets[Len(ip) + i] = offsets[i]
       /\ \A i \in 1..ni : layout.interfaceOffsets[Len(ii) + i] = added[i]
  <2>1. /\ Continues(ip, ip \o offsets) /\ Len(ip \o offsets) = Len(ip) + Len(offsets)
        /\ \A i \in 1..Len(offsets) : (ip \o offsets)[Len(ip) + i] = offsets[i]
    BY <1>2, <1>10, Appended
  <2>2. /\ Continues(ii, ii \o added) /\ Len(ii \o added) = Len(ii) + Len(added)
        /\ \A i \in 1..Len(added) : (ii \o added)[Len(ii) + i] = added[i]
    BY <1>2, <1>10, Appended
  <2> QED
    BY <1>8, <1>10, <2>1, <2>2
<1>12. /\ Len(ip) + np = Len(program[t].properties)
       /\ Len(ii) + ni = Len(program[t].interfaces)
       /\ Len(program[t].properties) \in Nat /\ Len(program[t].interfaces) \in Nat
  BY <1>1, <1>2 DEF np, ni
<1>13. /\ Len(ip) <= Len(program[t].properties)
       /\ Len(ii) <= Len(program[t].interfaces)
  BY <1>2, <1>3, <1>12
<1>15. /\ \A i \in 1..np : layout.propertyOffsets[Len(ip) + i] = OffsetOf(t, places, i)
       /\ \A i \in 1..ni : layout.interfaceOffsets[Len(ii) + i] = places[i]
  BY <1>11, <1>14
<1> QED
  BY <1>11, <1>12, <1>13, <1>15 DEF ip, ii, np, ni, Extended

LEMMA ResolveStructureKeeps ==
  ASSUME IInv, ResolveStructure
  PROVE  IInv'
<1>1. PICK t, p, places, layout :
        /\ t = Current /\ p = ParentClass(t) /\ places = Places(StartOf(t), NewParts(t))
        /\ layout = LayoutOf(t, places)
  OBVIOUS
<1>2. /\ UNCHANGED <<program, order, deferredAny, phase>> /\ cursor' = cursor + 1
      /\ phase = "harden" /\ t \notin DOMAIN laid /\ HeaderValid(t) /\ Ready(t) /\ ~Orphaned(t)
      /\ IsEnum(t) \/ Resolvable(t)
      /\ laid' = [u \in DOMAIN laid \cup {t} |->
                    IF u = t THEN (IF IsEnum(t) THEN EnumLayout ELSE layout) ELSE laid[u]]
  BY <1>1 DEF ResolveStructure, AtType
<1>3. /\ DOMAIN laid' = DOMAIN laid \cup {t} /\ \A u \in DOMAIN laid : laid'[u] = laid[u] /\ u # t
      /\ IsEnum(t) => laid'[t] = EnumLayout
      /\ ~IsEnum(t) => laid'[t] = layout
  BY <1>2
<1>4. ProgramInv'
  BY <1>2, ProgramStays DEF IInv
<1>5. t \notin DOMAIN BuiltIn /\ \A u \in DOMAIN BuiltIn : u \in DOMAIN laid /\ laid[u] = HostLayout(u)
  BY <1>2 DEF IInv, LaidInv
<1>6. TypeIsClass(t) => ~IsEnum(t)
  BY DEF TypeIsClass, IsEnum, Stored
<1>7. Resolvable(t) => /\ Continues(InheritedOffsets(t), layout.propertyOffsets)
                        /\ Continues(InheritedInterfaces(t), layout.interfaceOffsets)
                        /\ Len(InheritedOffsets(t)) <= Len(program[t].properties)
                        /\ Len(InheritedInterfaces(t)) <= Len(program[t].interfaces)
                        /\ Len(layout.propertyOffsets) = Len(program[t].properties)
                        /\ Len(layout.interfaceOffsets) = Len(program[t].interfaces)
  <2>1. t \in Structured
    <3>1. order \in Seq(Structured) /\ cursor \in 1..Len(order)
      BY DEF IInv, ProgramInv, LoopInv, ResolveStructure, AtType
    <3> QED
      BY <1>1, <3>1 DEF Current
  <2> QED
    BY <1>1, <1>2, <2>1, LayoutIs DEF IInv, Extended
<1>8. ASSUME TypeIsClass(t)
      PROVE  LaidClass(t)'
  <2>1. Resolvable(t) /\ laid'[t] = layout
    BY <1>2, <1>3, <1>6, <1>8
  <2>2. /\ p # Null /\ p \in DOMAIN laid
        /\ Continues(laid[p].propertyOffsets, layout.propertyOffsets)
        /\ Continues(laid[p].interfaceOffsets, layout.interfaceOffsets)
        /\ Len(laid[p].propertyOffsets) <= Len(program[t].properties)
        /\ Len(laid[p].interfaceOffsets) <= Len(program[t].interfaces)
        /\ Len(layout.propertyOffsets) = Len(program[t].properties)
        /\ Len(layout.interfaceOffsets) = Len(program[t].interfaces)
        /\ layout.inherited = ~IsNative(t)
        /\ IsNative(t) => /\ layout.base = Native(t).base
                          /\ layout.nativeSize = Native(t).sizeInSubclass
                          /\ ~laid[p].inherited
        /\ ~IsNative(t) => /\ layout.base = laid[p].base
                           /\ layout.nativeSize = laid[p].nativeSize
    <3>1. p # Null /\ p \in DOMAIN laid
      <4>1. Object \in DOMAIN BuiltIn /\ Object # Null
        BY BuiltInAssumption DEF Object, Null
      <4> QED
        BY <1>1, <1>2, <1>5, <1>8, <4>1 DEF Ready, ParentClass
    <3>2. /\ InheritedOffsets(t) = laid[p].propertyOffsets
          /\ InheritedInterfaces(t) = laid[p].interfaceOffsets
      BY <1>1, <3>1 DEF InheritedOffsets, InheritedInterfaces
    <3>3. /\ layout.inherited = (~IsNative(t) /\ p # Null)
          /\ layout.base = BaseOf(t)
          /\ layout.nativeSize = IF IsNative(t) THEN Native(t).sizeInSubclass
                                 ELSE IF p = Null THEN 0 ELSE laid[p].nativeSize
      BY <1>1 DEF LayoutOf
    <3>4. layout.inherited = ~IsNative(t)
      BY <3>1, <3>3
    <3>5. IsNative(t) => /\ layout.base = Native(t).base
                         /\ layout.nativeSize = Native(t).sizeInSubclass
                         /\ ~laid[p].inherited
      BY <1>1, <2>1, <3>1, <3>3 DEF BaseOf, Resolvable, InheritsAll
    <3>6. ~IsNative(t) => layout.base = laid[p].base /\ layout.nativeSize = laid[p].nativeSize
      BY <1>1, <3>1, <3>3 DEF BaseOf
    <3> QED
      BY <1>7, <2>1, <3>1, <3>2, <3>4, <3>5, <3>6
  <2>3. laid'[p] = laid[p] /\ p \in DOMAIN laid'
    BY <1>3, <2>2
  <2>4. ASSUME IsNative(t), TypeIsClass(p)
        PROVE  /\ laid[p].base = layout.base
               /\ {laid[p].nativeSize, layout.nativeSize} \subseteq Int
               /\ laid[p].nativeSize <= layout.nativeSize
    <3>1. /\ t \in StructuredIn(program) /\ program[t].storage = "class" /\ program[t].native # <<>>
          /\ p \in StructuredIn(program) /\ program[p].storage = "class"
      BY <1>8, <2>4 DEF TypeIsClass, Stored, IsStructured, Types, StructuredIn, IsNative
    <3>2. /\ Native(t).base = BuiltIn[Object].base /\ Native(t).sizeInSubclass \in Int
          /\ HostSize(program, t) = Native(t).sizeInSubclass
      BY <1>5, <3>1 DEF IInv, ProgramInv, NativesDerived, Native, HostSize
    <3>3. p \in {program[t].parent, Object} \ {Null}
      BY <1>1, <2>2 DEF ParentClass, Parent
    <3>4. CASE p \in DOMAIN BuiltIn
      <4>1. HostSize(program, p) <= HostSize(program, t)
        BY <3>1, <3>3, <3>4 DEF IInv, ProgramInv, NativesDerived
      <4>2. HostSize(program, p) = BuiltIn[p].sizeInSubclass /\ BuiltIn[p].sizeInSubclass \in Int
        BY <3>4, BuiltInAssumption DEF HostSize
      <4>3. BuiltIn[p].base = BuiltIn[Object].base
        BY <3>1, <3>4 DEF IInv, ProgramInv, BuiltInsFound
      <4>4. laid[p].base = BuiltIn[p].base /\ laid[p].nativeSize = BuiltIn[p].sizeInSubclass
        BY <1>5, <3>4, ZenonT(30) DEF HostLayout, EmptyLayout
      <4> QED
        BY <2>2, <2>4, <3>2, <4>1, <4>2, <4>3, <4>4
    <3>5. CASE p \notin DOMAIN BuiltIn
      <4>1. LaidClass(p)
        BY <2>2, <2>4, <3>5 DEF IInv, LaidInv
      <4>2. IsNative(p) /\ laid[p].base = Native(p).base /\ laid[p].nativeSize = Native(p).sizeInSubclass
        BY <2>2, <2>4, <4>1 DEF LaidClass
      <4>3. program[p].native # <<>>
        BY <4>2 DEF IsNative
      <4>4. Native(p).base = BuiltIn[Object].base /\ Native(p).sizeInSubclass \in Int
        BY <3>1, <4>3 DEF IInv, ProgramInv, NativesDerived, Native
      <4>5. HostSize(program, p) = Native(p).sizeInSubclass
        BY <3>5 DEF HostSize, Native
      <4>6. HostSize(program, p) <= HostSize(program, t)
        BY <3>1, <3>3, <4>3 DEF IInv, ProgramInv, NativesDerived
      <4> QED
        BY <2>2, <2>4, <3>2, <4>2, <4>4, <4>5, <4>6
    <3> QED
      BY <3>4, <3>5
  <2>5. TypeIsClass(p) => Follows(t, p)'
    BY <1>2, <2>1, <2>2, <2>3, <2>4 DEF Follows
  <2>6. Parent(t) = Null => IsNative(t)
    BY <1>2, <1>8 DEF Orphaned
  <2> QED
    <3>1. /\ ParentClass(t)' = p /\ Parent(t)' = Parent(t) /\ (IsNative(t)' <=> IsNative(t))
          /\ Native(t)' = Native(t) /\ (TypeIsClass(p)' <=> TypeIsClass(p))
      BY <1>1, <1>2, TypesStay
    <3>2. laid'[t].inherited = ~IsNative(t)'
      BY <2>1, <2>2, <3>1
    <3> QED
      BY <1>2, <2>1, <2>2, <2>3, <2>5, <2>6, <3>1, <3>2 DEF LaidClass
<1>9. LaidInv'
  <2>1. ASSUME NEW u \in DOMAIN laid, LaidClass(u)
        PROVE  LaidClass(u)'
    <3>1. PICK q : q = ParentClass(u)
      OBVIOUS
    <3>2. /\ ParentClass(u)' = q /\ Parent(u)' = Parent(u) /\ (IsNative(u)' <=> IsNative(u))
          /\ Native(u)' = Native(u) /\ (TypeIsClass(q)' <=> TypeIsClass(q))
      BY <1>2, <3>1, TypesStay
    <3>3. q \in DOMAIN laid /\ laid'[q] = laid[q] /\ laid'[u] = laid[u]
      BY <1>3, <2>1, <3>1 DEF LaidClass
    <3>4. Follows(u, q) => Follows(u, q)'
      BY <1>2, <3>3 DEF Follows
    <3> QED
      BY <1>2, <1>3, <2>1, <3>1, <3>2, <3>3, <3>4 DEF LaidClass
  <2> QED
    BY <1>2, <1>3, <1>5, <1>8, <2>1, TypesStay DEF IInv, LaidInv
<1>10. SequencesLaid'
  <2>1. IsSequence(laid'[t].propertyOffsets) /\ IsSequence(laid'[t].interfaceOffsets)
    <3>1. CASE IsEnum(t)
      <4>1. laid'[t].propertyOffsets = <<>> /\ laid'[t].interfaceOffsets = <<>>
        BY <1>3, <3>1 DEF EnumLayout, EmptyLayout
      <4>2. <<>> \in Seq({})
        OBVIOUS
      <4> QED
        BY <4>1, <4>2 DEF IsSequence
    <3>2. CASE ~IsEnum(t)
      BY <1>2, <1>3, <1>7, <3>2 DEF Continues
    <3> QED
      BY <3>1, <3>2
  <2> QED
    BY <1>3, <2>1 DEF IInv, SequencesLaid
<1>11. Ranked'
  <2>1. PICK rank : Ranks(rank)
    BY DEF IInv, Ranked
  <2> DEFINE new == [u \in DOMAIN laid \cup {t} |->
                       IF u = t THEN (IF p = Null THEN 0 ELSE rank[p] + 1) ELSE rank[u]]
  <2>2. p # Null => p \in DOMAIN laid
    BY <1>1, <1>2 DEF Ready
  <2>3. new \in [DOMAIN laid' -> Nat]
    BY <1>3, <2>1, <2>2 DEF Ranks
  <2>4. ASSUME NEW u \in DOMAIN laid', TypeIsClass(u), ParentClass(u) # Null
        PROVE  ParentClass(u) \in DOMAIN laid' /\ new[ParentClass(u)] < new[u]
    <3>1. CASE u = t
      BY <1>1, <1>3, <2>1, <2>2, <2>4, <3>1 DEF Ranks
    <3>2. CASE u # t
      <4>1. u \in DOMAIN laid /\ ParentClass(u) \in DOMAIN laid /\ rank[ParentClass(u)] < rank[u]
        BY <1>3, <2>1, <2>4, <3>2 DEF Ranks
      <4> QED
        BY <1>3, <4>1
    <3> QED
      BY <3>1, <3>2
  <2> HIDE DEF new
  <2>5. PICK r : r = new
    OBVIOUS
  <2>6. \A u : /\ TypeIsClass(u)' <=> TypeIsClass(u)
                /\ ParentClass(u)' = ParentClass(u)
    BY <1>2, TypesStay
  <2>7. Ranks(r)'
    BY <2>3, <2>4, <2>5, <2>6 DEF Ranks
  <2> QED
    BY <2>7 DEF Ranked
<1>12. LoopInv'
  <2>1. /\ cursor \in Nat /\ deferredAny \in BOOLEAN
        /\ cursor # 0 /\ ~deferredAny => \A i \in 1..Len(order) : i < cursor => order[i] \in DOMAIN laid
    BY <1>2 DEF IInv, LoopInv
  <2>2. \A i \in 1..Len(order) : i < cursor + 1 => i < cursor \/ order[i] = t
    <3>1. Len(order) \in Nat
      BY DEF IInv, ProgramInv
    <3> QED
      BY <1>1, <2>1, <3>1 DEF Current
  <2>3. ~deferredAny' => \A i \in 1..Len(order') : i < cursor' => order'[i] \in DOMAIN laid'
    BY <1>2, <1>3, <2>1, <2>2
  <2>4. cursor' \in Nat \ {0} /\ deferredAny' \in BOOLEAN /\ phase' = "harden"
    BY <1>2, <2>1
  <2>5. phase' \notin {"validate", "loaded"} /\ phase' # "loaded"
    BY <2>4
  <2> QED
    BY <2>3, <2>4, <2>5 DEF LoopInv
<1> QED
  BY <1>4, <1>9, <1>10, <1>11, <1>12 DEF IInv

LEMMA DeferStructureKeeps ==
  ASSUME IInv, DeferStructure
  PROVE  IInv'
<1>1. /\ UNCHANGED <<program, order, laid, phase>> /\ cursor' = cursor + 1
      /\ deferredAny' = TRUE /\ phase = "harden"
  BY DEF DeferStructure, AtType
<1>2. cursor' \in Nat \ {0} /\ deferredAny' \in BOOLEAN
  BY <1>1 DEF IInv, LoopInv
<1>3. LoopInv'
  <2>1. phase' \notin {"validate", "loaded"} /\ phase' # "loaded"
    BY <1>1
  <2> QED
    BY <1>1, <1>2, <2>1 DEF LoopInv
<1> QED
  BY <1>1, <1>3, ProgramStays, LayoutsStay DEF IInv

LEMMA PassOverKeeps ==
  ASSUME IInv, PassOver
  PROVE  IInv'
<1>1. /\ UNCHANGED <<program, order, laid, phase, deferredAny>> /\ cursor' = cursor + 1
      /\ phase = "harden" /\ order[cursor] \in DOMAIN laid
  BY DEF PassOver, Current
<1>2. cursor \in Nat \ {0} /\ deferredAny \in BOOLEAN /\ cursor' \in Nat \ {0}
  BY <1>1 DEF IInv, LoopInv
<1>3. LoopInv'
  <2>1. phase' \notin {"validate", "loaded"} /\ phase' # "loaded"
    BY <1>1
  <2>2. \A i \in 1..Len(order) : i < cursor + 1 => i < cursor \/ i = cursor
    <3>1. Len(order) \in Nat
      BY DEF IInv, ProgramInv
    <3> QED
      BY <1>2, <3>1
  <2>3. ~deferredAny => \A i \in 1..Len(order) : i < cursor => order[i] \in DOMAIN laid
    BY <1>1 DEF IInv, LoopInv
  <2>4. ~deferredAny' => \A i \in 1..Len(order') : i < cursor' => order'[i] \in DOMAIN laid'
    BY <1>1, <2>2, <2>3
  <2>5. cursor' \in Nat \ {0} /\ deferredAny' \in BOOLEAN
    BY <1>1, <1>2
  <2> QED
    BY <2>1, <2>4, <2>5 DEF LoopInv
<1> QED
  BY <1>1, <1>3, ProgramStays, LayoutsStay DEF IInv

\* A load that is refused, or that crashes.
LEMMA StopKeeps ==
  ASSUME IInv, ResolveFails \/ ReadsNull
  PROVE  IInv'
<1>1. /\ UNCHANGED <<program, order, laid, cursor, deferredAny>>
      /\ phase' \in {"refused", "crashed"}
  BY DEF ResolveFails, ReadsNull
<1>2. LoopInv'
  <2>1. phase' \notin {"harden", "validate", "loaded"} /\ phase' # "harden" /\ phase' # "loaded"
    BY <1>1
  <2>2. cursor' \in Nat \ {0} /\ deferredAny' \in BOOLEAN
    BY <1>1 DEF IInv, LoopInv
  <2> QED
    BY <2>1, <2>2 DEF LoopInv
<1> QED
  BY <1>1, <1>2, ProgramStays, LayoutsStay DEF IInv

LEMMA FinishRoundKeeps ==
  ASSUME IInv, FinishRound
  PROVE  IInv'
<1>1. /\ UNCHANGED <<program, order, laid>> /\ cursor' = 1 /\ deferredAny' = FALSE
      /\ phase = "harden" /\ cursor > Len(order)
      /\ phase' = CASE ~ArraysValid \/ (deferredAny /\ ~resolvedAny) -> "refused"
                    [] ArraysValid /\ ~deferredAny -> "validate"
                    [] OTHER -> "harden"
  BY DEF FinishRound, EndRound
<1>2. Len(order) \in Nat /\ cursor \in Nat /\ deferredAny \in BOOLEAN
  BY DEF IInv, ProgramInv, LoopInv
<1>3. phase' # "loaded"
  BY <1>1
<1>4. phase' = "validate" => ArraysValid /\ ~deferredAny
  BY <1>1
<1>5. phase' = "validate" => AllLaid
  <2>1. \A i \in 1..Len(order) : i < cursor
    BY <1>1, <1>2
  <2>2. ~deferredAny => \A i \in 1..Len(order) : order[i] \in DOMAIN laid
    BY <1>1, <2>1 DEF IInv, LoopInv
  <2> QED
    BY <1>4, <2>2 DEF AllLaid
<1>6. (ArraysValid => ArraysValid') /\ (AllLaid => AllLaid')
  BY <1>1 DEF ArraysValid, AllLaid, Types, IsArray
<1>7. LoopInv'
  <2>1. phase' \in {"validate", "loaded"} => ArraysValid' /\ AllLaid'
    BY <1>3, <1>4, <1>5, <1>6
  <2>2. cursor' \in Nat \ {0} /\ deferredAny' \in BOOLEAN
    <3>1. 1 \in Nat \ {0} /\ FALSE \in BOOLEAN
      OBVIOUS
    <3> QED
      BY <1>1, <3>1
  <2>3. \A i \in 1..Len(order') : ~(i < cursor')
    BY <1>1, <1>2
  <2> QED
    BY <1>3, <2>1, <2>2, <2>3 DEF LoopInv
<1> QED
  BY <1>1, <1>7, ProgramStays, LayoutsStay DEF IInv

LEMMA ValidityStays ==
  ASSUME UNCHANGED program
  PROVE  \A t : StructureValid(t)' <=> StructureValid(t)
BY DEF StructureValid, EnumValid, Parent, Extensible, TypeIsClass, Stored, IsStructured, Types,
       MethodsValid, ThisValid, ParentMethods, MethodOverrideCompatible, TypesCompatible,
       TypeIsObjectReference, IsDelegate, IsArray, RefTypesCompatibleRecursive, IsEnum,
       PropertiesValid, PropertiesMatch, ParentProperties, InterfacesValid, ParentInterfaces,
       ImplementationValid, TypeIsInterface, Inherits, ElementsConvertible,
       NonRefTypesCompatible, SlotOf

LEMMA ValidateStructuresKeeps ==
  ASSUME IInv, ValidateStructures
  PROVE  IInv'
<1>1. /\ UNCHANGED <<program, order, laid, cursor, deferredAny>> /\ phase = "validate"
      /\ phase' = IF \A i \in DOMAIN order : StructureValid(order[i]) THEN "loaded" ELSE "refused"
  BY DEF ValidateStructures
<1>2. phase' = "loaded" => \A i \in 1..Len(order) : StructureValid(order[i])
  <2>1. DOMAIN order = 1..Len(order)
    BY DEF IInv, ProgramInv
  <2> QED
    BY <1>1, <2>1
<1>3. ArraysValid /\ AllLaid /\ cursor \in Nat \ {0} /\ deferredAny \in BOOLEAN
  BY <1>1 DEF IInv, LoopInv
<1>4. ArraysValid' /\ AllLaid'
  BY <1>1, <1>3 DEF ArraysValid, AllLaid, Types, IsArray
<1>5. LoopInv'
  <2>1. phase' # "harden"
    BY <1>1
  <2>2. phase' = "loaded" => (\A i \in 1..Len(order) : StructureValid(order[i]))'
    <3>1. \A i : order'[i] = order[i]
      BY <1>1
    <3> QED
      BY <1>1, <1>2, <3>1, ValidityStays
  <2> QED
    BY <1>1, <1>3, <1>4, <2>1, <2>2 DEF LoopInv
<1> QED
  BY <1>1, <1>5, ProgramStays, LayoutsStay DEF IInv

\* Every step of a load keeps IInv.
LEMMA NextKeeps ==
  ASSUME IInv, [Next]_vars
  PROVE  IInv'
<1>1. CASE Next
  BY <1>1, ResolveStructureKeeps, DeferStructureKeeps, PassOverKeeps, StopKeeps, FinishRoundKeeps,
     ValidateStructuresKeeps DEF Next
<1>2. CASE UNCHANGED vars
  <2>1. UNCHANGED <<program, order, cursor, deferredAny, laid, phase>>
    BY <1>2 DEF vars
  <2>2. (ArraysValid => ArraysValid') /\ (AllLaid => AllLaid')
    BY <2>1 DEF ArraysValid, AllLaid, Types, IsArray
  <2>3. LoopInv'
    BY <2>1, <2>2, ValidityStays DEF IInv, LoopInv
  <2> QED
    BY <2>1, <2>3, ProgramStays, LayoutsStay DEF IInv
<1> QED
  BY <1>1, <1>2

\* The types that have been laid out follow their parents, and a load that
\* succeeds has laid out and validated all of them.
THEOREM Invariance == Spec => []IInv
<1>1. Init => IInv
  BY InitSatisfies
<1>2. IInv /\ [Next]_vars => IInv'
  BY NextKeeps
<1> QED
  BY <1>1, <1>2, PTL DEF Spec

-----------------------------------------------------------------------------
(* Classes and their ancestors, once all are loaded.                       *)
Loaded == IInv /\ phase = "loaded"

LEMMA ClassFacts ==
  ASSUME Loaded, NEW c \in Classes
  PROVE  /\ c \in Structured /\ c \in Types /\ c # Null /\ c \in DOMAIN laid /\ Object \in Classes
         /\ program[c].kind = "structured" /\ program[c].storage = "class"
         /\ c \notin DOMAIN BuiltIn => StructureValid(c) /\ LaidClass(c)
         /\ c \in DOMAIN BuiltIn => /\ laid[c] = HostLayout(c) /\ program[c].properties = <<>>
                                    /\ program[c].methods = <<>> /\ program[c].interfaces = <<>>
                                    /\ Parent(c) \in DOMAIN BuiltIn \cup {Null}
         /\ Parent(c) # Null => Parent(c) \in Classes /\ ParentClass(c) = Parent(c)
         /\ ParentClass(c) # Null => ParentClass(c) \in Classes
         /\ c # Object => ParentClass(c) # Null
<1>1. /\ c \in Structured /\ c \in Types
      /\ program[c].kind = "structured" /\ program[c].storage = "class"
  BY DEF Classes, TypeIsClass, Stored, IsStructured, Types, Structured, StructuredIn
<1>2. c # Null /\ Object # Null
  BY <1>1 DEF Loaded, IInv, ProgramInv, TypesRead, Types, Object, Null
<1>3. Object \in Classes /\ Object \in DOMAIN BuiltIn
  BY BuiltInAssumption DEF Loaded, IInv, ProgramInv, BuiltInsFound, Classes, TypeIsClass, Stored,
                           IsStructured, Types, StructuredIn
<1>4. c \in DOMAIN BuiltIn => /\ c \in DOMAIN laid /\ laid[c] = HostLayout(c)
                              /\ program[c].properties = <<>>
                              /\ program[c].methods = <<>> /\ program[c].interfaces = <<>>
                              /\ Parent(c) \in DOMAIN BuiltIn \cup {Null}
                              /\ Parent(c) # Null => program[Parent(c)].storage = "class"
  BY DEF Loaded, IInv, LaidInv, ProgramInv, BuiltInsFound, Parent
<1>5. c \notin DOMAIN BuiltIn => c \in DOMAIN laid /\ StructureValid(c) /\ LaidClass(c)
  <2> SUFFICES ASSUME c \notin DOMAIN BuiltIn
               PROVE  c \in DOMAIN laid /\ StructureValid(c) /\ LaidClass(c)
    OBVIOUS
  <2>1. PICK i \in 1..Len(order) : order[i] = c
    BY <1>1 DEF Loaded, IInv, ProgramInv
  <2>2. c \in DOMAIN laid /\ StructureValid(c)
    BY <2>1 DEF Loaded, IInv, LoopInv, AllLaid
  <2> QED
    BY <2>2 DEF Loaded, IInv, LaidInv, Classes
<1>6. Parent(c) # Null => Parent(c) \in Classes
  <2>1. CASE c \in DOMAIN BuiltIn
    BY <1>4, <2>1 DEF Loaded, IInv, ProgramInv, BuiltInsFound, Classes, TypeIsClass, Stored,
                      IsStructured, Types, StructuredIn
  <2>2. CASE c \notin DOMAIN BuiltIn
    BY <1>5, <2>2 DEF StructureValid, Extensible, Classes, TypeIsClass, Stored, IsStructured
  <2> QED
    BY <2>1, <2>2
<1>7. /\ Parent(c) # Null => ParentClass(c) = Parent(c)
      /\ ParentClass(c) \in {Parent(c), Object}
      /\ c # Object => ParentClass(c) # Null
  BY <1>2 DEF ParentClass, Classes
<1> QED
  BY <1>1, <1>2, <1>3, <1>4, <1>5, <1>6, <1>7

(* The number of a class.                                                  *)
Rank == CHOOSE rank : Ranks(rank)

LEMMA RankFalls ==
  ASSUME Loaded, NEW c \in Classes
  PROVE  /\ Rank[c] \in Nat
         /\ ParentClass(c) # Null => Rank[ParentClass(c)] \in Nat /\ Rank[ParentClass(c)] < Rank[c]
<1>1. Ranks(Rank)
  BY DEF Loaded, IInv, Ranked, Rank
<1> QED
  BY <1>1, ClassFacts DEF Ranks, Classes

\* What holds of a class when it holds of its parent holds of all classes.
LEMMA ClassInduction ==
  ASSUME Loaded, NEW S,
         \A c \in Classes : (ParentClass(c) # Null => ParentClass(c) \in S) => c \in S
  PROVE  \A c \in Classes : c \in S
<1> DEFINE T == {n \in Nat : \A c \in Classes : Rank[c] < n => c \in S}
<1>1. 0 \in T
  BY RankFalls
<1>2. ASSUME NEW n \in Nat, n \in T
      PROVE  n + 1 \in T
  <2> SUFFICES ASSUME NEW c \in Classes, Rank[c] < n + 1
               PROVE  c \in S
    OBVIOUS
  <2>1. ParentClass(c) # Null => ParentClass(c) \in Classes /\ Rank[ParentClass(c)] < n
    BY ClassFacts, RankFalls
  <2> QED
    BY <1>2, <2>1
<1> HIDE DEF T
<1>3. \A n \in Nat : n \in T
  BY <1>1, <1>2, SetInduction
<1>4. ASSUME NEW c \in Classes
      PROVE  c \in S
  <2>1. Rank[c] + 1 \in Nat /\ Rank[c] < Rank[c] + 1
    BY RankFalls
  <2>2. Rank[c] + 1 \in T
    BY <1>3, <2>1
  <2> QED
    BY <2>1, <2>2 DEF T
<1> QED
  BY <1>4

Derives(c, a) == c = a \/ Inherits(Parent(c), a, c)

\* The check for a circle, and whom it looks for, make no difference.
LEMMA InheritsAbove ==
  ASSUME Loaded, NEW to, NEW initialFrom, NEW st \in Classes,
         initialFrom \in Classes => Rank[st] < Rank[initialFrom]
  PROVE  Inherits(st, to, initialFrom) <=> Derives(st, to)
<1> DEFINE Beyond(c, i) == i \in Classes => Rank[c] < Rank[i]
           S == {c \in Classes : \A i : Beyond(c, i) => (Inherits(c, to, i) <=> Derives(c, to))}
<1>1. ASSUME NEW c \in Classes, ParentClass(c) # Null => ParentClass(c) \in S
      PROVE  c \in S
  <2> SUFFICES ASSUME NEW i, Beyond(c, i)
               PROVE  Inherits(c, to, i) <=> Derives(c, to)
    OBVIOUS
  <2>1. c # i
    BY RankFalls
  <2>2. TypesRead(program) /\ c \in Structured /\ c # Null
    BY ClassFacts DEF Loaded, IInv, ProgramInv
  <2>3. Inherits(c, to, i) <=> c = to \/ Inherits(Parent(c), to, i)
    BY <2>1, <2>2, InheritsIs DEF Parent
  <2>4. CASE Parent(c) = Null
    <3>1. \A j : ~Inherits(Null, to, j)
      BY <2>2, InheritsIs
    <3> QED
      BY <2>3, <2>4, <3>1 DEF Derives
  <2>5. CASE Parent(c) # Null
    <3>1. Parent(c) \in S /\ Parent(c) \in Classes
      BY <1>1, <2>5, ClassFacts
    <3>2. Beyond(Parent(c), i) /\ Beyond(Parent(c), c)
      BY <2>5, ClassFacts, RankFalls
    <3>3. Inherits(Parent(c), to, i) <=> Inherits(Parent(c), to, c)
      BY <3>1, <3>2
    <3> QED
      BY <2>3, <3>3 DEF Derives
  <2> QED
    BY <2>4, <2>5
<1> HIDE DEF S
<1>2. st \in S
  BY <1>1, ClassInduction
<1> QED
  BY <1>2 DEF S

LEMMA DerivesIs ==
  ASSUME Loaded, NEW c \in Classes, NEW a
  PROVE  Derives(c, a) <=> c = a \/ (Parent(c) # Null /\ Derives(Parent(c), a))
<1>1. CASE Parent(c) = Null
  <2>1. ~Inherits(Null, a, c)
    BY InheritsIs DEF Loaded, IInv, ProgramInv
  <2> QED
    BY <1>1, <2>1 DEF Derives
<1>2. CASE Parent(c) # Null
  <2>1. Parent(c) \in Classes /\ Rank[Parent(c)] < Rank[c]
    BY <1>2, ClassFacts, RankFalls
  <2> QED
    BY <1>2, <2>1, InheritsAbove DEF Derives
<1> QED
  BY <1>1, <1>2

LEMMA DerivesClass ==
  ASSUME Loaded
  PROVE  \A c \in Classes : \A a : Derives(c, a) => a \in Classes
<1> DEFINE S == {c \in Classes : \A a : Derives(c, a) => a \in Classes}
<1>1. ASSUME NEW c \in Classes, ParentClass(c) # Null => ParentClass(c) \in S
      PROVE  c \in S
  BY <1>1, ClassFacts, DerivesIs
<1> HIDE DEF S
<1>2. \A c \in Classes : c \in S
  BY <1>1, ClassInduction
<1> QED
  BY <1>2 DEF S

LEMMA DerivesTransitive ==
  ASSUME Loaded
  PROVE  \A c \in Classes : \A a, b : Derives(c, a) /\ Derives(a, b) => Derives(c, b)
<1> DEFINE S == {c \in Classes : \A a, b : Derives(c, a) /\ Derives(a, b) => Derives(c, b)}
<1>1. ASSUME NEW c \in Classes, ParentClass(c) # Null => ParentClass(c) \in S
      PROVE  c \in S
  BY <1>1, ClassFacts, DerivesIs
<1> HIDE DEF S
<1>2. \A c \in Classes : c \in S
  BY <1>1, ClassInduction
<1> QED
  BY <1>2 DEF S

\* The ancestors of a class form a line.
LEMMA DerivesLinear ==
  ASSUME Loaded
  PROVE  \A c \in Classes : \A a, b :
           Derives(c, a) /\ Derives(c, b) => Derives(a, b) \/ Derives(b, a)
<1> DEFINE S == {c \in Classes : \A a, b : Derives(c, a) /\ Derives(c, b) => Derives(a, b) \/ Derives(b, a)}
<1>1. ASSUME NEW c \in Classes, ParentClass(c) # Null => ParentClass(c) \in S
      PROVE  c \in S
  BY <1>1, ClassFacts, DerivesIs
<1> HIDE DEF S
<1>2. \A c \in Classes : c \in S
  BY <1>1, ClassInduction
<1> QED
  BY <1>2 DEF S

-----------------------------------------------------------------------------
(* An object of a class is one of each ancestor.                           *)
LEMMA ContinuesTransitive ==
  ASSUME NEW r, NEW s, NEW t, Continues(r, s), Continues(s, t)
  PROVE  Continues(r, t)
<1>1. Len(r) \in Nat /\ Len(s) \in Nat /\ Len(t) \in Nat
  BY DEF Continues, IsSequence
<1> QED
  BY <1>1 DEF Continues

LEMMA ContinuesPrefix ==
  ASSUME NEW s, NEW t, Continues(s, t)
  PROVE  IsPrefix(s, t)
<1>1. PICK S : s \in Seq(S)
  BY DEF Continues, IsSequence
<1>2. PICK T : t \in Seq(T)
  BY DEF Continues, IsSequence
<1>3. s \in Seq(S \cup T) /\ t \in Seq(S \cup T) /\ Len(s) \in Nat /\ Len(t) \in Nat /\ Len(s) <= Len(t)
  BY <1>1, <1>2 DEF Continues
<1>4. SubSeq(s, 1, Len(s)) = [i \in 1..Len(s) |-> s[i]]
  BY <1>3
<1>5. SubSeq(t, 1, Len(s)) = [i \in 1..Len(s) |-> t[i]]
  BY <1>3
<1>6. \A i \in 1..Len(s) : t[i] = s[i]
  BY DEF Continues
<1>7. SubSeq(s, 1, Len(s)) = SubSeq(t, 1, Len(s))
  BY <1>4, <1>5, <1>6
<1> QED
  BY <1>3, <1>7 DEF IsPrefix

LEMMA EmptyIs == IsSequence(<<>>) /\ Len(<<>>) = 0
<1>1. <<>> \in Seq({})
  OBVIOUS
<1> QED
  BY <1>1 DEF IsSequence

Resembles(c, a) ==
  /\ Continues(program[a].properties, program[c].properties)
  /\ Continues(program[a].interfaces, program[c].interfaces)
  /\ Continues(laid[a].propertyOffsets, laid[c].propertyOffsets)
  /\ Continues(laid[a].interfaceOffsets, laid[c].interfaceOffsets)
  /\ laid[a].base = laid[c].base
  /\ laid[a].nativeSize \in Int /\ laid[c].nativeSize \in Int
  /\ laid[a].nativeSize <= laid[c].nativeSize

LEMMA ListsAre ==
  ASSUME Loaded, NEW c \in Classes
  PROVE  /\ program[c].properties \in Seq(PropertiesOver(program))
         /\ IsSequence(program[c].properties) /\ IsSequence(program[c].interfaces)
         /\ IsSequence(laid[c].propertyOffsets) /\ IsSequence(laid[c].interfaceOffsets)
         /\ Len(laid[c].propertyOffsets) = Len(program[c].properties)
         /\ Len(laid[c].interfaceOffsets) = Len(program[c].interfaces)
<1>1. c \in Structured /\ c \in DOMAIN laid
  BY ClassFacts
<1>2. /\ program[c].properties \in Seq(PropertiesOver(program))
      /\ \E S : program[c].interfaces \in Seq(S)
  BY <1>1 DEF Loaded, IInv, ProgramInv, TypesRead, Structured
<1>3. IsSequence(laid[c].propertyOffsets) /\ IsSequence(laid[c].interfaceOffsets)
  BY <1>1 DEF Loaded, IInv, SequencesLaid
<1>4. /\ Len(laid[c].propertyOffsets) = Len(program[c].properties)
      /\ Len(laid[c].interfaceOffsets) = Len(program[c].interfaces)
  <2>1. CASE c \in DOMAIN BuiltIn
    BY <2>1, ClassFacts, EmptyIs DEF HostLayout, EmptyLayout
  <2>2. CASE c \notin DOMAIN BuiltIn
    BY <2>2, ClassFacts DEF LaidClass
  <2> QED
    BY <2>1, <2>2
<1> QED
  BY <1>2, <1>3, <1>4 DEF IsSequence

LEMMA ResemblesItself ==
  ASSUME Loaded, NEW c \in Classes, laid[c].nativeSize \in Int
  PROVE  Resembles(c, c)
<1>1. \A s : IsSequence(s) => Continues(s, s)
  BY DEF IsSequence, Continues
<1> QED
  BY <1>1, ListsAre DEF Resembles

LEMMA ResemblesParent ==
  ASSUME Loaded, NEW c \in Classes, NEW p, p = ParentClass(c), p # Null,
         laid[p].nativeSize \in Int
  PROVE  Resembles(c, p)
<1>1. p \in Classes
  BY ClassFacts
<1>2. CASE c \in DOMAIN BuiltIn
  <2>1. p \in {Object, Parent(c)} /\ p \in DOMAIN BuiltIn
    BY <1>2, ClassFacts, BuiltInAssumption DEF ParentClass
  <2>2. /\ BuiltIn[c].base = BuiltIn[p].base
        /\ BuiltIn[p].sizeInSubclass <= BuiltIn[c].sizeInSubclass
    <3>1. /\ program[c].storage = "class" /\ program[p].storage = "class"
          /\ p # Object => p = program[c].parent /\ p # Null
      BY <1>1, <2>1, ClassFacts DEF Parent
    <3> QED
      BY <1>2, <2>1, <3>1 DEF Loaded, IInv, ProgramInv, BuiltInsFound
  <2>3. BuiltIn[c].sizeInSubclass \in Int /\ BuiltIn[p].sizeInSubclass \in Int
    BY <1>2, <2>1, BuiltInAssumption
  <2>4. Continues(<<>>, <<>>)
    BY EmptyIs DEF Continues
  <2>5. laid[c] = HostLayout(c) /\ laid[p] = HostLayout(p)
    BY <1>1, <1>2, <2>1, ClassFacts
  <2>6. /\ laid[c].base = BuiltIn[c].base /\ laid[c].nativeSize = BuiltIn[c].sizeInSubclass
        /\ laid[p].base = BuiltIn[p].base /\ laid[p].nativeSize = BuiltIn[p].sizeInSubclass
        /\ {laid[c].propertyOffsets, laid[c].interfaceOffsets, laid[p].propertyOffsets,
            laid[p].interfaceOffsets} = {<<>>}
    BY <2>5 DEF HostLayout, EmptyLayout
  <2>7. {program[c].properties, program[c].interfaces, program[p].properties,
         program[p].interfaces} = {<<>>}
    BY <1>1, <1>2, <2>1, ClassFacts
  <2> QED
    BY <2>2, <2>3, <2>4, <2>6, <2>7 DEF Resembles
<1>3. CASE c \notin DOMAIN BuiltIn
  <2>1. LaidClass(c) /\ StructureValid(c)
    BY <1>3, ClassFacts
  <2>2. Follows(c, p)
    BY <1>1, <2>1 DEF LaidClass, Classes
  <2>3. /\ Len(program[p].properties) <= Len(program[c].properties)
        /\ Len(program[p].interfaces) <= Len(program[c].interfaces)
    BY <1>1, <2>2, ListsAre DEF Follows
  <2>4. Parent(c) = Null => program[p].properties = <<>> /\ program[p].interfaces = <<>>
    <3>1. Parent(c) = Null => p = Object
      BY <1>1, ClassFacts DEF ParentClass
    <3> QED
      BY <1>1, <3>1, ClassFacts, BuiltInAssumption
  <2>5. Parent(c) # Null => p = Parent(c)
    BY ClassFacts
  <2>6. Continues(program[p].properties, program[c].properties)
    <3> DEFINE own == program[c].properties
               from == program[p].properties
    <3>1. own \in Seq(PropertiesOver(program)) /\ from \in Seq(PropertiesOver(program))
      BY <1>1, ListsAre
    <3>2. ASSUME NEW i \in 1..Len(from)
          PROVE  own[i] = from[i]
      <4>1. from # <<>> /\ own # <<>>
        BY <2>3, <3>1, <3>2
      <4>2. Parent(c) # Null /\ from = ParentProperties(c)
        BY <2>4, <2>5, <4>1 DEF ParentProperties, Parent
      <4>3. PropertiesMatch(c)
        BY <2>1, <4>1 DEF StructureValid, PropertiesValid
      <4>4. i \in DOMAIN from
        BY <3>1
      <4>5. /\ own[i].type = from[i].type /\ own[i].isConstant = from[i].isConstant
            /\ own[i].mustBeConstant = from[i].mustBeConstant
        BY <4>2, <4>3, <4>4 DEF PropertiesMatch
      <4>6. own[i] \in PropertiesOver(program) /\ from[i] \in PropertiesOver(program)
        <5>1. i \in 1..Len(own)
          BY <2>3, <3>1
        <5> QED
          BY <3>1, <5>1
      <4> QED
        BY <4>5, <4>6 DEF PropertiesOver
    <3> QED
      BY <1>1, <2>3, <3>2, ListsAre DEF Continues
  <2>7. Continues(program[p].interfaces, program[c].interfaces)
    <3> DEFINE own == program[c].interfaces
               from == program[p].interfaces
    <3>1. IsSequence(own) /\ IsSequence(from) /\ Len(own) \in Nat /\ Len(from) \in Nat
          /\ DOMAIN from = 1..Len(from)
      BY <1>1, ListsAre DEF IsSequence
    <3>2. ASSUME NEW i \in 1..Len(from)
          PROVE  own[i] = from[i]
      <4>1. from # <<>> /\ own # <<>>
        BY <2>3, <3>1, <3>2, EmptyIs
      <4>2. Parent(c) # Null /\ from = ParentInterfaces(c)
        BY <2>4, <2>5, <4>1 DEF ParentInterfaces, Parent
      <4>3. \A k \in DOMAIN from : own[k] = from[k]
        BY <2>1, <4>1, <4>2 DEF StructureValid, InterfacesValid
      <4> QED
        BY <3>1, <4>3
    <3> QED
      BY <2>3, <3>1, <3>2 DEF Continues
  <2>8. /\ laid[p].base = laid[c].base
        /\ laid[p].nativeSize \in Int /\ laid[c].nativeSize \in Int
        /\ laid[p].nativeSize <= laid[c].nativeSize
    BY <2>2 DEF Follows
  <2> QED
    BY <2>2, <2>6, <2>7, <2>8 DEF Resembles, Follows
<1> QED
  BY <1>2, <1>3

LEMMA ResemblesTransitive ==
  ASSUME NEW c, NEW b, NEW a, Resembles(c, b), Resembles(b, a)
  PROVE  Resembles(c, a)
<1>1. /\ laid[a].nativeSize \in Int /\ laid[b].nativeSize \in Int /\ laid[c].nativeSize \in Int
      /\ laid[a].nativeSize <= laid[b].nativeSize /\ laid[b].nativeSize <= laid[c].nativeSize
      /\ laid[a].base = laid[c].base
  BY DEF Resembles
<1>2. laid[a].nativeSize <= laid[c].nativeSize
  BY <1>1
<1> QED
  BY <1>1, <1>2, ContinuesTransitive DEF Resembles

LEMMA ResemblesAncestors ==
  ASSUME Loaded
  PROVE  \A c \in Classes : \A a : Derives(c, a) \/ a = Object => Resembles(c, a)
<1> DEFINE S == {c \in Classes : \A a : Derives(c, a) \/ a = Object => Resembles(c, a)}
<1>1. ASSUME NEW c \in Classes, ParentClass(c) # Null => ParentClass(c) \in S
      PROVE  c \in S
  <2> SUFFICES ASSUME NEW a, Derives(c, a) \/ a = Object
               PROVE  Resembles(c, a)
    OBVIOUS
  <2>1. PICK p : p = ParentClass(c)
    OBVIOUS
  <2>2. CASE p = Null
    <3>1. c = Object /\ c \in DOMAIN BuiltIn
      BY <2>1, <2>2, ClassFacts, BuiltInAssumption
    <3>2. laid[c].nativeSize \in Int
      <4>1. BuiltIn[c].size \in Nat /\ BuiltIn[c].sizeInSubclass \in 0..BuiltIn[c].size
        BY <3>1, BuiltInAssumption
      <4>2. laid[c] = HostLayout(c)
        BY <3>1, ClassFacts
      <4>3. HostLayout(c).nativeSize = BuiltIn[c].sizeInSubclass
        BY DEF HostLayout, EmptyLayout
      <4>4. \A n \in Nat : \A m \in 0..n : m \in Int
        OBVIOUS
      <4> QED
        BY <4>1, <4>2, <4>3, <4>4
    <3>3. a = c
      <4>1. Parent(c) = Null
        BY <2>1, <2>2, ClassFacts
      <4>2. Derives(c, a) => a = c
        BY <4>1, DerivesIs
      <4> QED
        BY <3>1, <4>2
    <3> QED
      BY <3>2, <3>3, ResemblesItself
  <2>3. CASE p # Null
    <3>1. p \in Classes /\ p \in S
      BY <1>1, <2>1, <2>3, ClassFacts
    <3>2. Resembles(p, p)
      BY <3>1 DEF Derives
    <3>3. Resembles(c, p)
      BY <2>1, <2>3, <3>2, ResemblesParent DEF Resembles
    <3>4. CASE a = c
      BY <3>3, <3>4, ResemblesItself DEF Resembles
    <3>5. CASE a # c
      <4>1. Derives(p, a) \/ a = Object
        BY <2>1, <3>5, ClassFacts, DerivesIs
      <4> QED
        BY <3>1, <3>3, <4>1, ResemblesTransitive
    <3> QED
      BY <3>4, <3>5
  <2> QED
    BY <2>2, <2>3
<1> HIDE DEF S
<1>2. \A c \in Classes : c \in S
  BY <1>1, ClassInduction
<1> QED
  BY <1>2 DEF S

LEMMA ResemblesLooks ==
  ASSUME NEW c, NEW a, Resembles(c, a)
  PROVE  LooksLike(c, a)
BY ContinuesPrefix DEF Resembles, LooksLike

-----------------------------------------------------------------------------
(* Conversions, without the type that the search began with.               *)

\* An array type was made after the type of its elements.
Made == CHOOSE arrays : ArraysMade(program, arrays)
Nth(t) == CHOOSE i \in 1..Len(Made) : Made[i] = t

LEMMA ElementsEarlier ==
  ASSUME Loaded, NEW a, IsArray(a)
  PROVE  /\ program[a].of \in Types \ {Varying} /\ Nth(a) \in Nat
         /\ IsArray(program[a].of) =>
              Nth(program[a].of) \in Nat /\ Nth(program[a].of) < Nth(a)
<1>1. ArraysMade(program, Made) /\ Len(Made) \in Nat
  BY DEF Loaded, IInv, ProgramInv, Made, ArraysMade
<1>2. ASSUME NEW t, IsArray(t)
      PROVE  Nth(t) \in 1..Len(Made) /\ Made[Nth(t)] = t
  <2>1. \E i \in 1..Len(Made) : Made[i] = t
    BY <1>1, <1>2 DEF ArraysMade, IsArray, Types
  <2> QED
    BY <2>1 DEF Nth
<1>3. program[a].of \in Types \ {Varying}
  BY DEF Loaded, IInv, LoopInv, ArraysValid, IsArray
<1>4. ASSUME IsArray(program[a].of)
      PROVE  Nth(program[a].of) < Nth(a)
  <2>1. /\ Nth(program[a].of) \in 1..Len(Made) /\ Made[Nth(program[a].of)] = program[a].of
        /\ Nth(a) \in 1..Len(Made) /\ Made[Nth(a)] = a
    BY <1>2, <1>4
  <2>2. Nth(program[a].of) \notin Nth(a)..Len(Made)
    BY <1>1, <2>1 DEF ArraysMade
  <2> QED
    BY <1>1, <2>1, <2>2
<1> QED
  BY <1>1, <1>2, <1>3, <1>4

\* What holds at the greatest depth, and at a depth when it holds one deeper.
LEMMA DepthInduction ==
  ASSUME NEW S, MaxDepth \in S, \A d \in 0..MaxDepth - 1 : d + 1 \in S => d \in S
  PROVE  \A d \in 0..MaxDepth : d \in S
<1> DEFINE T == {n \in Nat : n <= MaxDepth => MaxDepth - n \in S}
<1>1. MaxDepth \in Nat
  BY LargestAssumption
<1>2. 0 \in T
  BY <1>1
<1>3. ASSUME NEW n \in Nat, n \in T
      PROVE  n + 1 \in T
  <2> SUFFICES ASSUME n + 1 <= MaxDepth
               PROVE  MaxDepth - (n + 1) \in S
    OBVIOUS
  <2>1. MaxDepth - n \in S
    BY <1>1, <1>3
  <2>2. MaxDepth - (n + 1) \in 0..MaxDepth - 1 /\ MaxDepth - (n + 1) + 1 = MaxDepth - n
    BY <1>1
  <2> QED
    BY <2>1, <2>2
<1> HIDE DEF T
<1>4. \A n \in Nat : n \in T
  BY <1>2, <1>3, SetInduction
<1>5. ASSUME NEW d \in 0..MaxDepth
      PROVE  d \in S
  <2>1. MaxDepth - d \in T /\ MaxDepth - d <= MaxDepth /\ MaxDepth - (MaxDepth - d) = d
    BY <1>1, <1>4
  <2> QED
    BY <2>1 DEF T
<1> QED
  BY <1>5

(* Which of its own types a search cannot come back to.                    *)
Unmet(i, f) ==
  /\ IsArray(f) => IsArray(i) /\ Nth(f) <= Nth(i)
  /\ TypeIsClass(f) => i = f \/ ~TypeIsClass(i)

Ref(f, t, d) == RefTypesCompatibleRecursive(f)[d][f][t]

\* The check for a type that contains itself makes no difference.
LEMMA InitialFromUnmet ==
  ASSUME Loaded
  PROVE  \A d \in 0..MaxDepth : \A i, f, t \in Types : Unmet(i, f) =>
           RefTypesCompatibleRecursive(i)[d][f][t] = Ref(f, t, d)
<1> DEFINE S == {d \in 0..MaxDepth : \A i, f, t \in Types : Unmet(i, f) =>
                   RefTypesCompatibleRecursive(i)[d][f][t] = Ref(f, t, d)}
<1>1. MaxDepth \in Nat /\ Null \notin Types /\ Types \subseteq Named
  BY LargestAssumption DEF Loaded, IInv, ProgramInv, TypesRead, Types, Named, References
<1>2. ASSUME NEW d \in 0..MaxDepth, NEW i \in Types, NEW f \in Types, NEW t \in Types
      PROVE  /\ RefTypesCompatibleRecursive(i)[d][f][t] \in BOOLEAN
             /\ RefTypesCompatibleRecursive(i)[d][f][t] <=>
                  /\ d < MaxDepth
                  /\ Level(f, t, i, RefTypesCompatibleRecursive(i)[d + 1][program[f].of][program[t].of])
  BY <1>1, CompatibleIs
<1>3. MaxDepth \in S
  <2>1. ~(MaxDepth < MaxDepth) /\ MaxDepth \in 0..MaxDepth
    BY <1>1
  <2>2. ASSUME NEW i \in Types, NEW f \in Types, NEW t \in Types
        PROVE  RefTypesCompatibleRecursive(i)[MaxDepth][f][t] = FALSE
    BY <1>2, <2>1
  <2> QED
    BY <2>1, <2>2 DEF Ref
<1>4. ASSUME NEW d \in 0..MaxDepth - 1, d + 1 \in S
      PROVE  d \in S
  <2>1. d \in 0..MaxDepth /\ d + 1 \in 0..MaxDepth
    BY <1>1
  <2> SUFFICES ASSUME NEW i \in Types, NEW f \in Types, NEW t \in Types, Unmet(i, f)
               PROVE  RefTypesCompatibleRecursive(i)[d][f][t] = RefTypesCompatibleRecursive(f)[d][f][t]
    BY <2>1 DEF Ref
  <2> DEFINE below(j) == RefTypesCompatibleRecursive(j)[d + 1][program[f].of][program[t].of]
  <2>2. ASSUME IsArray(f), IsArray(t)
        PROVE  below(i) = below(f) /\ program[f].of # i /\ program[f].of # f
    <3>1. /\ program[f].of \in Types /\ program[t].of \in Types
          /\ Nth(f) \in Nat /\ Nth(i) \in Nat /\ IsArray(i) /\ Nth(f) <= Nth(i)
          /\ IsArray(program[f].of) => /\ Nth(program[f].of) \in Nat
                                       /\ Nth(program[f].of) < Nth(f)
      BY <2>2, ElementsEarlier DEF Unmet
    <3>2. Unmet(i, program[f].of) /\ Unmet(f, program[f].of)
      BY <2>2, <3>1 DEF Unmet, IsArray, TypeIsClass, Stored, IsStructured
    <3>3. /\ below(i) = Ref(program[f].of, program[t].of, d + 1)
          /\ below(f) = Ref(program[f].of, program[t].of, d + 1)
      BY <1>4, <3>1, <3>2
    <3> QED
      BY <2>2, <3>1, <3>3
  <2>3. ASSUME TypeIsClass(f)
        PROVE  Inherits(program[f].parent, t, i) <=> Inherits(program[f].parent, t, f)
    <3>1. CASE i = f
      BY <3>1
    <3>2. CASE i # f
      <4>1. f \in Classes /\ i \notin Classes
        BY <2>3, <3>2 DEF Unmet, Classes
      <4>2. CASE Parent(f) = Null
        <5>1. \A j : ~Inherits(Null, t, j)
          BY InheritsIs DEF Loaded, IInv, ProgramInv
        <5> QED
          BY <4>2, <5>1 DEF Parent
      <4>3. CASE Parent(f) # Null
        <5>1. Parent(f) \in Classes /\ Rank[Parent(f)] < Rank[f]
          BY <4>1, <4>3, ClassFacts, RankFalls
        <5>2. Inherits(Parent(f), t, i) <=> Derives(Parent(f), t)
          BY <4>1, <5>1, InheritsAbove
        <5>3. Inherits(Parent(f), t, f) <=> Derives(Parent(f), t)
          BY <5>1, InheritsAbove
        <5> QED
          BY <5>2, <5>3 DEF Parent
      <4> QED
        BY <4>2, <4>3
    <3> QED
      BY <3>1, <3>2
  <2>4. Level(f, t, i, below(i)) <=> Level(f, t, f, below(f))
    BY <2>2, <2>3 DEF Level
  <2> QED
    BY <1>2, <2>1, <2>4
<1> HIDE DEF S
<1>5. \A d \in 0..MaxDepth : d \in S
  BY <1>3, <1>4, DepthInduction
<1> QED
  BY <1>5 DEF S

(* What an array is converted to besides classes.                          *)
Elements(f, t, deeper) ==
  /\ IsArray(f) /\ IsArray(t)
  /\ program[f].isConstant => program[t].isConstant
  /\ program[f].dimensions = program[t].dimensions
  /\ \/ program[f].of = program[t].of
     \/ /\ ElementsConvertible(f, t)
        /\ IF TypeIsObjectReference(program[f].of) THEN deeper
           ELSE NonRefTypesCompatible(program[f].of, program[t].of)

Converts(f, t, deeper) ==
  \/ f = t \/ t = Object
  \/ IsArray(f) /\ t = Array
  \/ IsDelegate(f) /\ t = Method
  \/ Elements(f, t, deeper)
  \/ TypeIsClass(f) /\ Derives(f, t)

LEMMA RefIs ==
  ASSUME Loaded, NEW f \in Types, NEW t \in Types, NEW d \in 0..MaxDepth
  PROVE  Ref(f, t, d) <=>
           d < MaxDepth /\ Converts(f, t, Ref(program[f].of, program[t].of, d + 1))
<1>1. MaxDepth \in Nat /\ f # Null /\ f \in Named /\ t \in Named
  BY LargestAssumption DEF Loaded, IInv, ProgramInv, TypesRead, Types, Named, References
<1> DEFINE below == RefTypesCompatibleRecursive(f)[d + 1][program[f].of][program[t].of]
<1>2. Ref(f, t, d) <=> d < MaxDepth /\ Level(f, t, f, below)
  BY <1>1, CompatibleIs DEF Ref
<1>3. ASSUME IsArray(f), IsArray(t), d < MaxDepth
      PROVE  below = Ref(program[f].of, program[t].of, d + 1) /\ program[f].of # f
  <2>1. /\ program[f].of \in Types /\ program[t].of \in Types /\ Nth(f) \in Nat
        /\ IsArray(program[f].of) => /\ Nth(program[f].of) \in Nat
                                     /\ Nth(program[f].of) < Nth(f)
    BY <1>3, ElementsEarlier
  <2>2. Unmet(f, program[f].of) /\ d + 1 \in 0..MaxDepth
    BY <1>1, <1>3, <2>1 DEF Unmet, IsArray, TypeIsClass, Stored, IsStructured
  <2> QED
    BY <1>3, <2>1, <2>2, InitialFromUnmet
<1>4. ASSUME TypeIsClass(f)
      PROVE  (f = t \/ (TypeIsClass(t) /\ Inherits(program[f].parent, t, f))) <=> Derives(f, t)
  <2>1. f \in Classes
    BY <1>4 DEF Classes
  <2>2. Derives(f, t) => TypeIsClass(t)
    BY <2>1, DerivesClass DEF Classes
  <2> QED
    BY <2>2 DEF Derives, Parent
<1>5. d < MaxDepth => (Level(f, t, f, below) <=> Converts(f, t, Ref(program[f].of, program[t].of, d + 1)))
  <2> HIDE DEF below
  <2> QED
    BY <1>1, <1>3, <1>4 DEF Level, Converts, Elements
<1> QED
  BY <1>2, <1>5

(* Which types there are.                                                  *)
LEMMA Kinds ==
  ASSUME Loaded, NEW t \in Types
  PROVE  /\ {Object, Array, Method} \subseteq Classes /\ Classes \subseteq Types
         /\ t \in Classes <=> TypeIsClass(t)
         /\ TypeIsClass(t) => ~IsArray(t) /\ ~IsDelegate(t)
         /\ IsArray(t) => ~IsDelegate(t)
         /\ TypeIsObjectReference(t) <=> IsArray(t) \/ IsDelegate(t) \/ TypeIsClass(t)
         /\ TypeIsObjectReference(t) => ~TypeIsInterface(t) /\ ~IsEnum(t) /\ ~IsStruct(t)
         /\ IsEnum(t) => ~TypeIsInterface(t) /\ ~IsStruct(t)
         /\ Integer \in Types /\ Integer \in DOMAIN BuiltIn
         /\ IsStruct(Integer) /\ ~IsEnum(Integer) /\ ~TypeIsObjectReference(Integer)
<1>1. /\ Null \notin Types /\ BuiltInsFound(program)
      /\ {Object, Array, Method, Integer} \subseteq DOMAIN BuiltIn
  BY BuiltInAssumption DEF Loaded, IInv, ProgramInv, TypesRead, Types
<1>2. {Object, Array, Method, Integer} \subseteq StructuredIn(program)
  BY <1>1 DEF BuiltInsFound
<1>3. {Object, Array, Method} \subseteq Classes
  BY <1>1, <1>2 DEF BuiltInsFound, Classes, TypeIsClass, Stored, IsStructured, Types, StructuredIn
<1>4. /\ Integer \in Types /\ program[Integer].kind = "structured"
      /\ program[Integer].storage = "val struct"
  BY <1>1, <1>2 DEF BuiltInsFound, Types, StructuredIn
<1>5. IsStruct(Integer) /\ ~IsEnum(Integer) /\ ~TypeIsObjectReference(Integer)
  BY <1>1, <1>4 DEF IsStruct, IsEnum, TypeIsObjectReference, IsArray, IsDelegate, TypeIsClass,
                    Stored, IsStructured
<1>6. t \in Classes <=> TypeIsClass(t)
  BY DEF Classes
<1>7. t # Null
  BY <1>1
<1> QED
  BY <1>1, <1>3, <1>4, <1>5, <1>6, <1>7
     DEF Classes, TypeIsObjectReference, IsArray, IsDelegate, TypeIsClass, TypeIsInterface, IsEnum,
         IsStruct, Stored, IsStructured

\* A reference to an object is only converted to another.
LEMMA RefTarget ==
  ASSUME Loaded, NEW f \in Types, NEW t \in Types, NEW d \in 0..MaxDepth,
         TypeIsObjectReference(f), Ref(f, t, d)
  PROVE  TypeIsObjectReference(t)
<1>1. Converts(f, t, Ref(program[f].of, program[t].of, d + 1))
  BY RefIs
<1>2. TypeIsClass(f) /\ Derives(f, t) => TypeIsClass(t)
  BY Kinds, DerivesClass
<1> QED
  BY <1>1, <1>2, Kinds DEF Converts, Elements

\* Deeper in a search nothing more is found.
LEMMA RefShallower ==
  ASSUME Loaded
  PROVE  \A d \in 0..MaxDepth - 1 : \A f, t \in Types : Ref(f, t, d + 1) => Ref(f, t, d)
<1> DEFINE S == {d \in 0..MaxDepth : d < MaxDepth => \A f, t \in Types : Ref(f, t, d + 1) => Ref(f, t, d)}
<1>1. MaxDepth \in Nat
  BY LargestAssumption
<1>2. MaxDepth \in S
  BY <1>1
<1>3. ASSUME NEW d \in 0..MaxDepth - 1, d + 1 \in S
      PROVE  d \in S
  <2>1. d \in 0..MaxDepth /\ d < MaxDepth /\ d + 1 \in 0..MaxDepth
    BY <1>1
  <2> SUFFICES ASSUME NEW f \in Types, NEW t \in Types, Ref(f, t, d + 1)
               PROVE  Ref(f, t, d)
    BY <2>1
  <2> DEFINE below(n) == Ref(program[f].of, program[t].of, n)
  <2>2. d + 1 < MaxDepth /\ Converts(f, t, below(d + 2))
    <3>1. d + 1 + 1 = d + 2
      BY <2>1
    <3> QED
      BY <2>1, <3>1, RefIs
  <2>3. Elements(f, t, below(d + 2)) => Elements(f, t, below(d + 1))
    <3>1. ASSUME IsArray(f), IsArray(t), below(d + 2)
          PROVE  below(d + 1)
      <4>1. program[f].of \in Types /\ program[t].of \in Types
        BY <3>1, ElementsEarlier
      <4>2. d + 1 + 1 = d + 2
        BY <2>1
      <4> QED
        BY <1>3, <2>2, <3>1, <4>1, <4>2
    <3> HIDE DEF below
    <3> QED
      BY <3>1 DEF Elements
  <2>4. Converts(f, t, below(d + 1))
    BY <2>2, <2>3 DEF Converts
  <2> QED
    BY <2>1, <2>4, RefIs
<1> HIDE DEF S
<1>4. \A d \in 0..MaxDepth : d \in S
  BY <1>2, <1>3, DepthInduction
<1>5. ASSUME NEW d \in 0..MaxDepth - 1
      PROVE  d \in S /\ d < MaxDepth
  BY <1>1, <1>4
<1> QED
  BY <1>5 DEF S

LEMMA ObjectDerives ==
  ASSUME Loaded, NEW c \in {Object, Array, Method}, NEW t, Derives(c, t)
  PROVE  t = c \/ t = Object
<1>1. c \in Classes /\ c \in DOMAIN BuiltIn /\ Object \in Classes
  BY BuiltInAssumption DEF Loaded, IInv, ProgramInv, BuiltInsFound, Classes, TypeIsClass, Stored,
                           IsStructured, Types, StructuredIn
<1>2. Parent(c) \in {Object, Null} /\ Parent(Object) = Null
  BY <1>1, ClassFacts DEF Loaded, IInv, ProgramInv, BuiltInsFound, Parent
<1>3. Derives(Object, t) => t = Object
  BY <1>1, <1>2, DerivesIs
<1> QED
  BY <1>1, <1>2, <1>3, DerivesIs

\* A conversion in two steps is a conversion.
LEMMA RefTransitive ==
  ASSUME Loaded
  PROVE  \A d \in 0..MaxDepth : \A f, t, u \in Types :
           TypeIsObjectReference(f) /\ Ref(f, t, d) /\ Ref(t, u, d) => Ref(f, u, d)
<1> DEFINE S == {d \in 0..MaxDepth : \A f, t, u \in Types :
                   TypeIsObjectReference(f) /\ Ref(f, t, d) /\ Ref(t, u, d) => Ref(f, u, d)}
<1>1. MaxDepth \in Nat
  BY LargestAssumption
<1>2. MaxDepth \in S
  <2>1. MaxDepth \in 0..MaxDepth /\ ~(MaxDepth < MaxDepth)
    BY <1>1
  <2> QED
    BY <2>1, RefIs
<1>3. ASSUME NEW d \in 0..MaxDepth - 1, d + 1 \in S
      PROVE  d \in S
  <2>1. d \in 0..MaxDepth /\ d < MaxDepth /\ d + 1 \in 0..MaxDepth
    BY <1>1
  <2> SUFFICES ASSUME NEW f \in Types, NEW t \in Types, NEW u \in Types,
                      TypeIsObjectReference(f), Ref(f, t, d), Ref(t, u, d)
               PROVE  Ref(f, u, d)
    BY <2>1
  <2> DEFINE below(a, b) == Ref(program[a].of, program[b].of, d + 1)
  <2>2. Converts(f, t, below(f, t)) /\ Converts(t, u, below(t, u))
    BY <2>1, RefIs
  <2>3. Converts(f, u, below(f, u))
    <3>1. CASE f = t \/ t = u \/ u = Object
      BY <2>2, <3>1 DEF Converts
    <3>2. CASE /\ t \in {Object, Array, Method}
               /\ t # u /\ u # Object
      <4>1. t \in Classes /\ TypeIsClass(t) /\ ~IsArray(t) /\ ~IsDelegate(t)
        BY <3>2, Kinds
      <4>2. Derives(t, u)
        BY <2>2, <3>2, <4>1 DEF Converts, Elements
      <4> QED
        BY <3>2, <4>2, ObjectDerives
    <3>3. CASE Elements(f, t, below(f, t)) /\ f # t /\ t # u /\ u # Object
      <4>1. IsArray(f) /\ IsArray(t) /\ ~TypeIsClass(t) /\ ~IsDelegate(t)
        BY <3>3, Kinds DEF Elements
      <4>2. CASE u = Array
        BY <4>1, <4>2 DEF Converts
      <4>3. CASE Elements(t, u, below(t, u))
        <5>1. /\ program[f].of \in Types /\ program[t].of \in Types /\ program[u].of \in Types
              /\ IsArray(u)
          BY <4>1, <4>3, ElementsEarlier DEF Elements
        <5>2. ASSUME TypeIsObjectReference(program[f].of), below(f, t)
              PROVE  /\ TypeIsObjectReference(program[t].of)
                     /\ below(t, u) => below(f, u)
          <6>1. TypeIsObjectReference(program[t].of)
            BY <2>1, <5>1, <5>2, RefTarget
          <6>2. \A g, h, k \in Types : TypeIsObjectReference(g) /\ Ref(g, h, d + 1) /\ Ref(h, k, d + 1)
                  => Ref(g, k, d + 1)
            BY <1>3
          <6> QED
            BY <5>1, <5>2, <6>1, <6>2
        <5>3. ASSUME ~TypeIsObjectReference(program[f].of),
                     NonRefTypesCompatible(program[f].of, program[t].of)
              PROVE  /\ program[f].of # program[t].of => ~TypeIsObjectReference(program[t].of)
                     /\ NonRefTypesCompatible(program[t].of, program[u].of)
                          => NonRefTypesCompatible(program[f].of, program[u].of)
          BY <5>1, <5>3, Kinds DEF NonRefTypesCompatible
        <5> HIDE DEF below
        <5>4. Elements(f, u, below(f, u))
          <6>1. CASE program[f].of = program[t].of
            <7>1. program[f].of # program[u].of =>
                    below(f, u) <=> below(t, u)
              BY <6>1 DEF below
            <7> QED
              BY <3>3, <4>3, <6>1, <7>1 DEF Elements, ElementsConvertible
          <6>2. CASE program[f].of # program[t].of
            <7>1. CASE program[t].of = program[u].of
              <8>1. below(f, u) <=> below(f, t)
                BY <7>1 DEF below
              <8> QED
                BY <3>3, <4>3, <6>2, <7>1, <8>1 DEF Elements, ElementsConvertible
            <7>2. CASE program[t].of # program[u].of
              BY <3>3, <4>3, <5>2, <5>3, <6>2, <7>2 DEF Elements, ElementsConvertible
            <7> QED
              BY <7>1, <7>2
          <6> QED
            BY <6>1, <6>2
        <5> QED
          BY <5>4 DEF Converts
      <4> QED
        BY <2>2, <3>3, <4>1, <4>2, <4>3 DEF Converts
    <3>4. CASE TypeIsClass(f) /\ Derives(f, t) /\ t # u /\ u # Object
      <4>1. f \in Classes /\ t \in Classes
        BY <3>4, Kinds, DerivesClass
      <4>2. TypeIsClass(t) /\ ~IsArray(t) /\ ~IsDelegate(t)
        BY <4>1, Kinds
      <4>3. Derives(t, u)
        BY <2>2, <3>4, <4>2 DEF Converts, Elements
      <4>4. Derives(f, u)
        BY <3>4, <4>1, <4>3, DerivesTransitive
      <4> QED
        BY <3>4, <4>4 DEF Converts
    <3> QED
      BY <2>2, <3>1, <3>2, <3>3, <3>4 DEF Converts
  <2> QED
    BY <2>1, <2>3, RefIs
<1> HIDE DEF S
<1>4. \A d \in 0..MaxDepth : d \in S
  BY <1>2, <1>3, DepthInduction
<1> QED
  BY <1>4 DEF S

LEMMA CompatibleRef ==
  ASSUME Loaded, NEW f \in Types, NEW t \in Types
  PROVE  /\ TypeIsObjectReference(f) =>
              (TypesCompatible(f, t) <=> f = t \/ Ref(f, t, 0)) /\ (TypesCompatible(f, t) => TypeIsObjectReference(t))
         /\ ~TypeIsObjectReference(f) =>
              (TypesCompatible(f, t) <=> f = t \/ (IsEnum(f) /\ t = Integer))
<1>1. 0 \in 0..MaxDepth
  BY LargestAssumption
<1>2. TypeIsObjectReference(f) => ~IsEnum(f)
  BY Kinds
<1>3. TypeIsObjectReference(f) /\ Ref(f, t, 0) => TypeIsObjectReference(t)
  BY <1>1, RefTarget
<1> QED
  BY <1>2, <1>3 DEF TypesCompatible, Ref

LEMMA CompatibleTransitive ==
  ASSUME Loaded, NEW f \in Types, NEW t \in Types, NEW u \in Types,
         TypesCompatible(f, t), TypesCompatible(t, u)
  PROVE  TypesCompatible(f, u)
<1>1. 0 \in 0..MaxDepth
  BY LargestAssumption
<1>2. CASE TypeIsObjectReference(f)
  <2>1. TypeIsObjectReference(t)
    BY <1>2, CompatibleRef
  <2>2. TypeIsObjectReference(f) /\ Ref(f, t, 0) /\ Ref(t, u, 0) => Ref(f, u, 0)
    BY <1>1, RefTransitive
  <2> QED
    BY <1>2, <2>1, <2>2, CompatibleRef
<1>3. CASE ~TypeIsObjectReference(f)
  BY <1>3, CompatibleRef, Kinds
<1> QED
  BY <1>2, <1>3

\* A class is converted to what it derives from, and to Core.Object.
LEMMA CompatibleClass ==
  ASSUME Loaded, NEW c \in Classes, NEW t \in Types
  PROVE  TypesCompatible(c, t) <=> t = Object \/ Derives(c, t)
<1>1. 0 \in 0..MaxDepth /\ 0 < MaxDepth
  BY LargestAssumption
<1>2. c \in Types /\ TypeIsClass(c) /\ TypeIsObjectReference(c) /\ ~IsArray(c) /\ ~IsDelegate(c)
  BY Kinds
<1>3. Ref(c, t, 0) <=> c = t \/ t = Object \/ Derives(c, t)
  BY <1>1, <1>2, RefIs DEF Converts, Elements
<1> QED
  BY <1>2, <1>3, CompatibleRef DEF Derives

LEMMA EnumerantSize ==
  ASSUME Loaded, NEW f \in Types, IsEnum(f)
  PROVE  TypeValueSize(f) = TypeValueSize(Integer)
<1>1. TypeValueSize(f) = EnumerantPart
  BY Kinds DEF TypeValueSize
<1>2. Integer \in DOMAIN BuiltIn /\ IsStruct(Integer) /\ ~IsEnum(Integer) /\ ~TypeIsInterface(Integer)
  BY Kinds DEF IsStruct, TypeIsInterface, Stored
<1>3. TypeValueSize(Integer) = [size |-> laid[Integer].size, alignment |-> laid[Integer].alignment]
  BY <1>2 DEF TypeValueSize
<1>4. laid[Integer] = HostLayout(Integer)
  BY <1>2 DEF Loaded, IInv, LaidInv
<1>5. /\ laid[Integer].size = BuiltIn[Integer].size
      /\ laid[Integer].alignment = BuiltIn[Integer].alignment
  BY <1>4 DEF HostLayout, EmptyLayout
<1> QED
  BY <1>1, <1>3, <1>5, BuiltInAssumption

LEMMA ReferenceSize ==
  ASSUME Loaded, NEW f \in Types, TypeIsObjectReference(f)
  PROVE  TypeValueSize(f) = ReferencePart
BY Kinds DEF TypeValueSize

LEMMA ArraysAgree ==
  ASSUME Loaded, NEW f \in Types, NEW t \in Types, IsArray(f), IsArray(t), TypesCompatible(f, t)
  PROVE  ElementsAgree(f, t)
<1> DEFINE from == program[f].of
           to == program[t].of
<1>1. from \in Types /\ to \in Types
  BY ElementsEarlier
<1>2. 0 \in 0..MaxDepth /\ 0 < MaxDepth /\ 0 \in 0..MaxDepth - 1 /\ 1 \in 0..MaxDepth
  BY LargestAssumption
<1>3. CASE f = t
  BY <1>3 DEF ElementsAgree, TypesCompatible
<1>4. CASE f # t
  <2>1. Elements(f, t, Ref(from, to, 1))
    <3>1. TypeIsObjectReference(f) /\ ~TypeIsClass(f) /\ ~TypeIsClass(t) /\ ~IsDelegate(f)
      BY Kinds
    <3>2. Ref(f, t, 0)
      BY <1>4, <3>1, CompatibleRef
    <3>3. Converts(f, t, Ref(from, to, 0 + 1))
      BY <1>2, <3>2, RefIs
    <3> QED
      BY <1>4, <3>1, <3>3, Kinds DEF Converts
  <2>2. CASE from = to
    BY <2>1, <2>2 DEF Elements, ElementsAgree, TypesCompatible
  <2>3. CASE from # to /\ TypeIsObjectReference(from)
    <3>1. Ref(from, to, 1) /\ program[t].isConstant
      BY <2>1, <2>3 DEF Elements, ElementsConvertible
    <3>2. Ref(from, to, 0 + 1) => Ref(from, to, 0)
      BY <1>1, <1>2, RefShallower
    <3>3. TypesCompatible(from, to) /\ TypeIsObjectReference(to)
      BY <1>1, <2>3, <3>1, <3>2, CompatibleRef
    <3>4. TypeValueSize(from) = TypeValueSize(to)
      BY <1>1, <2>3, <3>3, ReferenceSize
    <3> QED
      BY <2>1, <3>1, <3>3, <3>4 DEF Elements, ElementsAgree
  <2>4. CASE from # to /\ ~TypeIsObjectReference(from)
    <3>1. IsEnum(from) /\ to = Integer /\ program[t].isConstant
      BY <2>1, <2>4 DEF Elements, ElementsConvertible, NonRefTypesCompatible
    <3>2. TypeValueSize(from) = TypeValueSize(to)
      BY <1>1, <3>1, EnumerantSize
    <3> QED
      BY <2>1, <3>1, <3>2 DEF Elements, ElementsAgree, TypesCompatible
  <2> QED
    BY <2>2, <2>3, <2>4
<1> QED
  BY <1>3, <1>4

\* A conversion that is not checked at run time is one to what the object is:
\* a class looks like its ancestor at all of that one's offsets, the elements of
\* an array are of the other's type and none can be written that this array does
\* not hold, and two conversions make one.  This is what the verifier takes from
\* TypesCompatible.
THEOREM ConversionsSafe == Spec => []CompatibleIsSafe
<1>1. IInv => CompatibleIsSafe
  <2> SUFFICES ASSUME IInv, phase = "loaded",
                      NEW from \in Types \ {Varying}, NEW to \in Types \ {Varying},
                      TypesCompatible(from, to)
               PROVE  /\ TypeIsClass(from) => TypeIsClass(to) /\ LooksLike(from, to)
                      /\ IsArray(from) /\ IsArray(to) => ElementsAgree(from, to)
                      /\ ~TypeIsObjectReference(from) => TypeValueSize(from) = TypeValueSize(to)
                      /\ \A further \in Types \ {Varying} :
                           TypesCompatible(to, further) => TypesCompatible(from, further)
    BY DEF CompatibleIsSafe
  <2>1. Loaded
    BY DEF Loaded
  <2>2. ASSUME TypeIsClass(from)
        PROVE  TypeIsClass(to) /\ LooksLike(from, to)
    <3>1. from \in Classes
      BY <2>1, <2>2, Kinds
    <3>2. to = Object \/ Derives(from, to)
      BY <2>1, <3>1, CompatibleClass
    <3>3. Resembles(from, to)
      BY <2>1, <3>1, <3>2, ResemblesAncestors
    <3>4. to \in Classes
      BY <2>1, <3>1, <3>2, Kinds, DerivesClass
    <3> QED
      BY <2>1, <3>3, <3>4, Kinds, ResemblesLooks
  <2>3. IsArray(from) /\ IsArray(to) => ElementsAgree(from, to)
    BY <2>1, ArraysAgree
  <2>4. ~TypeIsObjectReference(from) => TypeValueSize(from) = TypeValueSize(to)
    BY <2>1, CompatibleRef, EnumerantSize
  <2>5. \A further \in Types \ {Varying} :
           TypesCompatible(to, further) => TypesCompatible(from, further)
    BY <2>1, CompatibleTransitive
  <2> QED
    BY <2>2, <2>3, <2>4, <2>5
<1> QED
  BY <1>1, Invariance, PTL

-----------------------------------------------------------------------------
(* The tables of methods.                                                  *)
LEMMA AncestorsAre ==
  ASSUME Loaded, NEW c \in Classes, NEW a
  PROVE  a \in Ancestors(c) <=> Derives(c, a)
<1>1. TypeIsClass(c)
  BY DEF Classes
<1>2. Derives(c, a) => a \in Classes
  BY DerivesClass
<1> QED
  BY <1>1, <1>2 DEF Ancestors, Derives, Parent

(* The signature of one is that of the other but for "this".               *)
Matches(called, found) ==
  /\ found.this = called.this /\ found.returns = called.returns
  /\ Len(found.parameters) = Len(called.parameters)
  /\ \A i \in DOMAIN called.parameters \ {called.this} :
       found.parameters[i] = called.parameters[i]

MethodRead(m) == m.parameters \in Seq(ParametersOver(program))

LEMMA MatchesTransitive ==
  ASSUME NEW x, NEW y, NEW z, MethodRead(x), MethodRead(y), Matches(x, y), Matches(y, z)
  PROVE  Matches(x, z)
<1>1. DOMAIN x.parameters = DOMAIN y.parameters
  BY DEF MethodRead, Matches
<1> QED
  BY <1>1 DEF Matches

LEMMA OverrideMatches ==
  ASSUME NEW st, NEW x, NEW y, MethodRead(x), MethodRead(y), MethodOverrideCompatible(st, x, y)
  PROVE  Matches(x, y)
<1>1. CASE x = y
  BY <1>1 DEF Matches
<1>2. CASE x # y
  <2>1. /\ y.returns = x.returns /\ y.this = x.this
        /\ Len(y.parameters) = Len(x.parameters)
    BY <1>2 DEF MethodOverrideCompatible
  <2>2. ASSUME NEW i \in DOMAIN x.parameters \ {x.this}
        PROVE  y.parameters[i] = x.parameters[i]
    <3>1. /\ y.parameters[i].type = x.parameters[i].type
          /\ y.parameters[i].isConstant = x.parameters[i].isConstant
          /\ y.parameters[i].isNotNull = x.parameters[i].isNotNull
      BY <1>2, <2>2 DEF MethodOverrideCompatible
    <3>2. /\ x.parameters[i] \in ParametersOver(program)
          /\ y.parameters[i] \in ParametersOver(program)
      BY <2>1, <2>2 DEF MethodRead
    <3> QED
      BY <3>1, <3>2 DEF ParametersOver
  <2> QED
    BY <2>1, <2>2 DEF Matches
<1> QED
  BY <1>1, <1>2

LEMMA MethodsRead ==
  ASSUME Loaded, NEW t \in Structured
  PROVE  /\ Len(program[t].methods) \in Nat
         /\ DOMAIN program[t].methods = 1..Len(program[t].methods)
         /\ \A i \in DOMAIN program[t].methods : MethodRead(program[t].methods[i])
BY DEF Loaded, IInv, ProgramInv, TypesRead, Structured, MethodRead

\* Every method takes an object of the class it is found in as its "this".
LEMMA ThisTaken ==
  ASSUME Loaded
  PROVE  \A c \in Classes : \A i \in DOMAIN program[c].methods :
           LET m == program[c].methods[i]
           IN TypesCompatible(c, m.parameters[m.this].type)
<1> DEFINE S == {c \in Classes : \A i \in DOMAIN program[c].methods :
                   LET m == program[c].methods[i]
                   IN m.parameters[m.this].type \in Types
                        /\ TypesCompatible(c, m.parameters[m.this].type)}
<1>1. ASSUME NEW c \in Classes, ParentClass(c) # Null => ParentClass(c) \in S
      PROVE  c \in S
  <2> SUFFICES ASSUME NEW i \in DOMAIN program[c].methods,
                      NEW m, m = program[c].methods[i],
                      NEW type, type = m.parameters[m.this].type
               PROVE  type \in Types /\ TypesCompatible(c, type)
    OBVIOUS
  <2>1. c \in Structured /\ c \in Types
    BY ClassFacts
  <2>2. program[c].methods # <<>>
    <3>1. DOMAIN <<>> = {}
      OBVIOUS
    <3> QED
      BY <3>1
  <2>3. ThisValid(c, i)
    BY <2>2, ClassFacts DEF StructureValid, MethodsValid
  <2>4. CASE type = c
    BY <2>1, <2>4 DEF TypesCompatible
  <2>5. CASE i <= Len(ParentMethods(c)) /\ ParentMethods(c)[i] = m
    <3>1. Parent(c) # Null
      <4>1. i \in Nat /\ i >= 1
        BY <2>1, MethodsRead
      <4>2. Len(<<>>) = 0
        BY EmptyIs
      <4> QED
        BY <2>5, <4>1, <4>2 DEF ParentMethods
    <3>2. Parent(c) \in Classes /\ Parent(c) \in S /\ ParentMethods(c) = program[Parent(c)].methods
      BY <1>1, <3>1, ClassFacts DEF ParentMethods
    <3>3. i \in DOMAIN program[Parent(c)].methods
      <4>1. Parent(c) \in Structured
        BY <3>2, ClassFacts
      <4> QED
        BY <2>1, <2>5, <3>2, <4>1, MethodsRead
    <3>4. type \in Types /\ TypesCompatible(Parent(c), type)
      BY <2>5, <3>2, <3>3
    <3>5. type = Object \/ Derives(Parent(c), type)
      BY <3>2, <3>4, CompatibleClass
    <3>6. type = Object \/ Derives(c, type)
      BY <3>1, <3>5, DerivesIs
    <3> QED
      BY <3>4, <3>6, CompatibleClass
  <2> QED
    BY <2>3, <2>4, <2>5 DEF ThisValid
<1> HIDE DEF S
<1>2. \A c \in Classes : c \in S
  BY <1>1, ClassInduction
<1> QED
  BY <1>2 DEF S

LEMMA EmptyTable ==
  ASSUME Loaded, NEW t \in Structured, NEW i \in DOMAIN program[t].methods
  PROVE  program[t].methods # <<>>
<1>1. DOMAIN <<>> = {}
  OBVIOUS
<1> QED
  BY <1>1

LEMMA KeepsTablesParent ==
  ASSUME Loaded, NEW c \in Classes, Parent(c) # Null, KeepsTables(c)
  PROVE  /\ KeepsTables(Parent(c))
         /\ \A g : Derives(Parent(c), g) /\ program[g].methods # <<>> => program[Parent(c)].methods # <<>>
         /\ program[Parent(c)].methods # <<>> => program[c].methods # <<>>
<1> DEFINE p == Parent(c)
<1>1. p \in Classes
  BY ClassFacts
<1>2. \A a : Derives(p, a) => Derives(c, a)
  BY DerivesIs
<1>3. \A a : a \in Ancestors(p) => a \in Ancestors(c)
  BY <1>1, <1>2, AncestorsAre
<1>4. p \in Ancestors(c) /\ c \in Ancestors(c)
  BY <1>1, <1>2, AncestorsAre DEF Derives
<1>5. \A g : Derives(p, g) => g \in Ancestors(p)
  BY <1>1, AncestorsAre
<1> QED
  BY <1>3, <1>4, <1>5 DEF KeepsTables

\* A class has the methods of its parent in the same slots.
LEMMA ParentSlots ==
  ASSUME Loaded, NEW c \in Classes, Parent(c) # Null, program[c].methods # <<>>,
         NEW i \in DOMAIN program[Parent(c)].methods
  PROVE  /\ i \in DOMAIN program[c].methods
         /\ Matches(program[Parent(c)].methods[i], program[c].methods[i])
         /\ program[c].methods[i].isAbstract => program[c].isAbstract
<1> DEFINE p == Parent(c)
<1>1. p \in Classes /\ p \in Structured /\ c \in Structured
  <2>1. p \in Classes
    BY ClassFacts
  <2> QED
    BY <2>1, ClassFacts
<1>2. MethodsValid(c) /\ ParentMethods(c) = program[p].methods
  BY ClassFacts DEF StructureValid, ParentMethods
<1>3. i \in DOMAIN program[c].methods
  BY <1>1, <1>2, MethodsRead DEF MethodsValid
<1>4. /\ MethodOverrideCompatible(c, program[p].methods[i], program[c].methods[i])
      /\ program[c].methods[i].isAbstract => program[c].isAbstract
  BY <1>2 DEF MethodsValid
<1>5. MethodRead(program[p].methods[i]) /\ MethodRead(program[c].methods[i])
  BY <1>1, <1>3, MethodsRead
<1> QED
  BY <1>3, <1>4, <1>5, OverrideMatches

\* ... and those of every ancestor.
LEMMA AncestorSlots ==
  ASSUME Loaded
  PROVE  \A c \in Classes : KeepsTables(c) /\ program[c].methods # <<>> =>
           \A a : Derives(c, a) => \A i \in DOMAIN program[a].methods :
             /\ i \in DOMAIN program[c].methods
             /\ Matches(program[a].methods[i], program[c].methods[i])
             /\ a # c /\ program[c].methods[i].isAbstract => program[c].isAbstract
<1> DEFINE S == {c \in Classes : KeepsTables(c) /\ program[c].methods # <<>> =>
                   \A a : Derives(c, a) => \A i \in DOMAIN program[a].methods :
                     /\ i \in DOMAIN program[c].methods
                     /\ Matches(program[a].methods[i], program[c].methods[i])
                     /\ a # c /\ program[c].methods[i].isAbstract => program[c].isAbstract}
<1>1. ASSUME NEW c \in Classes, ParentClass(c) # Null => ParentClass(c) \in S
      PROVE  c \in S
  <2> SUFFICES ASSUME KeepsTables(c), program[c].methods # <<>>,
                      NEW a, Derives(c, a), NEW i \in DOMAIN program[a].methods
               PROVE  /\ i \in DOMAIN program[c].methods
                      /\ Matches(program[a].methods[i], program[c].methods[i])
                      /\ a # c /\ program[c].methods[i].isAbstract => program[c].isAbstract
    OBVIOUS
  <2>1. CASE a = c
    BY <2>1 DEF Matches
  <2>2. CASE a # c
    <3> DEFINE p == Parent(c)
    <3>1. p # Null /\ Derives(p, a) /\ p \in Classes /\ p \in S /\ a \in Classes
      <4>1. p # Null /\ Derives(p, a)
        BY <2>2, DerivesIs
      <4> QED
        BY <1>1, <4>1, ClassFacts, DerivesClass
    <3>2. a \in Structured /\ p \in Structured /\ c \in Structured
      BY <3>1, ClassFacts
    <3>3. KeepsTables(p) /\ program[p].methods # <<>>
      BY <3>1, <3>2, EmptyTable, KeepsTablesParent
    <3>4. /\ i \in DOMAIN program[p].methods
          /\ Matches(program[a].methods[i], program[p].methods[i])
      BY <3>1, <3>3
    <3>5. /\ i \in DOMAIN program[c].methods
          /\ Matches(program[p].methods[i], program[c].methods[i])
          /\ program[c].methods[i].isAbstract => program[c].isAbstract
      BY <3>1, <3>4, ParentSlots
    <3>6. MethodRead(program[a].methods[i]) /\ MethodRead(program[p].methods[i])
      BY <3>2, <3>4, MethodsRead
    <3> QED
      BY <3>4, <3>5, <3>6, MatchesTransitive
  <2> QED
    BY <2>1, <2>2
<1> HIDE DEF S
<1>2. \A c \in Classes : c \in S
  BY <1>1, ClassInduction
<1> QED
  BY <1>2 DEF S

\* An interface has its methods one after the other in the class's table.
LEMMA InterfaceSlots ==
  ASSUME Loaded
  PROVE  \A c \in Classes : KeepsTables(c) => \A k \in DOMAIN program[c].interfaces :
           LET impl == program[c].interfaces[k]
           IN /\ TypeIsInterface(impl.type) /\ impl.vftOffset \in Int
              /\ \A i \in DOMAIN program[impl.type].methods :
                   /\ impl.vftOffset + i \in DOMAIN program[c].methods
                   /\ Matches(program[impl.type].methods[i], program[c].methods[impl.vftOffset + i])
<1> DEFINE Found(c, impl) ==
             /\ TypeIsInterface(impl.type) /\ impl.vftOffset \in Int
             /\ \A i \in DOMAIN program[impl.type].methods :
                  /\ impl.vftOffset + i \in DOMAIN program[c].methods
                  /\ Matches(program[impl.type].methods[i], program[c].methods[impl.vftOffset + i])
           S == {c \in Classes : KeepsTables(c) =>
                   \A k \in DOMAIN program[c].interfaces : Found(c, program[c].interfaces[k])}
<1>1. ASSUME NEW c \in Classes, ParentClass(c) # Null => ParentClass(c) \in S
      PROVE  c \in S
  <2> SUFFICES ASSUME KeepsTables(c), NEW k \in DOMAIN program[c].interfaces
               PROVE  Found(c, program[c].interfaces[k])
    OBVIOUS
  <2>1. PICK impl : impl = program[c].interfaces[k]
    OBVIOUS
  <2>2. program[c].interfaces # <<>>
    <3>1. DOMAIN <<>> = {}
      OBVIOUS
    <3> QED
      BY <3>1
  <2>3. /\ StructureValid(c) /\ c \in Structured
        /\ program[c].interfaces \in Seq([type : References(program), vftOffset : Int])
        /\ impl.vftOffset \in Int /\ k \in 1..Len(program[c].interfaces)
    <3>1. c \in Structured /\ StructureValid(c)
      BY <2>2, ClassFacts
    <3>2. program[c].interfaces \in Seq([type : References(program), vftOffset : Int])
      BY <3>1 DEF Loaded, IInv, ProgramInv, TypesRead, Structured
    <3>3. k \in 1..Len(program[c].interfaces)
      BY <3>2
    <3>4. impl \in [type : References(program), vftOffset : Int]
      <4>1. \A R : \A s \in Seq(R) : \A j \in 1..Len(s) : s[j] \in R
        OBVIOUS
      <4> QED
        BY <2>1, <3>2, <3>3, <4>1
    <3> QED
      BY <3>1, <3>2, <3>3, <3>4
  <2>4. /\ Len(ParentInterfaces(c)) <= Len(program[c].interfaces)
        /\ \A i \in DOMAIN ParentInterfaces(c) : program[c].interfaces[i] = ParentInterfaces(c)[i]
        /\ \A i \in Len(ParentInterfaces(c)) + 1..Len(program[c].interfaces) :
             ImplementationValid(c, program[c].interfaces[i])
    BY <2>2, <2>3 DEF StructureValid, InterfacesValid
  <2>5. CASE k \in DOMAIN ParentInterfaces(c)
    <3> DEFINE p == Parent(c)
    <3>1. p # Null
      <4>1. DOMAIN <<>> = {}
        OBVIOUS
      <4> QED
        BY <2>5, <4>1 DEF ParentInterfaces
    <3>2. p \in Classes /\ p \in S /\ ParentInterfaces(c) = program[p].interfaces
      BY <1>1, <3>1, ClassFacts DEF ParentInterfaces
    <3>3. KeepsTables(p) /\ Found(p, impl)
      BY <2>1, <2>4, <2>5, <3>1, <3>2, KeepsTablesParent
    <3>4. TypeIsInterface(impl.type) /\ impl.vftOffset \in Int /\ p \in Structured /\ impl.type \in Structured
      BY <3>2, <3>3, ClassFacts DEF TypeIsInterface, Stored, IsStructured, Types, Structured, StructuredIn
    <3>5. ASSUME NEW i \in DOMAIN program[impl.type].methods
          PROVE  /\ impl.vftOffset + i \in DOMAIN program[c].methods
                 /\ Matches(program[impl.type].methods[i], program[c].methods[impl.vftOffset + i])
      <4> DEFINE slot == impl.vftOffset + i
      <4>1. /\ slot \in DOMAIN program[p].methods
            /\ Matches(program[impl.type].methods[i], program[p].methods[slot])
        BY <3>3, <3>5
      <4>2. program[c].methods # <<>>
        BY <3>1, <3>4, <4>1, EmptyTable, KeepsTablesParent
      <4>3. /\ slot \in DOMAIN program[c].methods
            /\ Matches(program[p].methods[slot], program[c].methods[slot])
        BY <3>1, <4>1, <4>2, ParentSlots
      <4>4. MethodRead(program[impl.type].methods[i]) /\ MethodRead(program[p].methods[slot])
        BY <3>4, <4>1, MethodsRead
      <4> QED
        BY <4>1, <4>3, <4>4, MatchesTransitive
    <3> QED
      BY <2>1, <3>4, <3>5
  <2>6. CASE k \notin DOMAIN ParentInterfaces(c)
    <3>1. ImplementationValid(c, impl)
      <4>1. Len(ParentInterfaces(c)) \in Nat /\ DOMAIN ParentInterfaces(c) = 1..Len(ParentInterfaces(c))
        <5>1. Parent(c) # Null => /\ Parent(c) \in Structured
                                  /\ ParentInterfaces(c) = program[Parent(c)].interfaces
          <6>1. Parent(c) # Null => Parent(c) \in Classes
            BY ClassFacts
          <6> QED
            BY <6>1, ClassFacts DEF ParentInterfaces
        <5>2. Parent(c) # Null =>
                ParentInterfaces(c) \in Seq([type : References(program), vftOffset : Int])
          BY <5>1 DEF Loaded, IInv, ProgramInv, TypesRead, Structured
        <5>3. Parent(c) = Null => ParentInterfaces(c) = <<>>
          BY DEF ParentInterfaces
        <5>4. Len(<<>>) = 0 /\ DOMAIN <<>> = 1..0
          OBVIOUS
        <5> QED
          BY <5>2, <5>3, <5>4
      <4>2. k \in Len(ParentInterfaces(c)) + 1..Len(program[c].interfaces)
        BY <2>3, <2>6, <4>1
      <4> QED
        BY <2>1, <2>4, <4>2
    <3>2. TypeIsInterface(impl.type) /\ impl.type \in Structured
      BY <3>1 DEF ImplementationValid, TypeIsInterface, Stored, IsStructured, Types, Structured, StructuredIn
    <3>3. ASSUME NEW i \in DOMAIN program[impl.type].methods
          PROVE  /\ impl.vftOffset + i \in DOMAIN program[c].methods
                 /\ Matches(program[impl.type].methods[i], program[c].methods[impl.vftOffset + i])
      <4> DEFINE slot == impl.vftOffset + i
      <4>1. /\ impl.vftOffset >= 0
            /\ impl.vftOffset + Len(program[impl.type].methods) <= Len(program[c].methods)
            /\ MethodOverrideCompatible(c, program[impl.type].methods[i], program[c].methods[slot])
        BY <3>1 DEF ImplementationValid, SlotOf
      <4>2. i \in 1..Len(program[impl.type].methods) /\ Len(program[impl.type].methods) \in Nat
             /\ Len(program[c].methods) \in Nat
             /\ DOMAIN program[c].methods = 1..Len(program[c].methods)
        BY <2>3, <3>2, MethodsRead
      <4>3. slot \in DOMAIN program[c].methods
        <5>1. \A n, m, v \in Int : i \in 1..n /\ v >= 0 /\ v + n <= m => v + i \in 1..m
          OBVIOUS
        <5>2. slot \in 1..Len(program[c].methods)
          BY <2>3, <4>1, <4>2, <5>1, SMTT(30)
        <5> QED
          BY <4>2, <5>2
      <4>4. MethodRead(program[impl.type].methods[i]) /\ MethodRead(program[c].methods[slot])
        BY <2>3, <3>2, <4>3, MethodsRead
      <4> QED
        BY <4>1, <4>3, <4>4, OverrideMatches
    <3> QED
      BY <2>1, <2>3, <3>2, <3>3
  <2> QED
    BY <2>5, <2>6
<1> HIDE DEF S
<1>2. \A c \in Classes : c \in S
  BY <1>1, ClassInduction
<1> QED
  BY <1>2 DEF S

LEMMA AnswersWhenMatched ==
  ASSUME Loaded, NEW c \in Classes, NEW i \in DOMAIN program[c].methods, NEW called,
         Matches(called, program[c].methods[i])
  PROVE  Answers(c, called, program[c].methods[i])
<1>1. \A j \in DOMAIN program[c].methods :
         TypesCompatible(c, program[c].methods[j].parameters[program[c].methods[j].this].type)
  BY ThisTaken
<1> QED
  BY <1>1 DEF Matches, Answers

\* A call through the table of an object finds, in the slot of the method that
\* was called, a method with its signature that takes the object, whether it is
\* called as one of an ancestor or as one of an interface; this is what the
\* calls of rdx_interpret.cpp take from the validation of tables.
THEOREM CallsAnswered == Spec => []DispatchSafe
<1>1. IInv => DispatchSafe
  <2> SUFFICES ASSUME IInv, phase = "loaded", NEW c \in Classes \ DOMAIN BuiltIn,
                      program[c].methods # <<>>, KeepsTables(c)
               PROVE  /\ \A a \in Ancestors(c) : \A i \in DOMAIN program[a].methods :
                           /\ Answers(c, program[a].methods[i], program[c].methods[i])
                           /\ a # c /\ program[c].methods[i].isAbstract => program[c].isAbstract
                      /\ \A a \in Ancestors(c) : \A k \in DOMAIN program[a].interfaces :
                           LET impl == program[a].interfaces[k]
                               table == program[impl.type].methods
                           IN \A i \in DOMAIN table :
                                Answers(c, table[i], program[c].methods[impl.vftOffset + i])
    BY DEF DispatchSafe
  <2>1. Loaded
    BY DEF Loaded
  <2>2. ASSUME NEW a \in Ancestors(c), NEW i \in DOMAIN program[a].methods
        PROVE  /\ i \in DOMAIN program[c].methods
               /\ Matches(program[a].methods[i], program[c].methods[i])
               /\ Answers(c, program[a].methods[i], program[c].methods[i])
               /\ a # c /\ program[c].methods[i].isAbstract => program[c].isAbstract
    <3>1. Derives(c, a)
      BY <2>1, AncestorsAre
    <3>2. /\ i \in DOMAIN program[c].methods
          /\ Matches(program[a].methods[i], program[c].methods[i])
          /\ a # c /\ program[c].methods[i].isAbstract => program[c].isAbstract
      BY <2>1, <3>1, AncestorSlots
    <3> QED
      BY <2>1, <3>2, AnswersWhenMatched
  <2>3. ASSUME NEW a \in Ancestors(c), NEW k \in DOMAIN program[a].interfaces,
               NEW impl, impl = program[a].interfaces[k],
               NEW i \in DOMAIN program[impl.type].methods
        PROVE  Answers(c, program[impl.type].methods[i], program[c].methods[impl.vftOffset + i])
    <3> DEFINE slot == impl.vftOffset + i
    <3>1. Derives(c, a) /\ a \in Classes
      BY <2>1, AncestorsAre, DerivesClass
    <3>2. KeepsTables(a)
      <4>1. \A b : b \in Ancestors(a) => b \in Ancestors(c)
        BY <2>1, <3>1, AncestorsAre, DerivesTransitive
      <4> QED
        BY <4>1 DEF KeepsTables
    <3>3. /\ TypeIsInterface(impl.type) /\ slot \in DOMAIN program[a].methods
          /\ Matches(program[impl.type].methods[i], program[a].methods[slot])
      BY <2>1, <2>3, <3>1, <3>2, InterfaceSlots
    <3>4. /\ slot \in DOMAIN program[c].methods
          /\ Matches(program[a].methods[slot], program[c].methods[slot])
      BY <2>2, <3>3
    <3>5. MethodRead(program[impl.type].methods[i]) /\ MethodRead(program[a].methods[slot])
      <4>1. impl.type \in Structured /\ a \in Structured
        BY <2>1, <3>1, <3>3, ClassFacts
           DEF TypeIsInterface, Stored, IsStructured, Types, Structured, StructuredIn
      <4> QED
        BY <2>1, <3>3, <4>1, MethodsRead
    <3>6. Matches(program[impl.type].methods[i], program[c].methods[slot])
      BY <3>3, <3>4, <3>5, MatchesTransitive
    <3> QED
      BY <2>1, <3>4, <3>6, AnswersWhenMatched
  <2> QED
    BY <2>2, <2>3
<1> QED
  BY <1>1, Invariance, PTL

-----------------------------------------------------------------------------
(* What one object can be referred to as.                                  *)

\* Of two types that a reference can be converted to, one can be converted to
\* the other.
LEMMA RefLinear ==
  ASSUME Loaded
  PROVE  \A d \in 0..MaxDepth : \A c, f, t \in Types :
           TypeIsObjectReference(c) /\ Ref(c, f, d) /\ Ref(c, t, d) => Ref(f, t, d) \/ Ref(t, f, d)
<1> DEFINE S == {d \in 0..MaxDepth : \A c, f, t \in Types :
                   TypeIsObjectReference(c) /\ Ref(c, f, d) /\ Ref(c, t, d)
                     => Ref(f, t, d) \/ Ref(t, f, d)}
<1>1. MaxDepth \in Nat
  BY LargestAssumption
<1>2. MaxDepth \in S
  <2>1. MaxDepth \in 0..MaxDepth /\ ~(MaxDepth < MaxDepth)
    BY <1>1
  <2> QED
    BY <2>1, RefIs
<1>3. ASSUME NEW d \in 0..MaxDepth - 1, d + 1 \in S
      PROVE  d \in S
  <2>1. d \in 0..MaxDepth /\ d < MaxDepth /\ d + 1 \in 0..MaxDepth
    BY <1>1
  <2> SUFFICES ASSUME NEW c \in Types, NEW f \in Types, NEW t \in Types,
                      TypeIsObjectReference(c), Ref(c, f, d), Ref(c, t, d)
               PROVE  Ref(f, t, d) \/ Ref(t, f, d)
    BY <2>1
  <2> DEFINE below(a, b) == Ref(program[a].of, program[b].of, d + 1)
  <2>2. Converts(c, f, below(c, f)) /\ Converts(c, t, below(c, t))
    BY <2>1, RefIs
  <2>3. Converts(f, t, below(f, t)) \/ Converts(t, f, below(t, f))
    <3>1. CASE c = f \/ c = t \/ f = t \/ f = Object \/ t = Object
      BY <2>2, <3>1 DEF Converts
    <3>2. CASE TypeIsClass(c) /\ Derives(c, f) /\ Derives(c, t)
      <4>1. c \in Classes
        BY <3>2, Kinds
      <4>2. f \in Classes /\ t \in Classes
        BY <3>2, <4>1, DerivesClass
      <4>3. TypeIsClass(f) /\ TypeIsClass(t)
        BY <4>2, Kinds
      <4> QED
        BY <3>2, <4>1, <4>3, DerivesLinear DEF Converts
    <3>3. CASE IsDelegate(c) /\ f = Method /\ t = Method
      BY <3>3 DEF Converts
    <3>4. CASE IsArray(c) /\ (f = Array \/ t = Array)
      BY <2>2, <3>4, Kinds DEF Converts, Elements
    <3>5. CASE Elements(c, f, below(c, f)) /\ Elements(c, t, below(c, t))
      <4>1. IsArray(c) /\ IsArray(f) /\ IsArray(t)
        BY <3>5 DEF Elements
      <4>2. program[c].of \in Types /\ program[f].of \in Types /\ program[t].of \in Types
        BY <4>1, ElementsEarlier
      <4>3. ASSUME TypeIsObjectReference(program[c].of), below(c, f), below(c, t)
            PROVE  /\ TypeIsObjectReference(program[f].of) /\ TypeIsObjectReference(program[t].of)
                   /\ below(f, t) \/ below(t, f)
        <5>1. \A b, g, h \in Types : TypeIsObjectReference(b) /\ Ref(b, g, d + 1) /\ Ref(b, h, d + 1)
                => Ref(g, h, d + 1) \/ Ref(h, g, d + 1)
          BY <1>3
        <5> QED
          BY <2>1, <4>2, <4>3, <5>1, RefTarget
      <4>4. ASSUME ~TypeIsObjectReference(program[c].of),
                   NonRefTypesCompatible(program[c].of, program[f].of),
                   NonRefTypesCompatible(program[c].of, program[t].of)
            PROVE  \/ program[f].of = program[t].of
                   \/ /\ ~TypeIsObjectReference(program[f].of)
                      /\ NonRefTypesCompatible(program[f].of, program[t].of)
                   \/ /\ ~TypeIsObjectReference(program[t].of)
                      /\ NonRefTypesCompatible(program[t].of, program[f].of)
        BY <4>2, <4>4, Kinds DEF NonRefTypesCompatible
      <4>5. CASE program[c].of = program[f].of
        <5>1. below(f, t) <=> below(c, t)
          BY <4>5
        <5> HIDE DEF below
        <5>2. Elements(f, t, below(f, t)) \/ Elements(t, f, below(t, f))
          BY <3>5, <4>5, <5>1 DEF Elements, ElementsConvertible
        <5> QED
          BY <5>2 DEF Converts
      <4>6. CASE program[c].of = program[t].of
        <5>1. below(t, f) <=> below(c, f)
          BY <4>6
        <5> HIDE DEF below
        <5>2. Elements(f, t, below(f, t)) \/ Elements(t, f, below(t, f))
          BY <3>5, <4>6, <5>1 DEF Elements, ElementsConvertible
        <5> QED
          BY <5>2 DEF Converts
      <4>7. CASE program[c].of # program[f].of /\ program[c].of # program[t].of
        <5> HIDE DEF below
        <5>1. program[f].isConstant /\ program[t].isConstant
              /\ program[f].dimensions = program[t].dimensions
          BY <3>5, <4>7 DEF Elements, ElementsConvertible
        <5>2. CASE TypeIsObjectReference(program[c].of)
          <6>1. below(c, f) /\ below(c, t)
            BY <3>5, <4>7, <5>2 DEF Elements
          <6> QED
            BY <4>1, <4>3, <5>1, <5>2, <6>1 DEF Elements, ElementsConvertible, Converts
        <5>3. CASE ~TypeIsObjectReference(program[c].of)
          <6>1. NonRefTypesCompatible(program[c].of, program[f].of)
                /\ NonRefTypesCompatible(program[c].of, program[t].of)
            BY <3>5, <4>7, <5>3 DEF Elements
          <6> QED
            BY <4>1, <4>4, <5>1, <5>3, <6>1 DEF Elements, ElementsConvertible, Converts
        <5> QED
          BY <5>2, <5>3
      <4> QED
        BY <4>5, <4>6, <4>7
    <3> HIDE DEF below
    <3> QED
      BY <2>2, <3>1, <3>2, <3>3, <3>4, <3>5, Kinds DEF Converts, Elements
  <2> QED
    BY <2>1, <2>3, RefIs
<1> HIDE DEF S
<1>4. \A d \in 0..MaxDepth : d \in S
  BY <1>2, <1>3, DepthInduction
<1> QED
  BY <1>4 DEF S

LEMMA InterfacesNamed ==
  ASSUME Loaded
  PROVE  \A c \in Classes : \A k \in DOMAIN program[c].interfaces :
           TypeIsInterface(program[c].interfaces[k].type)
<1> DEFINE S == {c \in Classes : \A k \in DOMAIN program[c].interfaces :
                   TypeIsInterface(program[c].interfaces[k].type)}
<1>1. ASSUME NEW c \in Classes, ParentClass(c) # Null => ParentClass(c) \in S
      PROVE  c \in S
  <2> SUFFICES ASSUME NEW k \in DOMAIN program[c].interfaces
               PROVE  TypeIsInterface(program[c].interfaces[k].type)
    OBVIOUS
  <2> DEFINE own == program[c].interfaces
             inherited == ParentInterfaces(c)
  <2>1. own # <<>>
    <3>1. DOMAIN <<>> = {}
      OBVIOUS
    <3> QED
      BY <3>1
  <2>2. /\ Len(inherited) <= Len(own)
        /\ \A i \in DOMAIN inherited : own[i] = inherited[i]
        /\ \A i \in Len(inherited) + 1..Len(own) : ImplementationValid(c, own[i])
    BY <2>1, ClassFacts DEF StructureValid, InterfacesValid
  <2>3. IsSequence(own) /\ IsSequence(inherited)
    <3>1. Parent(c) # Null => Parent(c) \in Classes
      BY ClassFacts
    <3> QED
      BY <3>1, ListsAre, EmptyIs DEF ParentInterfaces
  <2>4. CASE k \in DOMAIN inherited
    <3>1. Parent(c) # Null
      <4>1. DOMAIN <<>> = {}
        OBVIOUS
      <4> QED
        BY <2>4, <4>1 DEF ParentInterfaces
    <3>2. Parent(c) \in S /\ inherited = program[Parent(c)].interfaces
      BY <1>1, <3>1, ClassFacts DEF ParentInterfaces
    <3> QED
      BY <2>2, <2>4, <3>2
  <2>5. CASE k \notin DOMAIN inherited
    <3>1. k \in Len(inherited) + 1..Len(own)
      <4>1. /\ DOMAIN inherited = 1..Len(inherited) /\ Len(inherited) \in Nat
            /\ DOMAIN own = 1..Len(own) /\ Len(own) \in Nat
        BY <2>3 DEF IsSequence
      <4> QED
        BY <2>5, <4>1
    <3> QED
      BY <2>2, <3>1 DEF ImplementationValid
  <2> QED
    BY <2>4, <2>5
<1> HIDE DEF S
<1>2. \A c \in Classes : c \in S
  BY <1>1, ClassInduction
<1> QED
  BY <1>2 DEF S

\* No class derives from one that is final.
LEMMA AncestorsExtensible ==
  ASSUME Loaded
  PROVE  \A c \in Classes : \A a : Derives(c, a) /\ a # c => ~program[a].isFinal
<1> DEFINE S == {c \in Classes : \A a : Derives(c, a) /\ a # c => ~program[a].isFinal}
<1>1. ASSUME NEW c \in Classes, ParentClass(c) # Null => ParentClass(c) \in S
      PROVE  c \in S
  <2> SUFFICES ASSUME NEW a, Derives(c, a), a # c
               PROVE  ~program[a].isFinal
    OBVIOUS
  <2>1. Parent(c) # Null /\ Derives(Parent(c), a)
    BY DerivesIs
  <2>2. Parent(c) \in S
    BY <1>1, <2>1, ClassFacts
  <2>3. ~program[Parent(c)].isFinal
    <3>1. CASE c \in DOMAIN BuiltIn
      BY <2>1, <3>1 DEF Loaded, IInv, ProgramInv, BuiltInsFound, Parent
    <3>2. CASE c \notin DOMAIN BuiltIn
      BY <2>1, <3>2, ClassFacts DEF StructureValid, Extensible
    <3> QED
      BY <3>1, <3>2
  <2> QED
    BY <2>1, <2>2, <2>3
<1> HIDE DEF S
<1>2. \A c \in Classes : c \in S
  BY <1>1, ClassInduction
<1> QED
  BY <1>2 DEF S

\* A class that an object can be referred to as may contain any interface that
\* the object has.
LEMMA InterfaceContained ==
  ASSUME Loaded, NEW c \in Classes, NEW t \in Types, TypesCompatible(c, t),
         NEW a \in Ancestors(c), NEW k \in DOMAIN program[a].interfaces,
         NEW ifc, ifc = program[a].interfaces[k].type
  PROVE  TypeIsInterface(ifc) /\ TypeIsClass(t) /\ MayContain(t, ifc)
<1>1. Derives(c, a) /\ a \in Classes
  BY AncestorsAre, DerivesClass
<1>2. TypeIsInterface(ifc)
  BY <1>1, InterfacesNamed
<1>3. (t = Object \/ Derives(c, t)) /\ t \in Classes /\ TypeIsClass(t)
  BY CompatibleClass, DerivesClass, Kinds
<1>4. CASE t = Object
  BY <1>2, <1>3, <1>4 DEF MayContain, Loaded, IInv, ProgramInv, BuiltInsFound
<1>5. CASE t # c /\ t # Object
  BY <1>2, <1>3, <1>5, AncestorsExtensible DEF MayContain
<1>6. CASE t = c
  <2>1. Continues(program[a].interfaces, program[c].interfaces)
    BY <1>1, ResemblesAncestors DEF Resembles
  <2>2. k \in DOMAIN program[c].interfaces /\ program[c].interfaces[k] = program[a].interfaces[k]
    <3>1. /\ DOMAIN program[a].interfaces = 1..Len(program[a].interfaces)
          /\ DOMAIN program[c].interfaces = 1..Len(program[c].interfaces)
          /\ Len(program[a].interfaces) \in Nat /\ Len(program[c].interfaces) \in Nat
      BY <2>1 DEF Continues, IsSequence
    <3> QED
      BY <2>1, <3>1 DEF Continues
  <2> QED
    BY <1>2, <1>3, <1>6, <2>2 DEF MayContain, TypeImplementsInterface
<1> QED
  BY <1>2, <1>3, <1>4, <1>5, <1>6

\* Where one object can be referred to as two types, the compiler converts the
\* one to the other or allows a checked cast between them, whatever classes
\* other packages derive; this is what TypesCompatiblePolymorphic is for.
THEOREM CastsAllowed == Spec => []CastsComplete
<1>1. IInv => CastsComplete
  <2> SUFFICES ASSUME IInv, phase = "loaded", NEW from \in Types, NEW to \in Types,
                      TypeIsObjectReference(from) \/ TypeIsInterface(from),
                      TypeIsObjectReference(to) \/ TypeIsInterface(to),
                      NEW c \in Types, TypeIsObjectReference(c), MayRefer(from, c), MayRefer(to, c)
               PROVE  TypesCompatible(from, to) \/ TypesCompatiblePolymorphic(from, to)
    BY DEF CastsComplete
  <2>1. Loaded
    BY DEF Loaded
  <2> DEFINE Implemented(t) ==
               \E a \in Ancestors(c) : \E i \in DOMAIN program[a].interfaces :
                 program[a].interfaces[i].type = t
  <2>2. /\ TypesCompatible(c, from) \/ Implemented(from)
        /\ TypesCompatible(c, to) \/ Implemented(to)
    BY DEF MayRefer
  <2>3. ASSUME NEW t, Implemented(t)
        PROVE  /\ c \in Classes /\ TypeIsInterface(t)
               /\ \A u \in Types : TypesCompatible(c, u) => TypeIsClass(u) /\ MayContain(u, t)
    <3>1. PICK a \in Ancestors(c) : \E i \in DOMAIN program[a].interfaces :
             program[a].interfaces[i].type = t
      BY <2>3
    <3>2. c \in Classes
      BY <3>1 DEF Ancestors, Classes
    <3>3. TypesCompatible(c, c)
      BY DEF TypesCompatible
    <3> QED
      BY <2>1, <3>1, <3>2, <3>3, InterfaceContained
  <2>4. CASE TypesCompatible(c, from) /\ TypesCompatible(c, to)
    <3>1. 0 \in 0..MaxDepth
      BY LargestAssumption
    <3>2. CASE c = from \/ c = to
      BY <2>4, <3>2 DEF TypesCompatiblePolymorphic
    <3>3. CASE c # from /\ c # to
      <4>1. /\ TypeIsObjectReference(from) /\ TypeIsObjectReference(to)
            /\ Ref(c, from, 0) /\ Ref(c, to, 0)
        BY <2>1, <2>4, <3>3, CompatibleRef
      <4>2. Ref(from, to, 0) \/ Ref(to, from, 0)
        BY <2>1, <3>1, <4>1, RefLinear
      <4>3. TypesCompatible(from, to) \/ TypesCompatible(to, from)
        BY <2>1, <4>1, <4>2, CompatibleRef
      <4> QED
        BY <4>3 DEF TypesCompatiblePolymorphic
    <3> QED
      BY <3>2, <3>3
  <2>5. CASE Implemented(from) /\ Implemented(to)
    BY <2>3, <2>5 DEF TypesCompatiblePolymorphic
  <2>6. CASE Implemented(from) /\ TypesCompatible(c, to)
    BY <2>3, <2>6 DEF TypesCompatiblePolymorphic
  <2>7. CASE TypesCompatible(c, from) /\ Implemented(to)
    BY <2>3, <2>7 DEF TypesCompatiblePolymorphic
  <2> QED
    BY <2>2, <2>4, <2>5, <2>6, <2>7
<1> QED
  BY <1>1, Invariance, PTL

-----------------------------------------------------------------------------
(* What the parts of a type's values take, one after the other.            *)
LEMMA PaddedIs ==
  ASSUME NEW n \in Nat, NEW a \in Nat \ {0}
  PROVE  Padded(n, a) \in Nat /\ n <= Padded(n, a) /\ Padded(n, a) % a = 0
<1> DEFINE q == (n + a - 1) \div a
<1>1. q \in Nat
  OBVIOUS
<1>2. n + a - 1 < q * a + a
  OBVIOUS
<1>3. q * a \in Nat
  BY <1>1
<1>4. Padded(n, a) = q * a
  BY DEF Padded
<1>5. (q * a) % a = 0
  <2> HIDE DEF q
  <2> QED
    BY <1>1
<1> QED
  BY <1>2, <1>3, <1>4, <1>5

(* Parts that take room.                                                   *)
IsParts(parts) ==
  /\ IsSequence(parts)
  /\ \A i \in 1..Len(parts) : parts[i].size \in Nat \ {0} /\ parts[i].alignment \in Nat \ {0}

\* A recursion with a step of its own for each argument.
Recursion(n, values, first, steps) ==
  n \in Nat /\ first \in values /\ steps \in [1..n -> [values -> values]]

LEMMA RecursionExists ==
  ASSUME NEW n, NEW values, NEW first, NEW steps, Recursion(n, values, first, steps)
  PROVE  \E f \in [0..n -> values] : f[0] = first /\ \A i \in 1..n : f[i] = steps[i][f[i - 1]]
<1> DEFINE E == [at : Nat, of : values]
           Next1(e) == IF e.at + 1 \in 1..n THEN steps[e.at + 1][e.of] ELSE e.of
           next == [e \in E |-> [at |-> e.at + 1, of |-> Next1(e)]]
<1>2. next \in [E -> E]
  <2>1. ASSUME NEW e \in E
        PROVE  [at |-> e.at + 1, of |-> Next1(e)] \in E
    <3>1. e.at + 1 \in Nat /\ e.of \in values
      OBVIOUS
    <3>2. Next1(e) \in values
      BY <3>1 DEF Recursion
    <3> QED
      BY <3>1, <3>2
  <2> HIDE DEF Next1, E
  <2> QED
    BY <2>1
<1>3. \A e \in E : next[e].at = e.at + 1 /\ next[e].of = Next1(e)
  OBVIOUS
<1> DEFINE none == [at |-> 0, of |-> first]
<1>1. none \in E
  BY DEF Recursion
<1> HIDE DEF E, next, none
<1>4. PICK g \in [Nat -> E] : g[0] = none /\ \A k \in Nat : g[k + 1] = next[g[k]]
  BY <1>1, <1>2, IterationExists
<1> DEFINE S == {k \in Nat : g[k].at = k}
<1>5. \A k \in Nat : g[k].at = k
  <2>1. 0 \in S
    BY <1>4 DEF none
  <2>2. ASSUME NEW k \in Nat, k \in S
        PROVE  k + 1 \in S
    <3>1. g[k + 1].at = g[k].at + 1
      BY <1>3, <1>4
    <3> QED
      BY <2>2, <3>1
  <2> HIDE DEF S
  <2>3. \A k \in Nat : k \in S
    BY <2>1, <2>2, SetInduction
  <2> QED
    BY <2>3 DEF S
<1> DEFINE f == [k \in 0..n |-> g[k].of]
<1>6. f \in [0..n -> values]
  BY DEF E
<1>7. f[0] = first
  BY <1>4 DEF none, Recursion
<1>8. ASSUME NEW i \in 1..n
      PROVE  f[i] = steps[i][f[i - 1]]
  <2>1. i - 1 \in Nat /\ i - 1 + 1 = i /\ i - 1 \in 0..n /\ i \in 0..n
    BY DEF Recursion
  <2>2. g[i] = next[g[i - 1]] /\ g[i - 1] \in E /\ g[i - 1].at = i - 1
    BY <1>4, <1>5, <2>1
  <2>3. g[i].of = steps[i][g[i - 1].of]
    BY <1>3, <2>1, <2>2
  <2> HIDE DEF Next1
  <2> QED
    BY <2>1, <2>3
<1> QED
  BY <1>6, <1>7, <1>8

(* Where parts begin: each after all before it, at a multiple of its        *)
(* alignment.                                                              *)
OneAfterTheOther(start, parts, n, q) ==
  /\ n \in Nat /\ IsSequence(q) /\ Len(q) = n + 1
  /\ \A i \in 1..n + 1 : q[i] \in Nat /\ start <= q[i]
  /\ \A i \in 1..n : q[i] % parts[i].alignment = 0
  /\ \A i \in 1..n : \A j \in i + 1..n + 1 : q[i] + parts[i].size <= q[j]

LEMMA PlacesAre ==
  ASSUME NEW start \in Nat, NEW parts, IsParts(parts), NEW n, n = Len(parts),
         NEW q, q = Places(start, parts)
  PROVE  OneAfterTheOther(start, parts, n, q)
<1>1. n \in Nat
  BY DEF IsParts, IsSequence
<1> DEFINE Body(i, x) == Padded(x, parts[i].alignment) + parts[i].size
           Recurs(w) == w = [i \in 0..n |-> IF i = 0 THEN start ELSE Body(i, w[i - 1])]
           step == [i \in 1..n |-> [x \in Nat |-> Body(i, x)]]
<1>2. \A i \in 1..n : \A x \in Nat :
        /\ Padded(x, parts[i].alignment) \in Nat /\ x <= Padded(x, parts[i].alignment)
        /\ Padded(x, parts[i].alignment) % parts[i].alignment = 0
        /\ Body(i, x) = Padded(x, parts[i].alignment) + parts[i].size
        /\ parts[i].size \in Nat /\ Body(i, x) \in Nat
  <2> TAKE i \in 1..n
  <2> TAKE x \in Nat
  <2> DEFINE a == parts[i].alignment
             size == parts[i].size
  <2>1. a \in Nat \ {0} /\ size \in Nat
    BY DEF IsParts
  <2> HIDE DEF a
  <2>2. Padded(x, a) \in Nat /\ x <= Padded(x, a) /\ Padded(x, a) % a = 0
    BY <2>1, PaddedIs
  <2> QED
    BY <2>1, <2>2 DEF a
<1> HIDE DEF Body
<1>3. step \in [1..n -> [Nat -> Nat]]
  BY <1>2
<1>4. \A i \in 1..n : \A x \in Nat : step[i][x] = Body(i, x)
  OBVIOUS
<1> HIDE DEF step
<1> DEFINE D == Nat
<1>5. PICK f \in [0..n -> D] : f[0] = start /\ \A i \in 1..n : f[i] = step[i][f[i - 1]]
  <2>1. Recursion(n, D, start, step)
    BY <1>1, <1>3 DEF Recursion
  <2> HIDE DEF D, Recurs
  <2> QED
    BY <2>1, RecursionExists
<1>6. Recurs(f)
  <2>1. \A i \in 0..n : f[i] = IF i = 0 THEN start ELSE Body(i, f[i - 1])
    BY <1>1, <1>4, <1>5
  <2>2. f = [i \in 0..n |-> f[i]]
    OBVIOUS
  <2>3. [i \in 0..n |-> f[i]] = [i \in 0..n |-> IF i = 0 THEN start ELSE Body(i, f[i - 1])]
    BY <2>1
  <2> QED
    BY <2>2, <2>3
<1> DEFINE w == CHOOSE w : Recurs(w)
<1>7. q = [i \in 1..n + 1 |-> IF i > n THEN w[i - 1] ELSE Padded(w[i - 1], parts[i].alignment)]
  BY DEF Places, Body
<1> HIDE DEF Recurs
<1>8. Recurs(w)
  BY <1>6
<1> HIDE DEF w
<1>9. w = [i \in 0..n |-> IF i = 0 THEN start ELSE Body(i, w[i - 1])]
  BY <1>8 DEF Recurs
<1>10. w[0] = start /\ \A i \in 1..n : w[i] = Body(i, w[i - 1])
  BY <1>1, <1>9
<1> DEFINE S == {k \in Nat : k <= n => /\ w[k] \in Nat
                                       /\ start <= w[k]
                                       /\ \A i \in 0..k : w[i] \in Nat /\ w[i] <= w[k]}
<1>11. \A k \in Nat : k \in S
  <2>1. 0 \in S
    BY <1>10
  <2>2. ASSUME NEW k \in Nat, k \in S
        PROVE  k + 1 \in S
    <3> SUFFICES ASSUME k + 1 <= n
                 PROVE  /\ w[k + 1] \in Nat /\ start <= w[k + 1]
                        /\ \A i \in 0..k + 1 : w[i] \in Nat /\ w[i] <= w[k + 1]
      OBVIOUS
    <3>1. k <= n /\ w[k] \in Nat /\ start <= w[k] /\ \A i \in 0..k : w[i] \in Nat /\ w[i] <= w[k]
      BY <1>1, <2>2
    <3>2. k + 1 \in 1..n /\ k + 1 - 1 = k
      BY <1>1
    <3>3. w[k + 1] = Body(k + 1, w[k])
      BY <1>10, <3>2
    <3>4. w[k + 1] \in Nat /\ w[k] <= w[k + 1]
      <4> DEFINE m == k + 1
                 x == w[k]
                 padded == Padded(x, parts[m].alignment)
      <4>1. m \in 1..n /\ x \in Nat
        BY <3>1, <3>2
      <4> HIDE DEF m, x
      <4>2. /\ padded \in Nat /\ x <= padded /\ parts[m].size \in Nat
            /\ Body(m, x) = padded + parts[m].size
        BY <1>2, <4>1
      <4> HIDE DEF padded
      <4>3. Body(m, x) \in Nat /\ x <= Body(m, x)
        BY <4>1, <4>2
      <4> QED
        BY <3>3, <4>3 DEF m, x
    <3>5. \A i \in 0..k + 1 : i \in 0..k \/ i = k + 1
      OBVIOUS
    <3> QED
      BY <3>1, <3>4, <3>5
  <2> HIDE DEF S
  <2> QED
    BY <2>1, <2>2, SetInduction
<1>12. \A k \in 0..n : w[k] \in Nat /\ start <= w[k] /\ \A i \in 0..k : w[i] <= w[k]
  BY <1>1, <1>11
<1> HIDE DEF S
<1>13. ASSUME NEW i \in 1..n
       PROVE  /\ q[i] = Padded(w[i - 1], parts[i].alignment)
              /\ q[i] \in Nat /\ w[i - 1] <= q[i] /\ start <= q[i]
              /\ q[i] % parts[i].alignment = 0
              /\ q[i] + parts[i].size = w[i] /\ parts[i].size \in Nat
  <2>1. i - 1 \in 0..n /\ i \in 1..n + 1 /\ ~(i > n)
    BY <1>1
  <2>2. w[i - 1] \in Nat /\ start <= w[i - 1]
    BY <1>12, <2>1
  <2>3. q[i] = Padded(w[i - 1], parts[i].alignment)
    BY <1>7, <2>1
  <2>4. w[i] = Body(i, w[i - 1])
    BY <1>10
  <2>5. q[i] \in Nat /\ w[i - 1] <= q[i] /\ q[i] % parts[i].alignment = 0
         /\ Body(i, w[i - 1]) = q[i] + parts[i].size /\ parts[i].size \in Nat
    BY <1>2, <2>2, <2>3
  <2> QED
    BY <2>2, <2>3, <2>4, <2>5
<1>14. q[n + 1] = w[n] /\ w[n] \in Nat /\ start <= w[n]
  BY <1>1, <1>7, <1>12
<1>15. ASSUME NEW i \in 1..n, NEW j \in i + 1..n + 1
       PROVE  q[i] + parts[i].size <= q[j]
  <2>1. i \in 0..j - 1 /\ j - 1 \in 0..n
    BY <1>1
  <2>2. w[i] <= w[j - 1] /\ w[i] \in Nat /\ w[j - 1] \in Nat
    BY <1>1, <1>12, <2>1
  <2>3. CASE j \in 1..n
    <3>1. q[i] + parts[i].size = w[i] /\ w[j - 1] <= q[j] /\ q[j] \in Nat
      BY <1>13, <2>3
    <3> QED
      BY <2>2, <3>1
  <2>4. CASE j = n + 1
    <3>1. j - 1 = n
      BY <1>1, <2>4
    <3> QED
      BY <1>13, <1>14, <2>2, <2>4, <3>1
  <2> QED
    BY <1>1, <2>3, <2>4
<1>16. IsSequence(q) /\ Len(q) = n + 1
  <2>1. q = [i \in 1..n + 1 |-> q[i]]
    BY <1>7
  <2> QED
    BY <1>1, <2>1, SequenceIs
<1>17. \A i \in 1..n + 1 : i \in 1..n \/ i = n + 1
  BY <1>1
<1> QED
  BY <1>1, <1>13, <1>14, <1>15, <1>16, <1>17 DEF OneAfterTheOther

\* The largest of some alignments.
LEMMA LargestIs ==
  ASSUME NEW a \in Nat, NEW parts, IsParts(parts), NEW l, l = Largest(a, parts)
  PROVE  /\ l \in Nat /\ a <= l /\ \A i \in 1..Len(parts) : parts[i].alignment <= l
         /\ l = a \/ \E i \in 1..Len(parts) : l = parts[i].alignment
<1> DEFINE n == Len(parts)
           Up(k) == {a} \cup {parts[i].alignment : i \in 1..k}
           S == {k \in Nat : k <= n => \E x \in Up(k) : \A y \in Up(k) : y <= x}
<1>1. n \in Nat /\ DOMAIN parts = 1..n
  BY DEF IsParts, IsSequence
<1>2. \A i \in 1..n : parts[i].alignment \in Nat
  BY DEF IsParts
<1>3. \A k \in Nat : k \in S
  <2>1. 0 \in S
    <3>1. Up(0) = {a}
      OBVIOUS
    <3> QED
      BY <3>1
  <2>2. ASSUME NEW k \in Nat, k \in S
        PROVE  k + 1 \in S
    <3> SUFFICES ASSUME k + 1 <= n
                 PROVE  \E x \in Up(k + 1) : \A y \in Up(k + 1) : y <= x
      OBVIOUS
    <3> DEFINE z == parts[k + 1].alignment
    <3>1. k <= n /\ k + 1 \in 1..n /\ \A i \in 1..k : i \in 1..n
      BY <1>1
    <3>2. Up(k + 1) = Up(k) \cup {z}
      <4>1. \A i : i \in 1..k + 1 <=> i \in 1..k \/ i = k + 1
        OBVIOUS
      <4> QED
        BY <4>1
    <3>3. Up(k) \subseteq Nat /\ z \in Nat
      BY <1>2, <3>1
    <3>4. PICK x \in Up(k) : \A y \in Up(k) : y <= x
      BY <2>2, <3>1
    <3> HIDE DEF Up, z
    <3>5. CASE z <= x
      BY <3>2, <3>4, <3>5
    <3>6. CASE ~(z <= x)
      <4>1. \A y \in Up(k) : y <= z
        BY <3>3, <3>4, <3>6
      <4> QED
        BY <3>2, <3>3, <4>1
    <3> QED
      BY <3>5, <3>6
  <2> HIDE DEF S
  <2> QED
    BY <2>1, <2>2, SetInduction
<1>4. PICK x \in Up(n) : \A y \in Up(n) : y <= x
  <2>1. n \in S
    BY <1>1, <1>3
  <2> HIDE DEF Up
  <2> QED
    BY <1>1, <2>1
<1>5. l = CHOOSE z \in Up(n) : \A y \in Up(n) : y <= z
  BY <1>1 DEF Largest
<1>6. l \in Up(n) /\ \A y \in Up(n) : y <= l
  <2> HIDE DEF Up
  <2> QED
    BY <1>4, <1>5
<1> QED
  BY <1>2, <1>6

-----------------------------------------------------------------------------
(* References, as a layout lists them.                                     *)
Distinct(s) == \A i, j \in 1..Len(s) : s[i].offset = s[j].offset => i = j
Apart(s, t) == \A i \in 1..Len(s) : \A j \in 1..Len(t) : s[i].offset # t[j].offset

\* One list after the other.
LEMMA Joined ==
  ASSUME NEW R, NEW s \in Seq(R), NEW t \in Seq(R)
  PROVE  /\ s \o t \in Seq(R) /\ ToSet(s \o t) = ToSet(s) \cup ToSet(t)
         /\ Distinct(s) /\ Distinct(t) /\ Apart(s, t) => Distinct(s \o t)
<1> DEFINE u == s \o t
<1>1. /\ u \in Seq(R) /\ Len(u) = Len(s) + Len(t) /\ Len(s) \in Nat /\ Len(t) \in Nat
      /\ DOMAIN u = 1..Len(s) + Len(t) /\ DOMAIN s = 1..Len(s) /\ DOMAIN t = 1..Len(t)
  OBVIOUS
<1>2. \A i \in 1..Len(s) : u[i] = s[i] /\ i \in DOMAIN u
  OBVIOUS
<1>3. \A i \in 1..Len(t) : u[Len(s) + i] = t[i] /\ Len(s) + i \in DOMAIN u
  OBVIOUS
<1>4. \A i \in DOMAIN u : i \in 1..Len(s) \/ (i - Len(s) \in 1..Len(t) /\ i = Len(s) + (i - Len(s)))
  OBVIOUS
<1> HIDE DEF u
<1>5. ToSet(u) = ToSet(s) \cup ToSet(t)
  <2>1. ToSet(u) \subseteq ToSet(s) \cup ToSet(t)
    BY <1>1, <1>2, <1>3, <1>4 DEF ToSet
  <2>2. ToSet(s) \subseteq ToSet(u)
    BY <1>1, <1>2 DEF ToSet
  <2>3. ToSet(t) \subseteq ToSet(u)
    BY <1>1, <1>3 DEF ToSet
  <2> QED
    BY <2>1, <2>2, <2>3
<1>6. ASSUME Distinct(s), Distinct(t), Apart(s, t)
      PROVE  Distinct(u)
  <2> SUFFICES ASSUME NEW i \in DOMAIN u, NEW j \in DOMAIN u, u[i].offset = u[j].offset
               PROVE  i = j
    BY <1>1 DEF Distinct
  <2>1. CASE i \in 1..Len(s) /\ j \in 1..Len(s)
    BY <1>2, <1>6, <2>1 DEF Distinct
  <2>2. CASE i \in 1..Len(s) /\ j \notin 1..Len(s)
    BY <1>2, <1>3, <1>4, <1>6, <2>2 DEF Apart
  <2>3. CASE i \notin 1..Len(s) /\ j \in 1..Len(s)
    BY <1>2, <1>3, <1>4, <1>6, <2>3 DEF Apart
  <2>4. CASE i \notin 1..Len(s) /\ j \notin 1..Len(s)
    <3>1. i - Len(s) \in 1..Len(t) /\ j - Len(s) \in 1..Len(t)
           /\ i = Len(s) + (i - Len(s)) /\ j = Len(s) + (j - Len(s))
      BY <1>4, <2>4
    <3>2. t[i - Len(s)].offset = t[j - Len(s)].offset
      BY <1>3, <3>1
    <3>3. i - Len(s) = j - Len(s)
      BY <1>6, <3>1, <3>2 DEF Distinct
    <3> QED
      BY <3>1, <3>3
  <2> QED
    BY <2>1, <2>2, <2>3, <2>4
<1> QED
  BY <1>1, <1>5, <1>6 DEF u

(* All the elements of n lists, each once where no list shares any.        *)
Flattened(R, n, lists, f) ==
  /\ f \in Seq(R) /\ \A x : x \in ToSet(f) <=> \E i \in 1..n : x \in ToSet(lists[i])
  /\ (\A i \in 1..n : Distinct(lists[i])) /\ (\A i, j \in 1..n : i # j => Apart(lists[i], lists[j]))
       => Distinct(f)

\* Many lists, one after the other.
LEMMA FlattenIs ==
  ASSUME NEW R, NEW n \in Nat, NEW lists \in [1..n -> Seq(R)],
         NEW f, f = FlattenSeq(lists)
  PROVE  Flattened(R, n, lists, f)
<1>1. Len(lists) = n /\ DOMAIN lists = 1..n
  OBVIOUS
<1>2. CASE n = 0
  <2>1. f = lists /\ DOMAIN f = {} /\ Len(f) = 0
    BY <1>1, <1>2 DEF FlattenSeq
  <2>2. f \in Seq(R)
    BY <1>2, <2>1
  <2>3. ToSet(f) = {} /\ 1..n = {}
    BY <1>2, <2>1 DEF ToSet
  <2>4. Distinct(f)
    BY <2>1 DEF Distinct
  <2> QED
    BY <2>2, <2>3, <2>4 DEF Flattened
<1>3. CASE n # 0
  <2> DEFINE Recurs(w) == w = [i \in 1..n |-> IF i = 1 THEN lists[i] ELSE w[i - 1] \o lists[i]]
             m == n - 1
             D == Seq(R)
             step == [i \in 1..m |-> [s \in D |-> s \o lists[i + 1]]]
  <2>1. m \in Nat /\ lists[1] \in D /\ \A i \in 1..m : i + 1 \in 1..n
    BY <1>3
  <2>2. Recursion(m, D, lists[1], step)
    <3>1. \A i \in 1..m : \A s \in D : s \o lists[i + 1] \in D
      BY <2>1
    <3> HIDE DEF D
    <3> QED
      BY <2>1, <3>1 DEF Recursion
  <2>3. \A i \in 1..m : \A s \in D : step[i][s] = s \o lists[i + 1]
    OBVIOUS
  <2> HIDE DEF D, step, m, Recurs
  <2>4. PICK g \in [0..m -> D] : g[0] = lists[1] /\ \A i \in 1..m : g[i] = step[i][g[i - 1]]
    BY <2>2, RecursionExists
  <2> DEFINE h == [i \in 1..n |-> g[i - 1]]
  <2>5. Recurs(h)
    <3>1. ASSUME NEW i \in 1..n
          PROVE  h[i] = IF i = 1 THEN lists[i] ELSE h[i - 1] \o lists[i]
      <4>1. CASE i = 1
        BY <2>4, <4>1
      <4>2. CASE i # 1
        <5>1. i - 1 \in 1..m /\ i - 1 \in 1..n /\ i - 1 + 1 = i /\ i - 1 - 1 \in 0..m
          BY <4>2 DEF m
        <5>2. g[i - 1] = step[i - 1][g[i - 1 - 1]] /\ g[i - 1 - 1] \in D
          BY <2>4, <5>1
        <5>3. g[i - 1] = g[i - 1 - 1] \o lists[i]
          BY <2>3, <5>1, <5>2
        <5>4. h[i] = g[i - 1] /\ h[i - 1] = g[i - 1 - 1]
          BY <5>1
        <5> QED
          BY <4>2, <5>3, <5>4
      <4> QED
        BY <4>1, <4>2
    <3>2. h = [i \in 1..n |-> h[i]]
      OBVIOUS
    <3> HIDE DEF h
    <3>3. [i \in 1..n |-> h[i]] = [i \in 1..n |-> IF i = 1 THEN lists[i] ELSE h[i - 1] \o lists[i]]
      BY <3>1
    <3> QED
      BY <3>2, <3>3 DEF Recurs
  <2> DEFINE w == CHOOSE w : Recurs(w)
  <2>6. f = w[n]
    BY <1>1, <1>3 DEF FlattenSeq, Recurs
  <2>7. Recurs(w)
    BY <2>5
  <2> HIDE DEF w
  <2>8. w[1] = lists[1] /\ \A i \in 2..n : w[i] = w[i - 1] \o lists[i]
    <3>1. w = [i \in 1..n |-> IF i = 1 THEN lists[i] ELSE w[i - 1] \o lists[i]]
      BY <2>7 DEF Recurs
    <3>2. 1 \in 1..n /\ \A i \in 2..n : i \in 1..n /\ i # 1
      BY <1>3
    <3> QED
      BY <3>1, <3>2
  <2> DEFINE Alone == (\A i \in 1..n : Distinct(lists[i]))
                        /\ (\A i, j \in 1..n : i # j => Apart(lists[i], lists[j]))
             Good(k) == /\ w[k] \in Seq(R) /\ \A x : x \in ToSet(w[k]) <=> \E i \in 1..k : x \in ToSet(lists[i])
                        /\ Alone => Distinct(w[k])
             S == {k \in Nat : k + 1 <= n => Good(k + 1)}
  <2>9. Good(1)
    <3>1. w[1] = lists[1] /\ 1 \in 1..n
      BY <1>3, <2>8
    <3>2. \A i : i \in 1..1 <=> i = 1
      OBVIOUS
    <3> QED
      BY <3>1, <3>2
  <2>10. ASSUME NEW k \in 1..n, k + 1 <= n, Good(k)
         PROVE  Good(k + 1)
    <3>1. k + 1 \in 1..n /\ k + 1 - 1 = k /\ k + 1 # 1
      BY <2>10
    <3>2. w[k + 1] = w[k] \o lists[k + 1] /\ lists[k + 1] \in Seq(R) /\ w[k] \in Seq(R)
      <4>1. k + 1 \in 2..n
        BY <3>1
      <4>2. PICK j : j = k + 1
        OBVIOUS
      <4>3. w[j] = w[j - 1] \o lists[j]
        BY <2>8, <4>1, <4>2, Zenon
      <4>4. j - 1 = k
        BY <4>2
      <4> QED
        BY <2>10, <3>1, <4>2, <4>3, <4>4
    <3>3. \A i : i \in 1..k + 1 <=> i \in 1..k \/ i = k + 1
      OBVIOUS
    <3>4. w[k + 1] \in Seq(R) /\ ToSet(w[k + 1]) = ToSet(w[k]) \cup ToSet(lists[k + 1])
          /\ (Distinct(w[k]) /\ Distinct(lists[k + 1]) /\ Apart(w[k], lists[k + 1]) => Distinct(w[k + 1]))
      BY <3>2, Joined
    <3>5. \A x : x \in ToSet(w[k + 1]) <=> \E i \in 1..k + 1 : x \in ToSet(lists[i])
      <4>1. \A x : x \in ToSet(w[k]) <=> \E i \in 1..k : x \in ToSet(lists[i])
        BY <2>10
      <4> QED
        BY <3>3, <3>4, <4>1
    <3>6. ASSUME Alone
          PROVE  Apart(w[k], lists[k + 1])
      <4> SUFFICES ASSUME NEW a \in 1..Len(w[k]), NEW b \in 1..Len(lists[k + 1])
                   PROVE  w[k][a].offset # lists[k + 1][b].offset
        BY DEF Apart
      <4>1. w[k][a] \in ToSet(w[k])
        BY <3>2 DEF ToSet
      <4>2. PICK i \in 1..k : w[k][a] \in ToSet(lists[i])
        BY <2>10, <4>1
      <4>3. i \in 1..n /\ i # k + 1 /\ lists[i] \in Seq(R)
        BY <3>1
      <4>4. PICK c \in 1..Len(lists[i]) : w[k][a] = lists[i][c]
        <5>1. DOMAIN lists[i] = 1..Len(lists[i])
          BY <4>3
        <5> QED
          BY <4>2, <5>1 DEF ToSet
      <4> QED
        BY <3>1, <3>6, <4>3, <4>4 DEF Apart
    <3> QED
      BY <2>10, <3>1, <3>4, <3>5, <3>6
  <2> HIDE DEF Good
  <2>11. \A k \in Nat : k \in S
    <3>1. 0 \in S
      BY <2>9
    <3>2. ASSUME NEW k \in Nat, k \in S
          PROVE  k + 1 \in S
      <4> SUFFICES ASSUME k + 1 + 1 <= n
                   PROVE  Good(k + 1 + 1)
        OBVIOUS
      <4>1. k + 1 \in 1..n /\ Good(k + 1)
        BY <3>2
      <4> QED
        BY <2>10, <4>1
    <3> HIDE DEF S
    <3> QED
      BY <3>1, <3>2, SetInduction
  <2>12. Good(n)
    <3>1. m \in S
      BY <2>1, <2>11
    <3>2. m + 1 <= n => Good(m + 1)
      BY <3>1
    <3>3. m + 1 = n
      BY DEF m
    <3> QED
      BY <3>2, <3>3
  <2> QED
    BY <2>6, <2>12 DEF Good, Flattened
<1> QED
  BY <1>2, <1>3

-----------------------------------------------------------------------------
(* What layouts consist of, while types are laid out: "lay" is laid, or    *)
(* what it becomes.                                                        *)
ReferencesRead == [offset : Int, type : Named, mustBeConstant : BOOLEAN, isInterface : BOOLEAN]

SizeIn(lay, t) ==
  CASE IsEnum(t) -> EnumerantPart
    [] IsStruct(t) -> [size |-> lay[t].size, alignment |-> lay[t].alignment]
    [] TypeIsInterface(t) -> InterfacePart
    [] OTHER -> ReferencePart

(* What a type has of the class that it is laid out after.                 *)
Behind(lay, t) == IF ParentClass(t) = Null THEN 0 ELSE lay[ParentClass(t)].sizeInSubclass
OffsetsBefore(lay, t) == IF ParentClass(t) = Null THEN 0 ELSE Len(lay[ParentClass(t)].propertyOffsets)
InterfacesBefore(lay, t) ==
  IF ParentClass(t) = Null THEN 0 ELSE Len(lay[ParentClass(t)].interfaceOffsets)
ReferencesBefore(lay, t) ==
  IF ParentClass(t) = Null THEN {} ELSE ToSet(lay[ParentClass(t)].references)

(* The places in a layout: property i has number i, and interface i the    *)
(* number -i.                                                              *)
Added(lay, t) ==
  {k \in Int : \/ k \in OffsetsBefore(lay, t) + 1..Len(program[t].properties)
               \/ -k \in InterfacesBefore(lay, t) + 1..Len(program[t].interfaces)}

At(lay, t, k) ==
  IF k < 0 THEN lay[t].interfaceOffsets[-k] ELSE lay[t].propertyOffsets[k] + lay[t].base

PartAt(lay, t, k) ==
  IF k < 0 THEN ImplementedPart ELSE SizeIn(lay, program[t].properties[k].type)

Sized(lay, t) ==
  /\ lay[t].size \in Nat \ {0} /\ lay[t].sizeInSubclass \in 0..lay[t].size
  /\ lay[t].alignment \in AlignmentsIn(program) /\ lay[t].base \in Int
  /\ lay[t].nativeSize \in 0..lay[t].sizeInSubclass
  /\ IsSequence(lay[t].propertyOffsets) /\ IsSequence(lay[t].interfaceOffsets)
  /\ lay[t].nativeParts \in 0..Len(lay[t].propertyOffsets)

(* The new parts are behind the old ones, inside of the type, and apart.   *)
PartsApart(lay, t) ==
  \A k \in Added(lay, t) :
    /\ At(lay, t, k) \in Nat /\ PartAt(lay, t, k).size \in Nat \ {0}
    /\ k >= 0 => lay[t].propertyOffsets[k] \in Int
    /\ Behind(lay, t) <= At(lay, t, k)
    /\ At(lay, t, k) + PartAt(lay, t, k).size <= lay[t].sizeInSubclass
    /\ \A l \in Added(lay, t) \ {k} :
         \/ At(lay, t, k) + PartAt(lay, t, k).size <= At(lay, t, l)
         \/ At(lay, t, l) + PartAt(lay, t, l).size <= At(lay, t, k)

PartsAligned(lay, t) ==
  \A k \in Added(lay, t) :
    /\ PartAt(lay, t, k).alignment \in AlignmentsIn(program)
    /\ PartAt(lay, t, k).alignment <= lay[t].alignment
    /\ At(lay, t, k) % PartAt(lay, t, k).alignment = 0

(* The references in property i.                                           *)
Contributed(lay, t, i) ==
  LET p == program[t].properties[i]
      at == lay[t].propertyOffsets[i]
  IN CASE IsStruct(p.type) -> {[r EXCEPT !.offset = @ + at] : r \in ToSet(lay[p.type].references)}
       [] IsEnum(p.type) -> {}
       [] OTHER -> {ContainedReference(p, at)}

ReferencesCollected(lay, t) ==
  \A r : r \in ToSet(lay[t].references) <=>
    \/ r \in ReferencesBefore(lay, t)
    \/ \E i \in OffsetsBefore(lay, t) + 1..Len(program[t].properties) : r \in Contributed(lay, t, i)

(* No reference is listed twice, and each is inside of the type.           *)
Mapped(lay, t) ==
  /\ lay[t].references \in Seq(ReferencesRead)
  /\ Distinct(lay[t].references)
  /\ \A i \in 1..Len(lay[t].references) :
       lay[t].references[i].offset + lay[t].base \in 0..lay[t].sizeInSubclass - 1

(* A native class that is laid out after a class.  Whether what it is laid *)
(* out after is one is only looked at when the types are validated.        *)
Regular(t) == IsNative(t) /\ ParentClass(t) # Null => TypeIsClass(ParentClass(t))

LaidOut(lay, t) ==
  LET p == ParentClass(t)
  IN /\ t \in Structured /\ HeaderValid(t) /\ NeededBy(t) \subseteq DOMAIN lay
     /\ IsEnum(t) => lay[t] = EnumLayout
     /\ ~IsEnum(t) =>
          /\ Len(lay[t].propertyOffsets) = Len(program[t].properties)
          /\ Len(lay[t].interfaceOffsets) = Len(program[t].interfaces)
          /\ OffsetsBefore(lay, t) <= Len(program[t].properties)
          /\ InterfacesBefore(lay, t) <= Len(program[t].interfaces)
          /\ ~TypeIsClass(t) => p = Null /\ lay[t].base = 0
          /\ IsNative(t) => /\ lay[t].size = Native(t).size
                            /\ lay[t].sizeInSubclass = Native(t).sizeInSubclass
                            /\ lay[t].nativeParts = Len(program[t].properties)
          /\ ~IsNative(t) => /\ PartsAligned(lay, t)
                             /\ lay[t].nativeSize = IF p = Null THEN 0 ELSE lay[p].nativeSize
                             /\ lay[t].nativeParts = IF p = Null THEN 0 ELSE lay[p].nativeParts
                             /\ p # Null => lay[p].alignment <= lay[t].alignment
          /\ Regular(t) => Behind(lay, t) <= lay[t].sizeInSubclass /\ PartsApart(lay, t)
          /\ Regular(t) /\ (p # Null => Mapped(lay, p)) =>
               ReferencesCollected(lay, t) /\ Mapped(lay, t)

(* The numbers of the types: a type's is greater than those of the types   *)
(* that must be laid before it.                                            *)
Numbers(lay, rank, n) ==
  /\ rank \in [DOMAIN lay -> Nat] /\ n \in Nat
  /\ \A t \in DOMAIN lay : rank[t] < n /\ \A u \in NeededBy(t) : u \in DOMAIN lay /\ rank[u] < rank[t]

Numbered(lay) == \E rank, n : Numbers(lay, rank, n)

LayoutInv(lay) ==
  /\ \A t \in DOMAIN lay : Sized(lay, t)
  /\ \A t \in DOMAIN lay \ DOMAIN BuiltIn : LaidOut(lay, t)
  /\ Numbered(lay)

\* What a value of a type takes.
LEMMA SizeInIs ==
  ASSUME ProgramInv, NEW lay, NEW u, IsStruct(u) => Sized(lay, u), NEW part, part = SizeIn(lay, u)
  PROVE  /\ part.size \in Nat \ {0}
         /\ part.alignment \in AlignmentsIn(program) /\ part.alignment \in Nat \ {0}
<1>1. \A part1 \in Parts : part1.size \in Nat \ {0} /\ part1.alignment \in AlignmentsIn(program)
  BY BuiltInAssumption DEF AlignmentsIn
<1>2. AlignmentsIn(program) \subseteq Nat \ {0}
  BY DEF ProgramInv, AlignmentsNested
<1>3. \/ part \in Parts
      \/ IsStruct(u) /\ part = [size |-> lay[u].size, alignment |-> lay[u].alignment]
  BY DEF SizeIn, Parts
<1> QED
  BY <1>1, <1>2, <1>3 DEF Sized

(* A type that is given its layout.                                        *)
NewType(t) ==
  /\ ProgramInv /\ SequencesLaid /\ LaidInv /\ LayoutInv(laid)
  /\ t \in Structured \ DOMAIN laid /\ HeaderValid(t) /\ Ready(t) /\ ~Orphaned(t)
  /\ IsEnum(t) \/ Resolvable(t)

\* What it is laid out after has its layout, and so have its structures.
LEMMA NewTypeIs ==
  ASSUME NEW t, NewType(t), ~IsEnum(t), NEW p, p = ParentClass(t)
  PROVE  /\ t \notin DOMAIN BuiltIn /\ Resolvable(t) /\ p # t
         /\ p # Null => p \in DOMAIN laid /\ Sized(laid, p)
         /\ ~TypeIsClass(t) => p = Null
         /\ StructsIn(t) \subseteq DOMAIN laid
         /\ \A i \in 1..Len(program[t].properties) :
              /\ program[t].properties[i] \in PropertiesOver(program)
              /\ IsStruct(program[t].properties[i].type) =>
                   /\ program[t].properties[i].type \in DOMAIN laid
                   /\ Sized(laid, program[t].properties[i].type)
         /\ InheritedOffsets(t) = IF p = Null THEN <<>> ELSE laid[p].propertyOffsets
         /\ Len(InheritedOffsets(t)) = OffsetsBefore(laid, t)
         /\ Len(InheritedInterfaces(t)) = InterfacesBefore(laid, t)
         /\ OffsetsBefore(laid, t) \in Nat /\ InterfacesBefore(laid, t) \in Nat
         /\ OffsetsBefore(laid, t) <= Len(program[t].properties)
         /\ InterfacesBefore(laid, t) <= Len(program[t].interfaces)
         /\ Len(program[t].properties) \in Nat /\ Len(program[t].interfaces) \in Nat
         /\ program[t].properties \in Seq(PropertiesOver(program))
         /\ program[t].interfaces \in Seq([type : References(program), vftOffset : Int])
<1>1. t \notin DOMAIN BuiltIn /\ Resolvable(t)
  BY DEF NewType, LaidInv
<1>2. p # Null => p \in DOMAIN laid /\ Sized(laid, p) /\ p # t
  BY DEF NewType, Ready, LayoutInv
<1>3. /\ program[t].properties \in Seq(PropertiesOver(program))
      /\ program[t].interfaces \in Seq([type : References(program), vftOffset : Int])
      /\ Null \notin DOMAIN program
  BY DEF NewType, ProgramInv, TypesRead, Structured
<1>4. p # t
  BY <1>2, <1>3 DEF NewType, Structured, StructuredIn
<1>5. ~TypeIsClass(t) => p = Null
  BY DEF NewType, HeaderValid, ParentClass, Parent
<1>6. StructsIn(t) \subseteq DOMAIN laid
  BY DEF NewType, Ready
<1>7. ASSUME NEW i \in 1..Len(program[t].properties)
      PROVE  /\ program[t].properties[i] \in PropertiesOver(program)
             /\ IsStruct(program[t].properties[i].type) =>
                  /\ program[t].properties[i].type \in DOMAIN laid
                  /\ Sized(laid, program[t].properties[i].type)
  <2>1. i \in DOMAIN program[t].properties /\ program[t].properties[i] \in PropertiesOver(program)
    BY <1>3
  <2>2. IsStruct(program[t].properties[i].type) => program[t].properties[i].type \in DOMAIN laid
    BY <1>6, <2>1 DEF StructsIn
  <2> QED
    BY <2>1, <2>2 DEF NewType, LayoutInv
<1>8. /\ Len(InheritedOffsets(t)) = OffsetsBefore(laid, t)
      /\ Len(InheritedInterfaces(t)) = InterfacesBefore(laid, t)
      /\ InheritedOffsets(t) = IF p = Null THEN <<>> ELSE laid[p].propertyOffsets
  BY EmptyIs DEF InheritedOffsets, InheritedInterfaces, OffsetsBefore, InterfacesBefore
<1>9. OffsetsBefore(laid, t) \in Nat /\ InterfacesBefore(laid, t) \in Nat
  BY <1>2 DEF OffsetsBefore, InterfacesBefore, Sized, IsSequence
<1>10. /\ OffsetsBefore(laid, t) <= Len(program[t].properties)
       /\ InterfacesBefore(laid, t) <= Len(program[t].interfaces)
  BY <1>1, <1>8 DEF Resolvable, InheritsAll
<1> QED
  BY <1>1, <1>2, <1>3, <1>4, <1>5, <1>6, <1>7, <1>8, <1>9, <1>10

\* Where the properties of a type that the host does not declare count from.
LEMMA NewBase ==
  ASSUME NEW t, NewType(t), ~IsEnum(t), ~IsNative(t)
  PROVE  BaseOf(t) \in Int
<1>1. PICK p : p = ParentClass(t)
  OBVIOUS
<1>2. CASE p = Null
  BY <1>1, <1>2 DEF BaseOf
<1>3. CASE p # Null
  <2>1. Sized(laid, p)
    BY <1>1, <1>3, NewTypeIs
  <2>2. BaseOf(t) = laid[p].base
    BY <1>1, <1>3 DEF BaseOf
  <2> QED
    BY <2>1, <2>2 DEF Sized
<1> QED
  BY <1>2, <1>3

(* The parts that a type adds: np properties from number b on, and ni       *)
(* interfaces.                                                             *)
PartsListed(t, b, np, ni) ==
  /\ np \in Nat /\ ni \in Nat
  /\ IsParts(NewParts(t)) /\ Len(NewParts(t)) = ni + np
  /\ DOMAIN NewProperties(t) = 1..np /\ Len(NewInterfaces(t)) = ni
  /\ \A i \in 1..np : NewProperties(t)[i] = program[t].properties[b + i]
  /\ \A i \in 1..ni : NewParts(t)[i] = ImplementedPart
  /\ \A i \in 1..np : NewParts(t)[ni + i] = SizeIn(laid, program[t].properties[b + i].type)
  /\ \A i \in 1..ni + np : NewParts(t)[i].alignment \in AlignmentsIn(program)

LEMMA NewPartsAre ==
  ASSUME NEW t, NewType(t), ~IsEnum(t), NEW b, b = OffsetsBefore(laid, t),
         NEW np, np = Len(program[t].properties) - b,
         NEW ni, ni = Len(program[t].interfaces) - InterfacesBefore(laid, t)
  PROVE  PartsListed(t, b, np, ni)
<1>1. np \in Nat /\ ni \in Nat
  <2>1. PICK w, v, c : /\ w = Len(program[t].properties) /\ v = Len(program[t].interfaces)
                       /\ c = InterfacesBefore(laid, t)
    OBVIOUS
  <2>2. b \in Nat /\ w \in Nat /\ b <= w /\ c \in Nat /\ v \in Nat /\ c <= v
    BY <2>1, NewTypeIs
  <2>3. np = w - b /\ ni = v - c
    BY <2>1
  <2> QED
    BY ONLY <2>2, <2>3
<1>2. /\ DOMAIN NewProperties(t) = 1..np
      /\ \A i \in 1..np : NewProperties(t)[i] = program[t].properties[b + i]
      /\ DOMAIN NewInterfaces(t) = 1..ni /\ Len(NewInterfaces(t)) = ni
  <2>1. /\ b = Len(InheritedOffsets(t)) /\ InterfacesBefore(laid, t) = Len(InheritedInterfaces(t))
        /\ b \in Nat /\ InterfacesBefore(laid, t) \in Nat
        /\ b <= Len(program[t].properties)
        /\ InterfacesBefore(laid, t) <= Len(program[t].interfaces)
        /\ program[t].properties \in Seq(PropertiesOver(program))
        /\ program[t].interfaces \in Seq([type : References(program), vftOffset : Int])
    BY NewTypeIs
  <2>2. /\ DOMAIN NewProperties(t) = 1..np
        /\ \A i \in 1..np : NewProperties(t)[i] = program[t].properties[b + i]
    <3>1. PICK own, before : own = program[t].properties /\ before = InheritedOffsets(t)
      OBVIOUS
    <3>2. /\ own \in Seq(PropertiesOver(program)) /\ Len(before) = b /\ b \in Nat
          /\ b <= Len(own) /\ np = Len(own) - b
      BY <2>1, <3>1
    <3>3. /\ DOMAIN NewOf(own, before) = 1..Len(own) - Len(before)
          /\ \A i \in 1..Len(own) - Len(before) : NewOf(own, before)[i] = own[Len(before) + i]
      <4>1. Len(before) \in Nat /\ Len(before) <= Len(own)
        BY <3>2
      <4> QED
        BY ONLY <3>2, <4>1, NewOfIs
    <3> QED
      BY <3>1, <3>2, <3>3 DEF NewProperties
  <2>3. DOMAIN NewInterfaces(t) = 1..ni /\ Len(NewInterfaces(t)) = ni
    <3>1. PICK own, before : own = program[t].interfaces /\ before = InheritedInterfaces(t)
      OBVIOUS
    <3>2. /\ own \in Seq([type : References(program), vftOffset : Int])
          /\ Len(before) \in Nat /\ Len(before) <= Len(own) /\ ni = Len(own) - Len(before)
      BY <2>1, <3>1
    <3>3. /\ DOMAIN NewOf(own, before) = 1..Len(own) - Len(before)
          /\ Len(NewOf(own, before)) = Len(own) - Len(before)
      BY ONLY <3>2, NewOfIs
    <3> QED
      BY <3>1, <3>2, <3>3 DEF NewInterfaces
  <2> QED
    BY <2>2, <2>3
<1> DEFINE first == [i \in DOMAIN NewInterfaces(t) |-> ImplementedPart]
           then == [i \in DOMAIN NewProperties(t) |-> TypeValueSize(NewProperties(t)[i].type)]
<1>3. /\ first = [i \in 1..ni |-> first[i]] /\ then = [i \in 1..np |-> then[i]]
      /\ NewParts(t) = first \o then
  BY <1>2 DEF NewParts
<1>4. /\ \A i \in 1..ni : first[i] = ImplementedPart
      /\ \A i \in 1..np : then[i] = SizeIn(laid, program[t].properties[b + i].type)
  BY <1>2 DEF TypeValueSize, SizeIn
<1> HIDE DEF first, then
<1>5. IsSequence(first) /\ Len(first) = ni /\ IsSequence(then) /\ Len(then) = np
  BY <1>1, <1>3, SequenceIs
<1>6. /\ Continues(first, NewParts(t)) /\ Len(NewParts(t)) = ni + np
      /\ \A i \in 1..np : NewParts(t)[ni + i] = then[i]
  <2>1. /\ Continues(first, first \o then) /\ Len(first \o then) = Len(first) + Len(then)
        /\ \A i \in 1..Len(then) : (first \o then)[Len(first) + i] = then[i]
    BY <1>5, Appended
  <2> QED
    BY <1>3, <1>5, <2>1
<1>7. \A i \in 1..ni : NewParts(t)[i] = first[i]
  BY <1>5, <1>6 DEF Continues
<1>8. \A i \in 1..np : b + i \in 1..Len(program[t].properties)
  BY NewTypeIs
<1>9. ASSUME NEW i \in 1..ni + np
      PROVE  /\ NewParts(t)[i].size \in Nat \ {0} /\ NewParts(t)[i].alignment \in Nat \ {0}
             /\ NewParts(t)[i].alignment \in AlignmentsIn(program)
  <2>1. CASE i \in 1..ni
    <3>1. NewParts(t)[i] = ImplementedPart
      BY <1>4, <1>7, <2>1
    <3>2. ImplementedPart \in Parts
      BY DEF Parts
    <3>3. /\ ImplementedPart.size \in Nat \ {0} /\ ImplementedPart.alignment \in AlignmentsIn(program)
          /\ AlignmentsIn(program) \subseteq Nat \ {0}
      BY <3>2, BuiltInAssumption DEF AlignmentsIn, NewType, ProgramInv, AlignmentsNested
    <3> QED
      BY <3>1, <3>3
  <2>2. CASE i \notin 1..ni
    <3>1. i - ni \in 1..np /\ i = ni + (i - ni)
      BY <1>1, <2>2, SMTT(30)
    <3>2. PICK j \in 1..np : i = ni + j
      BY <3>1
    <3> DEFINE u == program[t].properties[b + j].type
    <3>3. NewParts(t)[i] = SizeIn(laid, u)
      BY <1>4, <1>6, <3>2
    <3>4. IsStruct(u) => Sized(laid, u)
      BY <1>8, NewTypeIs
    <3>5. ProgramInv
      BY DEF NewType
    <3> HIDE DEF u
    <3> QED
      BY <3>3, <3>4, <3>5, SizeInIs
  <2> QED
    BY <2>1, <2>2
<1>10. IsParts(NewParts(t))
  BY <1>1, <1>6, <1>9 DEF IsParts, Continues
<1> QED
  BY <1>1, <1>2, <1>4, <1>6, <1>7, <1>9, <1>10 DEF PartsListed

(* The layouts with that of a type added.                                  *)
Grown(lay, t) ==
  /\ DOMAIN lay = DOMAIN laid \cup {t} /\ \A u \in DOMAIN laid : lay[u] = laid[u]
  /\ lay[t] = IF IsEnum(t) THEN EnumLayout ELSE LayoutOf(t, Places(StartOf(t), NewParts(t)))

\* What a type is made from stays as it is.
LEMMA Unmoved ==
  ASSUME NEW t, NeededBy(t) \subseteq DOMAIN laid, NEW lay, \A u \in DOMAIN laid : lay[u] = laid[u]
  PROVE  /\ Behind(lay, t) = Behind(laid, t)
         /\ OffsetsBefore(lay, t) = OffsetsBefore(laid, t)
         /\ InterfacesBefore(lay, t) = InterfacesBefore(laid, t)
         /\ ReferencesBefore(lay, t) = ReferencesBefore(laid, t)
         /\ Added(lay, t) = Added(laid, t)
         /\ ParentClass(t) # Null => lay[ParentClass(t)] = laid[ParentClass(t)]
         /\ \A i \in DOMAIN program[t].properties :
              /\ SizeIn(lay, program[t].properties[i].type) = SizeIn(laid, program[t].properties[i].type)
              /\ IsStruct(program[t].properties[i].type) =>
                   lay[program[t].properties[i].type] = laid[program[t].properties[i].type]
<1>1. ParentClass(t) # Null => lay[ParentClass(t)] = laid[ParentClass(t)]
  BY DEF NeededBy
<1>2. /\ Behind(lay, t) = Behind(laid, t)
      /\ OffsetsBefore(lay, t) = OffsetsBefore(laid, t)
      /\ InterfacesBefore(lay, t) = InterfacesBefore(laid, t)
      /\ ReferencesBefore(lay, t) = ReferencesBefore(laid, t)
  BY <1>1 DEF Behind, OffsetsBefore, InterfacesBefore, ReferencesBefore
<1>3. Added(lay, t) = Added(laid, t)
  BY <1>2 DEF Added
<1>4. ASSUME NEW i \in DOMAIN program[t].properties, NEW u, u = program[t].properties[i].type
      PROVE  /\ SizeIn(lay, u) = SizeIn(laid, u)
             /\ IsStruct(u) => lay[u] = laid[u]
  <2>1. IsStruct(u) => u \in DOMAIN laid
    BY <1>4 DEF NeededBy, StructsIn
  <2>2. IsStruct(u) => lay[u] = laid[u]
    BY <2>1
  <2> QED
    BY <2>2 DEF SizeIn
<1> QED
  BY <1>1, <1>2, <1>3, <1>4

\* The alignment of a type that the host does not declare.
LEMMA AlignmentIs ==
  ASSUME NEW t, NewType(t), ~IsEnum(t), ~IsNative(t), NEW p, p = ParentClass(t),
         NEW a, a = AlignmentOf(t)
  PROVE  /\ a \in AlignmentsIn(program) /\ a \in Nat \ {0}
         /\ p # Null => laid[p].alignment <= a
         /\ \A i \in 1..Len(NewParts(t)) : NewParts(t)[i].alignment <= a
<1>1. AlignmentsIn(program) \subseteq Nat \ {0} /\ 1 \in AlignmentsIn(program)
  BY DEF NewType, ProgramInv, AlignmentsNested, AlignmentsIn
<1>2. PICK from : /\ from = IF p = Null THEN 1 ELSE laid[p].alignment
                  /\ a = Largest(from, NewParts(t))
  BY DEF AlignmentOf
<1>3. from \in AlignmentsIn(program) /\ from \in Nat
  BY <1>1, <1>2, NewTypeIs DEF Sized
<1>4. /\ IsParts(NewParts(t))
      /\ \A i \in 1..Len(NewParts(t)) : NewParts(t)[i].alignment \in AlignmentsIn(program)
  <2>1. PICK b, np, ni : /\ b = OffsetsBefore(laid, t) /\ np = Len(program[t].properties) - b
                         /\ ni = Len(program[t].interfaces) - InterfacesBefore(laid, t)
    OBVIOUS
  <2>2. PartsListed(t, b, np, ni)
    BY <2>1, NewPartsAre
  <2> QED
    BY <2>2 DEF PartsListed
<1>5. /\ from <= a /\ \A i \in 1..Len(NewParts(t)) : NewParts(t)[i].alignment <= a
      /\ a = from \/ \E i \in 1..Len(NewParts(t)) : a = NewParts(t)[i].alignment
  BY <1>2, <1>3, <1>4, LargestIs
<1>6. a \in AlignmentsIn(program)
  BY <1>3, <1>4, <1>5
<1> QED
  BY <1>1, <1>2, <1>5, <1>6

\* What a type adds is at the places that it has been given.
LEMMA AddedAre ==
  ASSUME NEW t, NewType(t), ~IsEnum(t), NEW lay, Grown(lay, t),
         NEW b, b = OffsetsBefore(laid, t), NEW c, c = InterfacesBefore(laid, t),
         NEW places, places = Places(StartOf(t), NewParts(t))
  PROVE  /\ Len(lay[t].propertyOffsets) = Len(program[t].properties)
         /\ Len(lay[t].interfaceOffsets) = Len(program[t].interfaces)
         /\ IsSequence(lay[t].propertyOffsets) /\ IsSequence(lay[t].interfaceOffsets)
         /\ \A i \in 1..Len(program[t].properties) - b :
              lay[t].propertyOffsets[b + i] = OffsetOf(t, places, i)
         /\ \A i \in 1..Len(program[t].interfaces) - c : lay[t].interfaceOffsets[c + i] = places[i]
<1>1. lay[t] = LayoutOf(t, places)
  BY DEF Grown
<1>2. /\ ProgramInv /\ SequencesLaid /\ t \in Structured /\ Ready(t) /\ Resolvable(t)
      /\ Len(InheritedOffsets(t)) = b /\ Len(InheritedInterfaces(t)) = c
  BY NewTypeIs DEF NewType
<1>3. PICK layout : layout = LayoutOf(t, places)
  OBVIOUS
<1>4. Extended(t, places, layout)
  BY <1>2, <1>3, LayoutIs
<1>5. /\ Continues(InheritedOffsets(t), layout.propertyOffsets)
      /\ Continues(InheritedInterfaces(t), layout.interfaceOffsets)
      /\ Len(layout.propertyOffsets) = Len(program[t].properties)
      /\ Len(layout.interfaceOffsets) = Len(program[t].interfaces)
      /\ \A i \in 1..Len(program[t].properties) - Len(InheritedOffsets(t)) :
           layout.propertyOffsets[Len(InheritedOffsets(t)) + i] = OffsetOf(t, places, i)
      /\ \A i \in 1..Len(program[t].interfaces) - Len(InheritedInterfaces(t)) :
           layout.interfaceOffsets[Len(InheritedInterfaces(t)) + i] = places[i]
  BY <1>4 DEF Extended
<1> QED
  BY <1>1, <1>2, <1>3, <1>5 DEF Continues

(* A type that the host does not declare goes on behind what it is laid    *)
(* out after: its parts, their places, and what it takes itself.           *)
GoesOn(lay, t, parts, n, places) ==
  /\ n \in Nat /\ Behind(laid, t) \in Nat
  /\ \A i \in 1..n + 1 : places[i] \in Nat /\ Behind(laid, t) <= places[i]
  /\ \A i \in 1..n : /\ places[i] % parts[i].alignment = 0
                     /\ parts[i].size \in Nat \ {0}
                     /\ parts[i].alignment <= lay[t].alignment
  /\ \A i \in 1..n : \A j \in i + 1..n + 1 : places[i] + parts[i].size <= places[j]
  /\ places[n + 1] <= lay[t].sizeInSubclass
  /\ lay[t].size \in Nat \ {0} /\ lay[t].sizeInSubclass \in 0..lay[t].size
  /\ lay[t].alignment \in AlignmentsIn(program)
  /\ ParentClass(t) # Null => laid[ParentClass(t)].alignment <= lay[t].alignment

LEMMA NewPlaces ==
  ASSUME NEW t, NewType(t), ~IsEnum(t), ~IsNative(t), NEW lay, Grown(lay, t),
         NEW parts, parts = NewParts(t), NEW n, n = Len(parts),
         NEW places, places = Places(StartOf(t), parts)
  PROVE  GoesOn(lay, t, parts, n, places)
<1> DEFINE p == ParentClass(t)
           start == StartOf(t)
           a == AlignmentOf(t)
           end == places[n + 1]
<1>1. start = Behind(laid, t) /\ start \in Nat
  <2>1. start = Behind(laid, t)
    BY DEF StartOf, Behind
  <2>2. p # Null => laid[p].size \in Nat /\ laid[p].sizeInSubclass \in 0..laid[p].size
    BY NewTypeIs DEF Sized
  <2> QED
    BY <2>1, <2>2 DEF Behind
<1>2. IsParts(parts)
  <2>1. PICK b, np, ni : /\ b = OffsetsBefore(laid, t) /\ np = Len(program[t].properties) - b
                         /\ ni = Len(program[t].interfaces) - InterfacesBefore(laid, t)
    OBVIOUS
  <2>2. PartsListed(t, b, np, ni)
    BY <2>1, NewPartsAre
  <2> QED
    BY <2>2 DEF PartsListed
<1>3. /\ n \in Nat /\ IsSequence(places) /\ Len(places) = n + 1
      /\ \A i \in 1..n + 1 : places[i] \in Nat /\ start <= places[i]
      /\ \A i \in 1..n : places[i] % parts[i].alignment = 0
      /\ \A i \in 1..n : \A j \in i + 1..n + 1 : places[i] + parts[i].size <= places[j]
  <2>1. OneAfterTheOther(start, parts, n, places)
    <3> HIDE DEF start
    <3>1. places = Places(start, parts)
      BY DEF start
    <3> QED
      BY <1>1, <1>2, <3>1, PlacesAre
  <2> QED
    BY <2>1 DEF OneAfterTheOther
<1>4. /\ a \in AlignmentsIn(program) /\ a \in Nat \ {0}
      /\ p # Null => laid[p].alignment <= a
      /\ \A i \in 1..n : parts[i].alignment <= a
  BY AlignmentIs
<1>5. /\ lay[t].size = Padded(IF end = 0 THEN 1 ELSE end, a) /\ lay[t].alignment = a
      /\ lay[t].sizeInSubclass = SizeInSubclass(end, lay[t].size)
  <2>1. Last(places) = end
    BY <1>3 DEF Last
  <2>2. lay[t] = LayoutOf(t, places)
    BY DEF Grown
  <2>3. /\ LayoutOf(t, places).size = SizeOf(t, Last(places))
        /\ LayoutOf(t, places).alignment = AlignmentOf(t)
        /\ LayoutOf(t, places).sizeInSubclass = SizeInSubclass(Last(places), SizeOf(t, Last(places)))
    BY DEF LayoutOf
  <2> QED
    BY <2>1, <2>2, <2>3 DEF SizeOf
<1>6. end \in Nat
  BY <1>3
<1>7. \A i \in 1..n : parts[i].size \in Nat \ {0}
  BY <1>2 DEF IsParts
<1> HIDE DEF start, a, end
<1>8. /\ lay[t].size \in Nat \ {0} /\ lay[t].sizeInSubclass \in 0..lay[t].size
      /\ end <= lay[t].sizeInSubclass
  <2> DEFINE m == IF end = 0 THEN 1 ELSE end
  <2>1. m \in Nat \ {0} /\ end <= m
    BY <1>6
  <2>2. Padded(m, a) \in Nat /\ m <= Padded(m, a)
    BY <1>4, <2>1, PaddedIs
  <2>3. lay[t].size = Padded(m, a)
    BY <1>5
  <2>4. lay[t].sizeInSubclass \in {end, lay[t].size}
    BY <1>5 DEF SizeInSubclass
  <2> HIDE DEF m
  <2> QED
    BY <1>6, <2>1, <2>2, <2>3, <2>4
<1> QED
  BY <1>1, <1>3, <1>4, <1>5, <1>7, <1>8 DEF end, GoesOn

\* The places of the parts that such a type adds.
LEMMA NewApart ==
  ASSUME NEW t, NewType(t), ~IsEnum(t), ~IsNative(t), NEW lay, Grown(lay, t)
  PROVE  PartsApart(lay, t) /\ PartsAligned(lay, t)
<1>a. PICK b, c, np, ni :
         /\ b = OffsetsBefore(laid, t) /\ np = Len(program[t].properties) - b
         /\ c = InterfacesBefore(laid, t) /\ ni = Len(program[t].interfaces) - c
  OBVIOUS
<1>b. PICK parts, n, places :
         parts = NewParts(t) /\ n = Len(parts) /\ places = Places(StartOf(t), parts)
  OBVIOUS
<1>c. PartsListed(t, b, np, ni)
  BY <1>a, NewPartsAre
<1> DEFINE J(k) == IF k < 0 THEN -k - c ELSE ni + (k - b)
<1>1. /\ b \in Nat /\ c \in Nat /\ np \in Nat /\ ni \in Nat /\ n = ni + np /\ n \in Nat
      /\ Len(program[t].properties) \in Nat /\ Len(program[t].interfaces) \in Nat
  <2>1. /\ np \in Nat /\ ni \in Nat /\ Len(NewParts(t)) = ni + np
    BY <1>c DEF PartsListed
  <2>2. /\ b \in Nat /\ c \in Nat
        /\ Len(program[t].properties) \in Nat /\ Len(program[t].interfaces) \in Nat
    BY <1>a, NewTypeIs
  <2> QED
    BY <1>b, <2>1, <2>2
<1>2. /\ \A i \in 1..ni : parts[i] = ImplementedPart
      /\ \A i \in 1..np : parts[ni + i] = SizeIn(laid, program[t].properties[b + i].type)
      /\ \A i \in 1..n : parts[i].alignment \in AlignmentsIn(program)
  <2>1. /\ \A i \in 1..ni : NewParts(t)[i] = ImplementedPart
        /\ \A i \in 1..np : NewParts(t)[ni + i] = SizeIn(laid, program[t].properties[b + i].type)
        /\ \A i \in 1..ni + np : NewParts(t)[i].alignment \in AlignmentsIn(program)
    BY <1>c DEF PartsListed
  <2> QED
    BY <1>1, <1>b, <2>1
<1>3. /\ \A i \in 1..np : lay[t].propertyOffsets[b + i] = OffsetOf(t, places, i)
      /\ \A i \in 1..ni : lay[t].interfaceOffsets[c + i] = places[i]
  <2>1. /\ \A i \in 1..np : lay[t].propertyOffsets[b + i] = OffsetOf(t, Places(StartOf(t), NewParts(t)), i)
        /\ \A i \in 1..ni : lay[t].interfaceOffsets[c + i] = Places(StartOf(t), NewParts(t))[i]
    BY <1>a, AddedAre
  <2> QED
    BY <1>b, <2>1
<1>4. /\ \A i \in 1..n + 1 : places[i] \in Nat /\ Behind(laid, t) <= places[i]
      /\ \A i \in 1..n : /\ places[i] % parts[i].alignment = 0
                         /\ parts[i].size \in Nat \ {0}
                         /\ parts[i].alignment <= lay[t].alignment
      /\ \A i \in 1..n : \A j \in i + 1..n + 1 : places[i] + parts[i].size <= places[j]
      /\ places[n + 1] <= lay[t].sizeInSubclass
      /\ lay[t].sizeInSubclass \in Int
  <2>1. GoesOn(lay, t, parts, n, places)
    BY <1>b, NewPlaces
  <2>2. lay[t].sizeInSubclass \in Int
    BY <2>1 DEF GoesOn
  <2> QED
    BY <2>1, <2>2 DEF GoesOn
<1>5. /\ Behind(lay, t) = Behind(laid, t) /\ Added(lay, t) = Added(laid, t)
      /\ \A i \in 1..Len(program[t].properties) :
           SizeIn(lay, program[t].properties[i].type) = SizeIn(laid, program[t].properties[i].type)
  <2>1. NeededBy(t) \subseteq DOMAIN laid
    BY NewTypeIs DEF NeededBy
  <2>2. DOMAIN program[t].properties = 1..Len(program[t].properties)
    BY NewTypeIs
  <2> QED
    BY <2>1, <2>2, Unmoved DEF Grown
<1>6. lay[t].base = BaseOf(t) /\ BaseOf(t) \in Int
  <2>1. lay[t].base = BaseOf(t)
    BY DEF Grown, LayoutOf
  <2> QED
    BY <2>1, NewBase
<1>7. \A i : OffsetOf(t, places, i) = places[ni + i] - BaseOf(t)
  <2>1. Len(NewInterfaces(t)) = ni
    BY <1>c DEF PartsListed
  <2> QED
    BY <2>1 DEF OffsetOf
<1>8. ASSUME NEW k \in Added(laid, t)
      PROVE  /\ k \in Int /\ J(k) \in 1..n
             /\ At(lay, t, k) = places[J(k)] /\ PartAt(lay, t, k) = parts[J(k)]
             /\ k >= 0 => lay[t].propertyOffsets[k] \in Int
             /\ \A l \in Added(laid, t) : J(k) = J(l) => k = l
  <2>1. \A l \in Added(laid, t) : /\ l \in Int
                                  /\ l < 0 => -l - c \in 1..ni /\ J(l) \in 1..ni /\ J(l) = -l - c
                                  /\ ~(l < 0) => l - b \in 1..np /\ J(l) \in ni + 1..n /\ J(l) = ni + (l - b)
    <3> SUFFICES ASSUME NEW l \in Added(laid, t)
                 PROVE  /\ l \in Int
                        /\ l < 0 => -l - c \in 1..ni
                        /\ ~(l < 0) => l - b \in 1..np /\ ni + (l - b) \in ni + 1..n
      OBVIOUS
    <3>1. PICK wp, wi : wp = Len(program[t].properties) /\ wi = Len(program[t].interfaces)
      OBVIOUS
    <3>2. l \in Int /\ (l \in b + 1..wp \/ -l \in c + 1..wi)
      BY <1>a, <3>1 DEF Added
    <3>3. wp \in Nat /\ wi \in Nat /\ np = wp - b /\ ni = wi - c
      BY <1>1, <1>a, <3>1
    <3> QED
      BY <1>1, <3>2, <3>3
  <2>2. ASSUME NEW l \in Added(laid, t), J(k) = J(l)
        PROVE  k = l
    <3>1. k \in Int /\ l \in Int
      BY <2>1
    <3>2. CASE k < 0 /\ l < 0
      BY ONLY <1>1, <2>1, <2>2, <3>1, <3>2
    <3>3. CASE k < 0 /\ ~(l < 0)
      <4>1. J(k) \in 1..ni /\ J(l) \in ni + 1..n
        BY <2>1, <3>3
      <4> HIDE DEF J
      <4> QED
        BY ONLY <1>1, <2>2, <4>1
    <3>4. CASE ~(k < 0) /\ l < 0
      <4>1. J(l) \in 1..ni /\ J(k) \in ni + 1..n
        BY <2>1, <3>4
      <4> HIDE DEF J
      <4> QED
        BY ONLY <1>1, <2>2, <4>1
    <3>5. CASE ~(k < 0) /\ ~(l < 0)
      BY ONLY <1>1, <2>1, <2>2, <3>1, <3>5
    <3> QED
      BY <3>2, <3>3, <3>4, <3>5
  <2>3. CASE k < 0
    <3> DEFINE i == -k - c
    <3>1. i \in 1..ni /\ J(k) = i /\ -k = c + i /\ J(k) \in 1..n
      BY <1>1, <2>1, <2>3
    <3>2. At(lay, t, k) = places[i]
      BY <1>3, <2>3, <3>1 DEF At
    <3>3. PartAt(lay, t, k) = parts[i]
      BY <1>2, <2>3, <3>1 DEF PartAt
    <3>4. ~(k >= 0)
      BY <2>1, <2>3
    <3> QED
      BY <2>1, <2>2, <3>1, <3>2, <3>3, <3>4
  <2>4. CASE ~(k < 0)
    <3> DEFINE i == k - b
    <3>1. i \in 1..np /\ J(k) = ni + i /\ k = b + i /\ ni + i \in 1..n /\ k \in 1..Len(program[t].properties)
      <4>1. k \in Int /\ i \in 1..np /\ J(k) = ni + i
        BY <2>1, <2>4
      <4> HIDE DEF J
      <4>2. k = b + i
        BY <1>1, <4>1
      <4>3. PICK wp : wp = Len(program[t].properties)
        OBVIOUS
      <4>4. wp \in Nat /\ np = wp - b
        BY <1>1, <1>a, <4>3
      <4>5. k \in 1..wp /\ ni + i \in 1..n
        BY <1>1, <4>1, <4>4
      <4> QED
        BY <4>1, <4>2, <4>3, <4>5
    <3>2. At(lay, t, k) = places[ni + i] /\ lay[t].propertyOffsets[k] \in Int
      <4>1. lay[t].propertyOffsets[k] = places[ni + i] - BaseOf(t)
        BY <1>3, <1>7, <3>1
      <4>2. places[ni + i] \in Nat
        BY <1>1, <1>4, <3>1
      <4> QED
        BY <1>6, <2>4, <4>1, <4>2 DEF At
    <3>3. PartAt(lay, t, k) = parts[ni + i]
      BY <1>2, <1>5, <2>4, <3>1 DEF PartAt
    <3> QED
      BY <2>1, <2>2, <3>1, <3>2, <3>3
  <2> QED
    BY <2>3, <2>4
<1>9. \A k \in Added(laid, t) :
        /\ J(k) \in 1..n /\ At(lay, t, k) = places[J(k)] /\ PartAt(lay, t, k) = parts[J(k)]
        /\ k >= 0 => lay[t].propertyOffsets[k] \in Int
        /\ \A l \in Added(laid, t) : J(k) = J(l) => k = l
  BY <1>8
<1> HIDE DEF J
<1>11. PartsApart(lay, t)
  <2>1. ASSUME NEW k \in Added(laid, t)
        PROVE  /\ At(lay, t, k) \in Nat /\ PartAt(lay, t, k).size \in Nat \ {0}
               /\ k >= 0 => lay[t].propertyOffsets[k] \in Int
               /\ Behind(laid, t) <= At(lay, t, k)
               /\ At(lay, t, k) + PartAt(lay, t, k).size <= lay[t].sizeInSubclass
               /\ \A l \in Added(laid, t) \ {k} :
                    \/ At(lay, t, k) + PartAt(lay, t, k).size <= At(lay, t, l)
                    \/ At(lay, t, l) + PartAt(lay, t, l).size <= At(lay, t, k)
    <3>1. PICK i \in 1..n : At(lay, t, k) = places[i] /\ PartAt(lay, t, k) = parts[i] /\ i = J(k)
      BY <1>9
    <3>2. /\ places[i] \in Nat /\ parts[i].size \in Nat \ {0} /\ Behind(laid, t) <= places[i]
          /\ places[i] + parts[i].size <= places[n + 1] /\ places[n + 1] \in Nat
      BY <1>4, <1>1
    <3>3. ASSUME NEW l \in Added(laid, t) \ {k}
          PROVE  \/ At(lay, t, k) + PartAt(lay, t, k).size <= At(lay, t, l)
                 \/ At(lay, t, l) + PartAt(lay, t, l).size <= At(lay, t, k)
      <4>1. PICK j \in 1..n : At(lay, t, l) = places[j] /\ PartAt(lay, t, l) = parts[j] /\ j = J(l)
        BY <1>9
      <4>2. i # j
        BY <1>9, <3>1, <4>1
      <4>3. i \in j + 1..n + 1 \/ j \in i + 1..n + 1
        BY <1>1, <4>2
      <4> QED
        BY <1>4, <3>1, <4>1, <4>3
    <3>4. places[i] + parts[i].size <= lay[t].sizeInSubclass
      BY <1>4, <3>2
    <3> QED
      BY <1>9, <3>1, <3>2, <3>3, <3>4
  <2> QED
    BY <1>5, <2>1 DEF PartsApart
<1>12. PartsAligned(lay, t)
  BY <1>2, <1>4, <1>5, <1>9 DEF PartsAligned
<1> QED
  BY <1>11, <1>12

\* What the host declares of a type.
LEMMA NativeIs ==
  ASSUME NEW t, NewType(t), ~IsEnum(t), IsNative(t), NEW lay, Grown(lay, t), NEW host, host = Native(t)
  PROVE  /\ t \in StructuredIn(program) /\ program[t].native # <<>> /\ host = program[t].native[1]
         /\ lay[t].size = host.size /\ host.size \in Nat \ {0}
         /\ lay[t].sizeInSubclass = host.sizeInSubclass /\ host.sizeInSubclass \in 0..host.size
         /\ lay[t].alignment = host.alignment /\ host.alignment \in AlignmentsIn(program)
         /\ lay[t].base = host.base /\ host.base \in Int /\ BaseOf(t) = host.base
         /\ lay[t].nativeSize = host.sizeInSubclass
         /\ lay[t].nativeParts = Len(program[t].properties)
         /\ program[t].interfaces = <<>>
         /\ TypeIsClass(t) <=> program[t].storage = "class"
         /\ ~TypeIsClass(t) => host.base = 0
<1>1. t \in StructuredIn(program) /\ program[t].native # <<>> /\ host = program[t].native[1]
  BY DEF NewType, Structured, IsNative, Native
<1>2. /\ program[t].interfaces = <<>> /\ host.size \in Nat \ {0}
      /\ host.sizeInSubclass \in 0..host.size
      /\ program[t].storage # "class" => host.base = 0
  BY <1>1 DEF NewType, ProgramInv, NativesPlaced
<1>3. TypeIsClass(t) <=> program[t].storage = "class"
  BY <1>1 DEF TypeIsClass, Stored, IsStructured, Types, StructuredIn
<1>4. host.base \in Int
  <2>1. CASE program[t].storage = "class"
    <3>1. host.base = BuiltIn[Object].base
      BY <1>1, <2>1 DEF NewType, ProgramInv, NativesDerived
    <3> QED
      BY <3>1, BuiltInAssumption
  <2>2. CASE program[t].storage # "class"
    BY <1>2, <2>2
  <2> QED
    BY <2>1, <2>2
<1>5. host.alignment \in AlignmentsIn(program)
  BY <1>1 DEF AlignmentsIn
<1>6. BaseOf(t) = host.base
  BY DEF BaseOf
<1>7. PICK layout : layout = LayoutOf(t, Places(StartOf(t), NewParts(t)))
  OBVIOUS
<1>8. /\ layout.size = host.size /\ layout.sizeInSubclass = host.sizeInSubclass
      /\ layout.alignment = host.alignment /\ layout.base = host.base
      /\ layout.nativeSize = host.sizeInSubclass
      /\ layout.nativeParts = Len(program[t].properties)
  BY <1>6, <1>7 DEF LayoutOf, SizeOf, AlignmentOf
<1>9. lay[t] = layout
  BY <1>7 DEF Grown
<1> QED
  BY <1>1, <1>2, <1>3, <1>4, <1>5, <1>6, <1>8, <1>9

\* A class of the host derives from another.
LEMMA NativeBehind ==
  ASSUME NEW t, NewType(t), ~IsEnum(t), IsNative(t), Regular(t), NEW lay, Grown(lay, t),
         NEW p, p = ParentClass(t), p # Null
  PROVE  /\ TypeIsClass(t) /\ p = HostParent(program, t) /\ HostDeclares(program, p)
         /\ HostSize(program, p) = Behind(laid, t)
         /\ HostSize(program, p) <= lay[t].sizeInSubclass
         /\ Len(program[p].properties) = OffsetsBefore(laid, t)
         /\ lay[t].base = laid[p].base
<1>1. /\ p \in DOMAIN laid /\ Resolvable(t) /\ TypeIsClass(t) /\ TypeIsClass(p)
  BY NewTypeIs DEF Regular
<1>2. p = HostParent(program, t)
  BY <1>1 DEF HostParent, ParentClass, Parent
<1>3. ~laid[p].inherited
  BY <1>1 DEF Resolvable, InheritsAll
<1>4. PICK host : host = Native(t)
  OBVIOUS
<1>5. /\ t \in StructuredIn(program) /\ program[t].storage = "class" /\ program[t].native # <<>>
      /\ t \notin DOMAIN BuiltIn /\ host = program[t].native[1]
      /\ lay[t].sizeInSubclass = host.sizeInSubclass /\ lay[t].base = host.base
  BY <1>1, <1>4, NativeIs, NewTypeIs
<1>6. /\ host.base = BuiltIn[Object].base /\ HostSize(program, t) = host.sizeInSubclass
      /\ p \in DOMAIN BuiltIn \/ program[p].native # <<>> =>
           HostSize(program, p) <= HostSize(program, t)
  <2>1. p \in {program[t].parent, Object} \ {Null}
    BY DEF ParentClass, Parent
  <2> QED
    BY <1>5, <2>1 DEF NewType, ProgramInv, NativesDerived, HostSize
<1>7. Behind(laid, t) = laid[p].sizeInSubclass /\ OffsetsBefore(laid, t) = Len(laid[p].propertyOffsets)
  BY DEF Behind, OffsetsBefore
<1>8. p \in StructuredIn(program) /\ program[p].storage = "class"
  BY <1>1 DEF TypeIsClass, Stored, IsStructured, Types, StructuredIn
<1>9. CASE p \in DOMAIN BuiltIn
  <2>1. laid[p] = HostLayout(p)
    BY <1>9 DEF NewType, LaidInv
  <2>2. /\ laid[p].sizeInSubclass = BuiltIn[p].sizeInSubclass /\ laid[p].base = BuiltIn[p].base
        /\ laid[p].propertyOffsets = <<>>
    BY <2>1 DEF HostLayout, EmptyLayout
  <2>3. program[p].properties = <<>> /\ BuiltIn[p].base = BuiltIn[Object].base
    BY <1>8, <1>9 DEF NewType, ProgramInv, BuiltInsFound
  <2>4. HostSize(program, p) = BuiltIn[p].sizeInSubclass /\ HostDeclares(program, p)
    BY <1>9 DEF HostSize, HostDeclares
  <2> QED
    BY <1>1, <1>2, <1>5, <1>6, <1>7, <1>9, <2>2, <2>3, <2>4
<1>10. CASE p \notin DOMAIN BuiltIn
  <2>1. LaidClass(p) /\ LaidOut(laid, p)
    BY <1>1, <1>10 DEF NewType, LaidInv, LayoutInv
  <2>2. IsNative(p)
    BY <1>3, <2>1 DEF LaidClass
  <2>3. program[p].native # <<>> /\ Native(p) = program[p].native[1]
    BY <2>2 DEF IsNative, Native
  <2>4. ~IsEnum(p)
    BY <1>1 DEF IsEnum, TypeIsClass, Stored
  <2>5. laid[p].sizeInSubclass = Native(p).sizeInSubclass
    BY <2>1, <2>2, <2>4 DEF LaidOut
  <2>6. laid[p].base = Native(p).base
    BY <2>1, <2>2 DEF LaidClass
  <2>7. Native(p).base = BuiltIn[Object].base
    BY <1>8, <2>3 DEF NewType, ProgramInv, NativesDerived
  <2>8. HostSize(program, p) = Native(p).sizeInSubclass /\ HostDeclares(program, p)
    BY <1>10, <2>3 DEF HostSize, HostDeclares
  <2>9. Len(laid[p].propertyOffsets) = Len(program[p].properties)
    BY <2>1 DEF LaidClass
  <2> QED
    BY <1>1, <1>2, <1>5, <1>6, <1>7, <2>3, <2>5, <2>6, <2>7, <2>8, <2>9
<1> QED
  BY <1>9, <1>10

\* The host and the package mean the same by what a property takes.
LEMMA DeclaredIs ==
  ASSUME ProgramInv, LaidInv, LayoutInv(laid), NEW u, IsStruct(u) => u \in DOMAIN laid,
         StoredIn(program, u, {"val struct", "ref struct"}) => HostDeclares(program, u)
  PROVE  DeclaredSize(program, u) = SizeIn(laid, u).size
<1>1. /\ StoredIn(program, u, {"enum"}) <=> IsEnum(u)
      /\ StoredIn(program, u, {"val struct", "ref struct"}) <=> IsStruct(u)
      /\ StoredIn(program, u, {"interface"}) <=> TypeIsInterface(u)
  BY DEF StoredIn, StructuredIn, IsEnum, IsStruct, TypeIsInterface, Stored, IsStructured, Types
<1>2. CASE IsStruct(u)
  <2>1. ~IsEnum(u) /\ ~TypeIsInterface(u) /\ u \in DOMAIN laid
    BY <1>2 DEF IsEnum, IsStruct, TypeIsInterface, Stored
  <2>2. SizeIn(laid, u).size = laid[u].size
    BY <1>2, <2>1 DEF SizeIn
  <2>3. DeclaredSize(program, u) =
          IF u \in DOMAIN BuiltIn THEN BuiltIn[u].size ELSE program[u].native[1].size
    BY <1>1, <1>2, <2>1 DEF DeclaredSize
  <2>4. CASE u \in DOMAIN BuiltIn
    <3>1. laid[u] = HostLayout(u)
      BY <2>4 DEF LaidInv
    <3>2. laid[u].size = BuiltIn[u].size
      BY <3>1 DEF HostLayout, EmptyLayout
    <3> QED
      BY <2>2, <2>3, <2>4, <3>2
  <2>5. CASE u \notin DOMAIN BuiltIn
    <3>1. IsNative(u) /\ Native(u) = program[u].native[1]
      BY <1>1, <1>2, <2>5 DEF HostDeclares, IsNative, Native
    <3>2. LaidOut(laid, u)
      BY <2>1, <2>5 DEF LayoutInv
    <3>3. laid[u].size = Native(u).size
      BY <2>1, <3>1, <3>2 DEF LaidOut
    <3> QED
      BY <2>2, <2>3, <2>5, <3>1, <3>3
  <2> QED
    BY <2>4, <2>5
<1>3. CASE ~IsStruct(u)
  <2>1. IsEnum(u) => ~TypeIsInterface(u)
    BY DEF IsEnum, TypeIsInterface, Stored
  <2>2. SizeIn(laid, u) = IF IsEnum(u) THEN EnumerantPart
                          ELSE IF TypeIsInterface(u) THEN InterfacePart ELSE ReferencePart
    BY <1>3, <2>1 DEF SizeIn
  <2>3. DeclaredSize(program, u) = IF IsEnum(u) THEN EnumerantPart.size
                          ELSE IF TypeIsInterface(u) THEN InterfacePart.size ELSE ReferencePart.size
    BY <1>1, <1>3, <2>1 DEF DeclaredSize
  <2> QED
    BY <2>2, <2>3
<1> QED
  BY <1>2, <1>3

\* The properties that the host has in its own types are apart.
LEMMA NativeApart ==
  ASSUME NEW t, NewType(t), ~IsEnum(t), IsNative(t), Regular(t), NEW lay, Grown(lay, t)
  PROVE  Behind(laid, t) <= lay[t].sizeInSubclass /\ PartsApart(lay, t)
<1>1. PICK p, b, start, host, w, n :
        /\ p = ParentClass(t) /\ b = OffsetsBefore(laid, t) /\ start = Behind(laid, t)
        /\ host = Native(t) /\ w = Len(program[t].properties) /\ n = w - b
  OBVIOUS
<1>2. /\ t \in StructuredIn(program) /\ program[t].native # <<>> /\ host = program[t].native[1]
      /\ lay[t].sizeInSubclass = host.sizeInSubclass /\ host.sizeInSubclass \in 0..host.size
      /\ host.size \in Nat \ {0} /\ lay[t].base = host.base /\ host.base \in Int
      /\ BaseOf(t) = host.base /\ program[t].interfaces = <<>>
      /\ TypeIsClass(t) <=> program[t].storage = "class"
  BY <1>1, NativeIs
<1>3. b \in Nat /\ w \in Nat /\ n \in Nat /\ (~TypeIsClass(t) => p = Null)
  BY <1>1, NewTypeIs
<1>4. start <= host.sizeInSubclass /\ start \in Nat
      /\ PropertiesPlaced(program, t, b, start)
  <2>1. CASE p = Null
    <3>1. b = 0 /\ start = 0
      BY <1>1, <2>1 DEF OffsetsBefore, Behind
    <3>2. ~TypeIsClass(t)
      <4>1. Object # Null /\ t # Object
        BY NewTypeIs, BuiltInAssumption DEF Object, Null
      <4> QED
        BY <1>1, <2>1, <4>1 DEF ParentClass
    <3>3. PropertiesPlaced(program, t, 0, 0)
      BY <1>2, <3>2 DEF NewType, ProgramInv, NativesPlaced
    <3> QED
      BY <1>2, <3>1, <3>3
  <2>2. CASE p # Null
    <3>1. /\ TypeIsClass(t) /\ p = HostParent(program, t) /\ HostDeclares(program, p)
          /\ HostSize(program, p) = start /\ HostSize(program, p) <= lay[t].sizeInSubclass
          /\ Len(program[p].properties) = b
      BY <1>1, <2>2, NativeBehind
    <3>2. PropertiesPlaced(program, t, Len(program[p].properties), HostSize(program, p))
      BY <1>2, <3>1 DEF NewType, ProgramInv, NativesPlaced
    <3>3. start \in Nat
      <4>1. laid[p].size \in Nat /\ laid[p].sizeInSubclass \in 0..laid[p].size
        BY <1>1, <2>2, NewTypeIs DEF Sized
      <4> QED
        BY <1>1, <2>2, <4>1 DEF Behind
    <3> QED
      BY <1>2, <3>1, <3>2, <3>3
  <2> QED
    BY <2>1, <2>2
<1> DEFINE type(i) == program[t].properties[b + i].type
           end(i) == host.offsets[i] + DeclaredSize(program, type(i))
<1>5. \A i \in 1..n :
        /\ StoredIn(program, type(i), {"val struct", "ref struct"}) => HostDeclares(program, type(i))
        /\ host.offsets[i] \in Nat /\ start <= host.offsets[i] /\ end(i) <= host.sizeInSubclass
        /\ \A j \in (1..n) \ {i} : end(i) <= host.offsets[j] \/ end(j) <= host.offsets[i]
  BY <1>1, <1>2, <1>4 DEF PropertiesPlaced
<1>6. \A k \in Added(laid, t) : k - b \in 1..n /\ k \in 1..w /\ k = b + (k - b) /\ ~(k < 0)
  <2> SUFFICES ASSUME NEW k \in Added(laid, t)
               PROVE  k - b \in 1..n /\ k \in 1..w /\ k = b + (k - b) /\ ~(k < 0)
    OBVIOUS
  <2>1. Len(program[t].interfaces) = 0 /\ InterfacesBefore(laid, t) \in Nat
    BY <1>2, EmptyIs, NewTypeIs
  <2>2. k \in Int /\ k \in b + 1..w
    BY <1>1, <2>1 DEF Added
  <2> QED
    BY <1>1, <1>3, <2>2
<1>7. /\ Behind(lay, t) = start /\ Added(lay, t) = Added(laid, t)
      /\ \A i \in 1..w :
           SizeIn(lay, program[t].properties[i].type) = SizeIn(laid, program[t].properties[i].type)
  <2>1. NeededBy(t) \subseteq DOMAIN laid
    BY NewTypeIs DEF NeededBy
  <2>2. DOMAIN program[t].properties = 1..w
    BY <1>1, NewTypeIs
  <2> QED
    BY <1>1, <2>1, <2>2, Unmoved DEF Grown
<1>8. ASSUME NEW k \in Added(laid, t)
      PROVE  /\ At(lay, t, k) = host.offsets[k - b]
             /\ lay[t].propertyOffsets[k] \in Int
             /\ PartAt(lay, t, k).size = DeclaredSize(program, type(k - b))
             /\ PartAt(lay, t, k).size \in Nat \ {0}
  <2>1. PICK i \in 1..n : i = k - b /\ k = b + i /\ ~(k < 0) /\ k \in 1..w
    BY <1>6
  <2>2. PICK u : u = program[t].properties[k].type
    OBVIOUS
  <2>3. lay[t].propertyOffsets[b + i] = OffsetOf(t, Places(StartOf(t), NewParts(t)), i)
    BY <1>1, AddedAre
  <2>4. OffsetOf(t, Places(StartOf(t), NewParts(t)), i) = host.offsets[i] - host.base
    BY <1>1, <1>2 DEF OffsetOf
  <2>5. At(lay, t, k) = host.offsets[i] /\ lay[t].propertyOffsets[k] \in Int
    <3>1. host.offsets[i] \in Nat
      BY <1>5
    <3>2. lay[t].propertyOffsets[k] = host.offsets[i] - host.base
      BY <2>1, <2>3, <2>4
    <3>3. At(lay, t, k) = lay[t].propertyOffsets[k] + host.base
      BY <1>2, <2>1 DEF At
    <3>4. PICK x, y : x = host.offsets[i] /\ y = host.base
      OBVIOUS
    <3>5. x \in Nat /\ y \in Int
      BY <1>2, <3>1, <3>4
    <3>6. x - y \in Int /\ x - y + y = x
      BY <3>5
    <3> QED
      BY <3>2, <3>3, <3>4, <3>6
  <2>6. PartAt(lay, t, k) = SizeIn(laid, u)
    BY <1>7, <2>1, <2>2 DEF PartAt
  <2>7. type(i) = u
    BY <2>1, <2>2
  <2>8. IsStruct(u) => u \in DOMAIN laid /\ Sized(laid, u)
    BY <1>1, <2>1, <2>2, NewTypeIs
  <2>9. StoredIn(program, u, {"val struct", "ref struct"}) => HostDeclares(program, u)
    BY <1>5, <2>7
  <2>10. DeclaredSize(program, u) = SizeIn(laid, u).size
    BY <2>8, <2>9, DeclaredIs DEF NewType
  <2>11. SizeIn(laid, u).size \in Nat \ {0}
    BY <2>8, SizeInIs DEF NewType
  <2> QED
    BY <2>1, <2>5, <2>6, <2>7, <2>10, <2>11
<1>9. \A k \in Added(laid, t) :
        /\ At(lay, t, k) = host.offsets[k - b] /\ lay[t].propertyOffsets[k] \in Int
        /\ At(lay, t, k) + PartAt(lay, t, k).size = end(k - b)
        /\ PartAt(lay, t, k).size \in Nat \ {0} /\ k - b \in 1..n
  BY <1>6, <1>8
<1>10. \A k, l \in Added(laid, t) : k # l => k - b # l - b
  BY <1>3, <1>6
<1> HIDE DEF end
<1>11. PartsApart(lay, t)
  <2>1. ASSUME NEW k \in Added(laid, t)
        PROVE  /\ At(lay, t, k) \in Nat /\ PartAt(lay, t, k).size \in Nat \ {0}
               /\ k >= 0 => lay[t].propertyOffsets[k] \in Int
               /\ start <= At(lay, t, k)
               /\ At(lay, t, k) + PartAt(lay, t, k).size <= lay[t].sizeInSubclass
               /\ \A l \in Added(laid, t) \ {k} :
                    \/ At(lay, t, k) + PartAt(lay, t, k).size <= At(lay, t, l)
                    \/ At(lay, t, l) + PartAt(lay, t, l).size <= At(lay, t, k)
    BY <1>2, <1>5, <1>9, <1>10
  <2> QED
    BY <1>7, <2>1 DEF PartsApart
<1> QED
  BY <1>1, <1>2, <1>4, <1>11

\* The references in a structure are inside of it.
LEMMA StructMapped ==
  ASSUME LaidInv, LayoutInv(laid), NEW u \in DOMAIN laid, IsStruct(u), NEW refs, refs = laid[u].references
  PROVE  /\ refs \in Seq(ReferencesRead) /\ Distinct(refs)
         /\ \A j \in 1..Len(refs) : refs[j].offset \in Int /\ 0 <= refs[j].offset
                                    /\ refs[j].offset < SizeIn(laid, u).size
<1>1. ~IsEnum(u) /\ ~TypeIsInterface(u) /\ ~TypeIsClass(u)
  BY DEF IsEnum, IsStruct, TypeIsInterface, TypeIsClass, Stored
<1>2. laid[u].size \in Nat \ {0} /\ laid[u].sizeInSubclass \in 0..laid[u].size
  BY DEF LayoutInv, Sized
<1>3. SizeIn(laid, u).size = laid[u].size
  BY <1>1 DEF SizeIn
<1>4. CASE u \in DOMAIN BuiltIn
  <2>1. laid[u] = HostLayout(u)
    BY <1>4 DEF LaidInv
  <2>2. refs = <<>>
    BY <2>1 DEF HostLayout, EmptyLayout
  <2>3. Len(refs) = 0 /\ refs \in Seq(ReferencesRead)
    BY <2>2, EmptyIs
  <2> QED
    BY <1>2, <2>3 DEF Distinct
<1>5. CASE u \notin DOMAIN BuiltIn
  <2>1. LaidOut(laid, u)
    BY <1>5 DEF LayoutInv
  <2>2. ParentClass(u) = Null /\ laid[u].base = 0
    BY <1>1, <2>1 DEF LaidOut
  <2>3. Mapped(laid, u)
    BY <1>1, <2>1, <2>2 DEF LaidOut, Regular
  <2>6. refs \in Seq(ReferencesRead) /\ Distinct(refs)
    BY <2>3 DEF Mapped
  <2>4. \A j \in 1..Len(refs) : refs[j].offset \in Int
    <3>1. \A r \in ReferencesRead : r.offset \in Int
      BY DEF ReferencesRead
    <3>2. \A j \in 1..Len(refs) : refs[j] \in ReferencesRead
      BY <2>6
    <3> QED
      BY <3>1, <3>2
  <2>5. \A j \in 1..Len(refs) : refs[j].offset + 0 \in 0..laid[u].sizeInSubclass - 1
    BY <2>2, <2>3 DEF Mapped
  <2> QED
    BY <1>2, <1>3, <2>4, <2>5, <2>6
<1> QED
  BY <1>4, <1>5

\* The references of a property.
LEMMA ReferencesOfIs ==
  ASSUME NEW p \in PropertiesOver(program), NEW o \in Int,
         NEW refs, IsStruct(p.type) => refs = laid[p.type].references /\ refs \in Seq(ReferencesRead),
         NEW s, s = ReferencesOf(p, o)
  PROVE  /\ s \in Seq(ReferencesRead)
         /\ IsStruct(p.type) => /\ ToSet(s) = {[r EXCEPT !.offset = @ + o] : r \in ToSet(refs)}
                                /\ Len(s) = Len(refs)
                                /\ \A i \in 1..Len(refs) : s[i].offset = refs[i].offset + o
         /\ IsEnum(p.type) => s = <<>>
         /\ ~IsStruct(p.type) /\ ~IsEnum(p.type) =>
              /\ ToSet(s) = {ContainedReference(p, o)} /\ Len(s) = 1 /\ s[1].offset = o
<1>1. IsStruct(p.type) => ~IsEnum(p.type)
  BY DEF IsEnum, IsStruct, Stored
<1>2. CASE IsStruct(p.type)
  <2> DEFINE Moved(r) == [r EXCEPT !.offset = @ + o]
  <2>1. s = [i \in DOMAIN refs |-> Moved(refs[i])]
    BY <1>1, <1>2 DEF ReferencesOf
  <2>2. refs \in Seq(ReferencesRead) /\ DOMAIN refs = 1..Len(refs) /\ Len(refs) \in Nat
    BY <1>2
  <2>3. \A r \in ReferencesRead : Moved(r) \in ReferencesRead /\ Moved(r).offset = r.offset + o
    BY DEF ReferencesRead
  <2> HIDE DEF Moved
  <2>4. /\ s = [i \in 1..Len(refs) |-> Moved(refs[i])]
        /\ \A i \in 1..Len(refs) : Moved(refs[i]) \in ReferencesRead
    BY <2>1, <2>2, <2>3
  <2>5. s \in Seq(ReferencesRead) /\ Len(s) = Len(refs) /\ DOMAIN s = 1..Len(refs)
    BY <2>2, <2>4
  <2>6. \A i \in 1..Len(refs) : s[i] = Moved(refs[i]) /\ s[i].offset = refs[i].offset + o
    BY <2>2, <2>3, <2>4
  <2>7. ToSet(s) = {Moved(r) : r \in ToSet(refs)}
    BY <2>2, <2>5, <2>6 DEF ToSet
  <2> QED
    BY <1>1, <1>2, <2>5, <2>6, <2>7 DEF Moved
<1>3. CASE IsEnum(p.type)
  <2>1. s = <<>>
    BY <1>1, <1>3 DEF ReferencesOf
  <2>2. s \in Seq(ReferencesRead)
    BY <2>1
  <2> QED
    BY <1>1, <1>3, <2>1, <2>2
<1>4. CASE ~IsStruct(p.type) /\ ~IsEnum(p.type)
  <2> DEFINE c == ContainedReference(p, o)
  <2>1. s = <<c>>
    BY <1>4 DEF ReferencesOf
  <2>2. c \in ReferencesRead /\ c.offset = o
    BY DEF ContainedReference, ReferencesRead, PropertiesOver, Named, TypeIsInterface, Stored, IsStructured
  <2> HIDE DEF c
  <2>3. s \in Seq(ReferencesRead) /\ Len(s) = 1 /\ s[1] = c /\ DOMAIN s = 1..1
    BY <2>1, <2>2
  <2>4. ToSet(s) = {c}
    BY <2>3 DEF ToSet
  <2> QED
    BY <1>4, <2>2, <2>3, <2>4 DEF c
<1> QED
  BY <1>2, <1>3, <1>4

(* The map of a type: those of what it is laid out after, and for each of   *)
(* np new properties, from number b on, the list of its references.        *)
ReferencesMade(lay, t, b, np, before, lists, after) ==
  /\ lay[t].references = before \o after /\ after = FlattenSeq(lists)
  /\ before \in Seq(ReferencesRead) /\ lists \in [1..np -> Seq(ReferencesRead)]
  /\ ToSet(before) = ReferencesBefore(lay, t)
  /\ \A i \in 1..np :
       lists[i] = ReferencesOf(program[t].properties[b + i], lay[t].propertyOffsets[b + i])
  /\ \A i \in 1..np : /\ b + i \in 1..Len(program[t].properties)
                      /\ lay[t].propertyOffsets[b + i] \in Int
                      /\ Contributed(lay, t, b + i) = ToSet(lists[i])

\* The map of a type: what it is laid out after has in it, and what each new
\* property adds.
LEMMA NewReferences ==
  ASSUME NEW t, NewType(t), ~IsEnum(t), Regular(t), NEW lay, Grown(lay, t),
         ParentClass(t) # Null => Mapped(laid, ParentClass(t)),
         NEW b, b = OffsetsBefore(laid, t), NEW np, np = Len(program[t].properties) - b,
         NEW before, before = InheritedReferences(t)
  PROVE  \E lists, after : ReferencesMade(lay, t, b, np, before, lists, after)
<1>1. PICK ni : ni = Len(program[t].interfaces) - InterfacesBefore(laid, t)
  OBVIOUS
<1>2. PartsListed(t, b, np, ni)
  BY <1>1, NewPartsAre
<1>3. PICK places : places = Places(StartOf(t), NewParts(t))
  OBVIOUS
<1>4. PICK new : new = NewProperties(t)
  OBVIOUS
<1>5. PICK lists : lists = [i \in DOMAIN new |-> ReferencesOf(new[i], OffsetOf(t, places, i))]
  OBVIOUS
<1>6. lay[t].references = before \o FlattenSeq(lists)
  <2>1. lay[t] = LayoutOf(t, places)
    BY <1>3 DEF Grown
  <2>2. LayoutOf(t, places).references = before \o FlattenSeq(lists)
    BY <1>4, <1>5 DEF LayoutOf
  <2> QED
    BY <2>1, <2>2
<1>7. /\ np \in Nat /\ DOMAIN new = 1..np
      /\ \A i \in 1..np : new[i] = program[t].properties[b + i]
  BY <1>2, <1>4 DEF PartsListed
<1>8. \A i \in 1..np : lay[t].propertyOffsets[b + i] = OffsetOf(t, places, i)
  BY <1>3, AddedAre
<1>9. /\ DOMAIN lists = 1..np /\ lists = [i \in 1..np |-> lists[i]]
      /\ \A i \in 1..np :
           lists[i] = ReferencesOf(program[t].properties[b + i], lay[t].propertyOffsets[b + i])
  BY <1>5, <1>7, <1>8
<1>10. before \in Seq(ReferencesRead) /\ ToSet(before) = ReferencesBefore(lay, t)
  <2>1. PICK p : p = ParentClass(t)
    OBVIOUS
  <2>2. CASE p = Null
    <3>1. before = <<>> /\ ReferencesBefore(lay, t) = {}
      BY <2>1, <2>2 DEF InheritedReferences, ReferencesBefore
    <3>2. <<>> \in Seq(ReferencesRead) /\ ToSet(<<>>) = {}
      BY DEF ToSet
    <3> QED
      BY <3>1, <3>2
  <2>3. CASE p # Null
    <3>1. p \in DOMAIN laid /\ Mapped(laid, p) /\ lay[p] = laid[p]
      BY <2>1, <2>3, NewTypeIs DEF Grown
    <3>2. before = laid[p].references /\ ReferencesBefore(lay, t) = ToSet(lay[p].references)
      BY <2>1, <2>3 DEF InheritedReferences, ReferencesBefore
    <3> QED
      BY <3>1, <3>2 DEF Mapped
  <2> QED
    BY <2>2, <2>3
<1>11. /\ IsSequence(lay[t].propertyOffsets)
       /\ Len(lay[t].propertyOffsets) = Len(program[t].properties)
       /\ b \in Nat /\ Len(program[t].properties) \in Nat
  BY AddedAre, NewTypeIs
<1>12. ASSUME NEW i \in 1..np
       PROVE  b + i \in 1..Len(program[t].properties)
  <2>1. PICK w : w = Len(program[t].properties)
    OBVIOUS
  <2>2. np = w - b /\ w \in Nat
    BY <1>11, <2>1
  <2>3. b + i \in 1..w
    BY <1>11, <2>2
  <2> QED
    BY <2>1, <2>3
<1>13. ASSUME NEW i \in 1..np
       PROVE  lay[t].propertyOffsets[b + i] \in Int
  <2>1. b + i \in Added(lay, t) /\ ~(b + i < 0)
    <3>1. OffsetsBefore(lay, t) = b
      BY NewTypeIs, Unmoved DEF NeededBy, Grown
    <3>2. PICK w : w = Len(program[t].properties)
      OBVIOUS
    <3>3. b + i \in Int /\ b + i \in b + 1..w /\ ~(b + i < 0)
      BY <1>11, <3>2
    <3> QED
      BY <3>1, <3>2, <3>3 DEF Added
  <2>2. b + i >= 0
    BY <1>11
  <2>3. PartsApart(lay, t)
    BY NewApart, NativeApart
  <2> QED
    BY <2>1, <2>2, <2>3 DEF PartsApart
<1>14. ASSUME NEW i \in 1..np
       PROVE  /\ lists[i] \in Seq(ReferencesRead)
              /\ Contributed(lay, t, b + i) = ToSet(lists[i])
  <2>1. PICK p, o : p = program[t].properties[b + i] /\ o = lay[t].propertyOffsets[b + i]
    OBVIOUS
  <2>2. p \in PropertiesOver(program) /\ o \in Int
    BY <1>8, <1>12, <1>13, <2>1, NewTypeIs
  <2>3. IsStruct(p.type) => /\ p.type \in DOMAIN laid
                            /\ lay[p.type] = laid[p.type]
    BY <1>12, <2>1, NewTypeIs DEF Grown
  <2>4. PICK refs : refs = laid[p.type].references
    OBVIOUS
  <2>5. IsStruct(p.type) => refs \in Seq(ReferencesRead)
    BY <2>3, <2>4, StructMapped DEF NewType
  <2>10. IsStruct(p.type) => refs = laid[p.type].references /\ refs \in Seq(ReferencesRead)
    BY <2>4, <2>5
  <2>6. PICK s : s = ReferencesOf(p, o)
    OBVIOUS
  <2>7. lists[i] = s
    BY <1>9, <2>1, <2>6
  <2>8. /\ s \in Seq(ReferencesRead)
        /\ IsStruct(p.type) => ToSet(s) = {[r EXCEPT !.offset = @ + o] : r \in ToSet(refs)}
        /\ IsEnum(p.type) => s = <<>>
        /\ ~IsStruct(p.type) /\ ~IsEnum(p.type) => ToSet(s) = {ContainedReference(p, o)}
    <3>1. /\ s \in Seq(ReferencesRead)
          /\ IsStruct(p.type) => ToSet(s) = {[r EXCEPT !.offset = @ + o] : r \in ToSet(refs)}
      BY <2>2, <2>10, <2>6, ReferencesOfIs
    <3>2. IsEnum(p.type) => s = <<>>
      BY <2>2, <2>10, <2>6, ReferencesOfIs
    <3>3. ~IsStruct(p.type) /\ ~IsEnum(p.type) => ToSet(s) = {ContainedReference(p, o)}
      BY <2>2, <2>10, <2>6, ReferencesOfIs
    <3> QED
      BY <3>1, <3>2, <3>3
  <2>9. Contributed(lay, t, b + i) = ToSet(s)
    <3>1. IsStruct(p.type) => ~IsEnum(p.type)
      BY DEF IsEnum, IsStruct, Stored
    <3>2. ToSet(<<>>) = {}
      BY DEF ToSet
    <3>3. CASE IsStruct(p.type)
      <4>1. Contributed(lay, t, b + i) = {[r EXCEPT !.offset = @ + o] : r \in ToSet(lay[p.type].references)}
        BY <2>1, <3>1, <3>3 DEF Contributed
      <4> QED
        BY <2>3, <2>4, <2>8, <3>3, <4>1
    <3>4. CASE IsEnum(p.type)
      <4>1. Contributed(lay, t, b + i) = {}
        BY <2>1, <3>1, <3>4 DEF Contributed
      <4> QED
        BY <2>8, <3>2, <3>4, <4>1
    <3>5. CASE ~IsStruct(p.type) /\ ~IsEnum(p.type)
      <4>1. Contributed(lay, t, b + i) = {ContainedReference(p, o)}
        BY <2>1, <3>5 DEF Contributed
      <4> QED
        BY <2>8, <3>5, <4>1
    <3> QED
      BY <3>3, <3>4, <3>5
  <2> QED
    BY <2>7, <2>8, <2>9
<1>15. lists \in [1..np -> Seq(ReferencesRead)]
  BY <1>9, <1>14
<1>16. PICK after : after = FlattenSeq(lists)
  OBVIOUS
<1>17. \A i \in 1..np : /\ b + i \in 1..Len(program[t].properties)
                        /\ lay[t].propertyOffsets[b + i] \in Int
                        /\ Contributed(lay, t, b + i) = ToSet(lists[i])
  BY <1>8, <1>12, <1>13, <1>14
<1>18. ReferencesMade(lay, t, b, np, before, lists, after)
  BY <1>6, <1>9, <1>10, <1>15, <1>16, <1>17 DEF ReferencesMade
<1> QED
  BY <1>18

\* The references that a property adds are in the place of the property.
LEMMA ReferencesInside ==
  ASSUME NEW t, NewType(t), ~IsEnum(t), Regular(t), NEW lay, Grown(lay, t),
         NEW k \in Added(laid, t), k > 0, NEW s,
         s = ReferencesOf(program[t].properties[k], lay[t].propertyOffsets[k])
  PROVE  /\ k \in 1..Len(program[t].properties)
         /\ Distinct(s)
         /\ \A m \in 1..Len(s) :
              /\ s[m].offset \in Int /\ At(lay, t, k) <= s[m].offset + lay[t].base
              /\ s[m].offset + lay[t].base < At(lay, t, k) + PartAt(lay, t, k).size
<1>1. PICK p, o, base : /\ p = program[t].properties[k] /\ o = lay[t].propertyOffsets[k]
                        /\ base = lay[t].base
  OBVIOUS
<1>2. Added(lay, t) = Added(laid, t) /\ PartsApart(lay, t)
  BY NewApart, NativeApart, NewTypeIs, Unmoved DEF NeededBy, Grown
<1>3. k \in 1..Len(program[t].properties)
  <2>1. PICK w, v : w = Len(program[t].properties) /\ v = Len(program[t].interfaces)
    OBVIOUS
  <2>2. w \in Nat /\ v \in Nat /\ OffsetsBefore(laid, t) \in Nat /\ InterfacesBefore(laid, t) \in Nat
    BY <2>1, NewTypeIs
  <2>3. k \in Int /\ (k \in OffsetsBefore(laid, t) + 1..w \/ -k \in InterfacesBefore(laid, t) + 1..v)
    BY <2>1 DEF Added
  <2>4. k \in 1..w
    BY <2>2, <2>3
  <2> QED
    BY <2>1, <2>4
<1>4. /\ At(lay, t, k) \in Nat /\ PartAt(lay, t, k).size \in Nat \ {0} /\ o \in Int
      /\ At(lay, t, k) = o + base /\ PartAt(lay, t, k) = SizeIn(lay, p.type)
  <2>1. k >= 0 /\ ~(k < 0)
    BY <1>3
  <2> QED
    BY <1>1, <1>2, <2>1 DEF PartsApart, At, PartAt
<1>5. base \in Int
  <2>1. base = BaseOf(t)
    BY <1>1 DEF Grown, LayoutOf
  <2>2. CASE IsNative(t)
    BY <1>1, <2>2, NativeIs
  <2>3. CASE ~IsNative(t)
    BY <2>1, <2>3, NewBase
  <2> QED
    BY <2>2, <2>3
<1>6. p \in PropertiesOver(program)
  BY <1>1, <1>3, NewTypeIs
<1>7. PICK refs : refs = laid[p.type].references
  OBVIOUS
<1>8. IsStruct(p.type) => /\ refs \in Seq(ReferencesRead) /\ Distinct(refs)
                          /\ \A j \in 1..Len(refs) : /\ refs[j].offset \in Int /\ 0 <= refs[j].offset
                                                     /\ refs[j].offset < PartAt(lay, t, k).size
  <2> SUFFICES ASSUME IsStruct(p.type)
               PROVE  /\ refs \in Seq(ReferencesRead) /\ Distinct(refs)
                      /\ \A j \in 1..Len(refs) : /\ refs[j].offset \in Int /\ 0 <= refs[j].offset
                                                 /\ refs[j].offset < PartAt(lay, t, k).size
    OBVIOUS
  <2>1. p.type \in DOMAIN laid /\ lay[p.type] = laid[p.type]
    BY <1>1, <1>3, NewTypeIs DEF Grown
  <2>2. SizeIn(lay, p.type) = SizeIn(laid, p.type)
    BY <2>1 DEF SizeIn
  <2> QED
    BY <1>4, <1>7, <2>1, <2>2, StructMapped DEF NewType
<1>9. s = ReferencesOf(p, o)
  BY <1>1
<1>10. IsStruct(p.type) => refs = laid[p.type].references /\ refs \in Seq(ReferencesRead)
  BY <1>7, <1>8
<1>11. CASE IsStruct(p.type)
  <2>1. Len(s) = Len(refs) /\ \A i \in 1..Len(refs) : s[i].offset = refs[i].offset + o
    BY <1>4, <1>6, <1>9, <1>10, <1>11, ReferencesOfIs
  <2>2. \A j \in 1..Len(refs) : /\ refs[j].offset \in Int /\ 0 <= refs[j].offset
                                /\ refs[j].offset < PartAt(lay, t, k).size
    BY <1>8, <1>11
  <2>3. Distinct(s)
    <3>1. ASSUME NEW i \in 1..Len(refs), NEW j \in 1..Len(refs), s[i].offset = s[j].offset
          PROVE  i = j
      <4>1. refs[i].offset + o = refs[j].offset + o
        BY <2>1, <3>1
      <4>2. refs[i].offset = refs[j].offset
        BY <1>4, <2>2, <4>1
      <4> QED
        BY <1>8, <1>11, <4>2 DEF Distinct
    <3> QED
      BY <2>1, <3>1 DEF Distinct
  <2>4. ASSUME NEW m \in 1..Len(refs)
        PROVE  /\ s[m].offset \in Int /\ At(lay, t, k) <= s[m].offset + base
               /\ s[m].offset + base < At(lay, t, k) + PartAt(lay, t, k).size
    <3>1. PICK x, z : x = refs[m].offset /\ z = PartAt(lay, t, k).size
      OBVIOUS
    <3>2. x \in Int /\ 0 <= x /\ x < z /\ z \in Int /\ s[m].offset = x + o
      BY <1>4, <2>1, <2>2, <3>1
    <3> QED
      BY <1>4, <1>5, <3>1, <3>2, SMTT(30)
  <2> QED
    BY <1>1, <1>3, <2>1, <2>3, <2>4
<1>12. CASE IsEnum(p.type)
  <2>1. s = <<>>
    BY <1>4, <1>6, <1>9, <1>10, <1>12, ReferencesOfIs
  <2>2. Len(s) = 0
    BY <2>1, EmptyIs
  <2> QED
    BY <1>3, <2>2 DEF Distinct
<1>13. CASE ~IsStruct(p.type) /\ ~IsEnum(p.type)
  <2>1. Len(s) = 1 /\ s[1].offset = o
    BY <1>4, <1>6, <1>9, <1>10, <1>13, ReferencesOfIs
  <2>2. \A m \in 1..1 : m = 1
    OBVIOUS
  <2>3. Distinct(s)
    BY <2>1, <2>2 DEF Distinct
  <2>4. PICK z : z = PartAt(lay, t, k).size
    OBVIOUS
  <2>5. o + base < At(lay, t, k) + z
    BY <1>4, <1>5, <2>4
  <2> QED
    BY <1>1, <1>3, <1>4, <2>1, <2>2, <2>3, <2>4, <2>5
<1> QED
  BY <1>11, <1>12, <1>13

\* The map of a type names each reference once, and those that are in it.
LEMMA NewMapped ==
  ASSUME NEW t, NewType(t), ~IsEnum(t), Regular(t), NEW lay, Grown(lay, t),
         ParentClass(t) # Null => Mapped(laid, ParentClass(t)),
         lay[t].sizeInSubclass \in Int, Behind(laid, t) <= lay[t].sizeInSubclass
  PROVE  ReferencesCollected(lay, t) /\ Mapped(lay, t)
<1>1. PICK p, b, w, np, before, base :
        /\ p = ParentClass(t) /\ b = OffsetsBefore(laid, t)
        /\ w = Len(program[t].properties) /\ np = w - b
        /\ before = InheritedReferences(t) /\ base = lay[t].base
  OBVIOUS
<1>2a. PICK lists, after : ReferencesMade(lay, t, b, np, before, lists, after)
  BY <1>1, NewReferences
<1>2. /\ lay[t].references = before \o after /\ after = FlattenSeq(lists)
      /\ before \in Seq(ReferencesRead) /\ lists \in [1..np -> Seq(ReferencesRead)]
      /\ ToSet(before) = ReferencesBefore(lay, t)
      /\ \A i \in 1..np :
           lists[i] = ReferencesOf(program[t].properties[b + i], lay[t].propertyOffsets[b + i])
      /\ \A i \in 1..np : /\ b + i \in 1..w
                          /\ lay[t].propertyOffsets[b + i] \in Int
                          /\ Contributed(lay, t, b + i) = ToSet(lists[i])
  BY <1>1, <1>2a DEF ReferencesMade
<1>3. b \in Nat /\ w \in Nat /\ np \in Nat /\ OffsetsBefore(lay, t) = b /\ Added(lay, t) = Added(laid, t)
  BY <1>1, NewTypeIs, Unmoved DEF NeededBy, Grown
<1>4a. Flattened(ReferencesRead, np, lists, after)
  <2>1. lists \in [1..np -> Seq(ReferencesRead)] /\ after = FlattenSeq(lists)
    BY <1>2
  <2> QED
    BY <1>3, <2>1, FlattenIs
<1>4. /\ after \in Seq(ReferencesRead)
      /\ \A x : x \in ToSet(after) <=> \E i \in 1..np : x \in ToSet(lists[i])
      /\ (\A i \in 1..np : Distinct(lists[i])) /\ (\A i, j \in 1..np : i # j => Apart(lists[i], lists[j]))
           => Distinct(after)
  BY <1>4a DEF Flattened
<1>5. PICK all : all = lay[t].references
  OBVIOUS
<1>6. /\ all \in Seq(ReferencesRead) /\ ToSet(all) = ToSet(before) \cup ToSet(after)
      /\ Distinct(before) /\ Distinct(after) /\ Apart(before, after) => Distinct(all)
  <2>1. all = before \o after
    BY <1>2, <1>5
  <2> QED
    BY <1>2, <1>4, <2>1, Joined
<1>7. ReferencesCollected(lay, t)
  <2>1. ASSUME NEW r
        PROVE  r \in ToSet(after) <=> \E k \in b + 1..w : r \in Contributed(lay, t, k)
    <3>1. \A k \in b + 1..w : k - b \in 1..np /\ b + (k - b) = k
      BY <1>1, <1>3
    <3>2. \A i \in 1..np : b + i \in b + 1..w
      BY <1>1, <1>3
    <3>3. ASSUME NEW k \in b + 1..w, r \in Contributed(lay, t, k)
          PROVE  \E i \in 1..np : r \in ToSet(lists[i])
      <4>1. PICK i \in 1..np : b + i = k
        BY <3>1
      <4> QED
        BY <1>2, <3>3, <4>1
    <3>4. ASSUME NEW i \in 1..np, r \in ToSet(lists[i])
          PROVE  \E k \in b + 1..w : r \in Contributed(lay, t, k)
      BY <1>2, <3>2, <3>4
    <3> QED
      BY <1>4, <3>3, <3>4
  <2> QED
    BY <1>1, <1>2, <1>3, <1>5, <1>6, <2>1 DEF ReferencesCollected
<1> DEFINE Inside(k, r) == /\ r.offset \in Int /\ At(lay, t, k) <= r.offset + base
                           /\ r.offset + base < At(lay, t, k) + PartAt(lay, t, k).size
<1>8. ASSUME NEW i \in 1..np
      PROVE  /\ b + i \in Added(lay, t) /\ Distinct(lists[i])
             /\ \A m \in 1..Len(lists[i]) : Inside(b + i, lists[i][m])
  <2>1. b + i \in Added(laid, t) /\ b + i > 0
    <3>1. b + i \in Int /\ b + i \in b + 1..w /\ b + i > 0
      BY <1>1, <1>3
    <3> QED
      BY <1>1, <3>1 DEF Added
  <2>2. PICK k, s : k = b + i /\ s = lists[i]
    OBVIOUS
  <2>3. s = ReferencesOf(program[t].properties[k], lay[t].propertyOffsets[k])
    BY <1>2, <2>2
  <2>4. /\ Distinct(s)
        /\ \A m \in 1..Len(s) :
              /\ s[m].offset \in Int /\ At(lay, t, k) <= s[m].offset + lay[t].base
              /\ s[m].offset + lay[t].base < At(lay, t, k) + PartAt(lay, t, k).size
    BY <2>1, <2>2, <2>3, ReferencesInside
  <2> QED
    BY <1>1, <1>3, <2>1, <2>2, <2>4
<1>9. PartsApart(lay, t)
  BY NewApart, NativeApart
<1>10. base \in Int
  <2>1. base = BaseOf(t)
    BY <1>1 DEF Grown, LayoutOf
  <2>2. CASE IsNative(t)
    BY <1>1, <2>2, NativeIs
  <2>3. CASE ~IsNative(t)
    BY <2>1, <2>3, NewBase
  <2> QED
    BY <2>2, <2>3
<1>11. ASSUME NEW i \in 1..np, NEW j \in 1..np, i # j
       PROVE  Apart(lists[i], lists[j])
  <2> SUFFICES ASSUME NEW m \in 1..Len(lists[i]), NEW l \in 1..Len(lists[j])
               PROVE  lists[i][m].offset # lists[j][l].offset
    BY DEF Apart
  <2>1. Inside(b + i, lists[i][m]) /\ Inside(b + j, lists[j][l])
    BY <1>8
  <2>2. PICK k, h : k = b + i /\ h = b + j
    OBVIOUS
  <2>3. k \in Added(lay, t) /\ h \in Added(lay, t) \ {k}
    BY <1>3, <1>8, <1>11, <2>2
  <2>4. /\ At(lay, t, k) \in Nat /\ At(lay, t, h) \in Nat
        /\ PartAt(lay, t, k).size \in Nat /\ PartAt(lay, t, h).size \in Nat
        /\ \/ At(lay, t, k) + PartAt(lay, t, k).size <= At(lay, t, h)
           \/ At(lay, t, h) + PartAt(lay, t, h).size <= At(lay, t, k)
    BY <1>9, <2>3 DEF PartsApart
  <2>5. PICK x, y, a, c, da, dc :
          /\ x = lists[i][m].offset /\ y = lists[j][l].offset /\ a = At(lay, t, k) /\ c = At(lay, t, h)
          /\ da = PartAt(lay, t, k).size /\ dc = PartAt(lay, t, h).size
    OBVIOUS
  <2>6. /\ x \in Int /\ a <= x + base /\ x + base < a + da
        /\ y \in Int /\ c <= y + base /\ y + base < c + dc
    BY <2>1, <2>2, <2>5
  <2>7. a \in Nat /\ c \in Nat /\ da \in Nat /\ dc \in Nat /\ (a + da <= c \/ c + dc <= a)
    BY <2>4, <2>5
  <2>8. x # y
    BY ONLY <1>10, <2>6, <2>7
  <2> QED
    BY <2>5, <2>8
<1>12. Distinct(after)
  BY <1>4, <1>8, <1>11
<1>13. ASSUME NEW m \in 1..Len(after)
       PROVE  /\ after[m].offset \in Int /\ Behind(laid, t) <= after[m].offset + base
              /\ after[m].offset + base < lay[t].sizeInSubclass /\ Behind(laid, t) \in Nat
  <2>1. DOMAIN after = 1..Len(after)
    BY <1>4
  <2>2. after[m] \in ToSet(after)
    BY <2>1 DEF ToSet
  <2>3. PICK i \in 1..np : after[m] \in ToSet(lists[i])
    BY <1>4, <2>2
  <2>4. DOMAIN lists[i] = 1..Len(lists[i])
    BY <1>2
  <2>5. PICK l \in 1..Len(lists[i]) : after[m] = lists[i][l]
    BY <2>3, <2>4 DEF ToSet
  <2>6. PICK k, r : k = b + i /\ r = after[m]
    OBVIOUS
  <2>7. k \in Added(lay, t) /\ Inside(k, r)
    BY <1>8, <2>5, <2>6
  <2>8. /\ At(lay, t, k) \in Nat /\ PartAt(lay, t, k).size \in Nat /\ Behind(lay, t) <= At(lay, t, k)
        /\ At(lay, t, k) + PartAt(lay, t, k).size <= lay[t].sizeInSubclass
    BY <1>9, <2>7 DEF PartsApart
  <2>9. Behind(lay, t) = Behind(laid, t) /\ Behind(laid, t) \in Nat
    <3>1. Behind(lay, t) = Behind(laid, t)
      BY NewTypeIs, Unmoved DEF NeededBy, Grown
    <3>2. p # Null => laid[p].size \in Nat /\ laid[p].sizeInSubclass \in 0..laid[p].size
      BY <1>1, NewTypeIs DEF Sized
    <3> QED
      BY <1>1, <3>1, <3>2 DEF Behind
  <2> QED
    BY <1>10, <2>6, <2>7, <2>8, <2>9
<1>14. ASSUME NEW m \in 1..Len(before)
       PROVE  /\ before[m].offset \in Int /\ before[m].offset + base >= 0
              /\ before[m].offset + base < Behind(laid, t) /\ Behind(laid, t) \in Nat
  <2>1. p # Null
    <3>1. p = Null => before = <<>>
      BY <1>1 DEF InheritedReferences
    <3>2. before # <<>>
      BY <1>2, EmptyIs
    <3> QED
      BY <3>1, <3>2
  <2>2. before = laid[p].references /\ Behind(laid, t) = laid[p].sizeInSubclass /\ p \in DOMAIN laid
    BY <1>1, <2>1, NewTypeIs DEF InheritedReferences, Behind
  <2>3. base = laid[p].base
    <3>1. CASE IsNative(t)
      BY <1>1, <2>1, <3>1, NativeBehind
    <3>2. CASE ~IsNative(t)
      BY <1>1, <2>1, <3>2 DEF Grown, LayoutOf, BaseOf
    <3> QED
      BY <3>1, <3>2
  <2>4. /\ before[m].offset + base \in 0..Behind(laid, t) - 1
    BY <1>1, <2>1, <2>2, <2>3 DEF Mapped
  <2>5. laid[p].size \in Nat /\ laid[p].sizeInSubclass \in 0..laid[p].size
    BY <1>1, <2>1, NewTypeIs DEF Sized
  <2>6. before[m].offset \in Int
    <3>1. \A r \in ReferencesRead : r.offset \in Int
      BY DEF ReferencesRead
    <3>2. before[m] \in ReferencesRead
      BY <1>2
    <3> QED
      BY <3>1, <3>2
  <2> QED
    BY <1>10, <2>2, <2>4, <2>5, <2>6
<1>15. Apart(before, after)
  BY <1>10, <1>13, <1>14 DEF Apart
<1>16. Distinct(before)
  <2>1. CASE p = Null
    <3>1. before = <<>>
      BY <1>1, <2>1 DEF InheritedReferences
    <3> QED
      BY <3>1, EmptyIs DEF Distinct
  <2>2. CASE p # Null
    BY <1>1, <2>2 DEF InheritedReferences, Mapped
  <2> QED
    BY <2>1, <2>2
<1>17. ASSUME NEW m \in 1..Len(all)
       PROVE  all[m].offset + base \in 0..lay[t].sizeInSubclass - 1
  <2>1. DOMAIN all = 1..Len(all)
    BY <1>6
  <2>2. all[m] \in ToSet(before) \/ all[m] \in ToSet(after)
    <3>1. all[m] \in ToSet(all)
      BY <2>1 DEF ToSet
    <3> QED
      BY <1>6, <3>1
  <2>3. DOMAIN before = 1..Len(before) /\ DOMAIN after = 1..Len(after)
    BY <1>2, <1>4
  <2>4. CASE all[m] \in ToSet(before)
    <3>1. PICK l \in 1..Len(before) : all[m] = before[l]
      BY <2>3, <2>4 DEF ToSet
    <3> QED
      BY <1>10, <1>14, <3>1
  <2>5. CASE all[m] \in ToSet(after)
    <3>1. PICK l \in 1..Len(after) : all[m] = after[l]
      BY <2>3, <2>5 DEF ToSet
    <3> QED
      BY <1>10, <1>13, <3>1
  <2> QED
    BY <2>2, <2>4, <2>5
<1>18. Distinct(all)
  BY <1>6, <1>12, <1>15, <1>16
<1> QED
  BY <1>1, <1>5, <1>6, <1>7, <1>17, <1>18 DEF Mapped


\* A layout that holds nothing.
LEMMA EnumSized ==
  ASSUME NEW lay, NEW t, lay[t] = EnumLayout
  PROVE  Sized(lay, t)
<1>1. EnumerantPart.size \in Nat \ {0} /\ EnumerantPart.alignment \in AlignmentsIn(program)
  BY BuiltInAssumption DEF AlignmentsIn, Parts
<1>2. /\ lay[t].size = EnumerantPart.size /\ lay[t].alignment = EnumerantPart.alignment
      /\ lay[t].sizeInSubclass = 0 /\ lay[t].base = 0 /\ lay[t].nativeSize = 0
      /\ lay[t].nativeParts = 0 /\ lay[t].propertyOffsets = <<>> /\ lay[t].interfaceOffsets = <<>>
  BY DEF EnumLayout, EmptyLayout
<1> QED
  BY <1>1, <1>2, EmptyIs DEF Sized

\* The layout of a built-in type.
LEMMA HostSized ==
  ASSUME NEW lay, NEW t \in DOMAIN BuiltIn, lay[t] = HostLayout(t)
  PROVE  Sized(lay, t)
<1>1. PICK host : host = BuiltIn[t]
  OBVIOUS
<1>2. /\ host.size \in Nat \ {0} /\ host.sizeInSubclass \in 0..host.size /\ host.base \in Int
      /\ host.alignment \in AlignmentsIn(program)
  BY <1>1, BuiltInAssumption DEF AlignmentsIn
<1>3. /\ lay[t].size = host.size /\ lay[t].alignment = host.alignment
      /\ lay[t].sizeInSubclass = host.sizeInSubclass /\ lay[t].base = host.base
      /\ lay[t].nativeSize = host.sizeInSubclass
      /\ lay[t].nativeParts = 0 /\ lay[t].propertyOffsets = <<>> /\ lay[t].interfaceOffsets = <<>>
  BY <1>1 DEF HostLayout, EmptyLayout
<1> QED
  BY <1>2, <1>3, EmptyIs DEF Sized

\* The layout of a new type has the sizes of one.
LEMMA NewSized ==
  ASSUME NEW t, NewType(t), NEW lay, Grown(lay, t)
  PROVE  Sized(lay, t)
<1>1. CASE IsEnum(t)
  BY <1>1, EnumSized DEF Grown
<1>2. PICK places, parts, n, p, w, layout :
        /\ parts = NewParts(t) /\ places = Places(StartOf(t), parts) /\ n = Len(parts)
        /\ p = ParentClass(t) /\ w = Len(program[t].properties) /\ layout = lay[t]
  OBVIOUS
<1>3. ASSUME ~IsEnum(t)
      PROVE  /\ IsSequence(layout.propertyOffsets) /\ IsSequence(layout.interfaceOffsets)
             /\ Len(layout.propertyOffsets) = w /\ w \in Nat
  BY <1>2, <1>3, AddedAre, NewTypeIs
<1>4. CASE ~IsEnum(t) /\ IsNative(t)
  <2>1. PICK host : host = Native(t)
    OBVIOUS
  <2>2. /\ layout.size = host.size /\ host.size \in Nat \ {0}
        /\ layout.sizeInSubclass = host.sizeInSubclass /\ host.sizeInSubclass \in 0..host.size
        /\ layout.alignment = host.alignment /\ host.alignment \in AlignmentsIn(program)
        /\ layout.base = host.base /\ host.base \in Int
        /\ layout.nativeSize = host.sizeInSubclass
        /\ layout.nativeParts = w
    BY <1>2, <1>4, <2>1, NativeIs
  <2> QED
    BY <1>2, <1>3, <1>4, <2>2 DEF Sized
<1>5. CASE ~IsEnum(t) /\ ~IsNative(t)
  <2>1. GoesOn(lay, t, parts, n, places)
    BY <1>2, <1>5, NewPlaces
  <2>2. layout = LayoutOf(t, places)
    BY <1>2, <1>5 DEF Grown
  <2>3. /\ layout.base = BaseOf(t)
        /\ layout.nativeSize = IF p = Null THEN 0 ELSE laid[p].nativeSize
        /\ layout.nativeParts = IF p = Null THEN 0 ELSE laid[p].nativeParts
    BY <1>2, <1>5, <2>2 DEF LayoutOf
  <2>4. /\ n \in Nat /\ Behind(laid, t) \in Nat
        /\ places[n + 1] \in Nat /\ Behind(laid, t) <= places[n + 1]
        /\ places[n + 1] <= layout.sizeInSubclass
        /\ layout.size \in Nat \ {0} /\ layout.sizeInSubclass \in 0..layout.size
        /\ layout.alignment \in AlignmentsIn(program)
    BY <1>2, <2>1 DEF GoesOn
  <2>5. /\ OffsetsBefore(laid, t) <= w /\ OffsetsBefore(laid, t) \in Nat
    BY <1>2, <1>5, NewTypeIs
  <2>6. p # Null => Sized(laid, p)
    BY <1>2, <1>5, NewTypeIs
  <2>7. layout.base \in Int
    BY <1>2, <1>5, <2>3, <2>6 DEF BaseOf, Sized
  <2>8. /\ layout.nativeSize \in 0..layout.sizeInSubclass
        /\ layout.nativeParts \in 0..w
    <3>1. CASE p = Null
      <4>1. layout.nativeSize = 0 /\ layout.nativeParts = 0
        BY <2>3, <3>1
      <4>2. w \in Nat /\ layout.sizeInSubclass \in Nat
        BY <1>3, <1>5, <2>4
      <4> QED
        BY <4>1, <4>2
    <3>2. CASE p # Null
      <4>1. PICK q : q = laid[p]
        OBVIOUS
      <4>2. /\ q.nativeSize \in 0..q.sizeInSubclass /\ q.sizeInSubclass \in Int
            /\ q.nativeParts \in 0..Len(q.propertyOffsets)
        BY <2>6, <3>2, <4>1 DEF Sized
      <4>3. Behind(laid, t) = q.sizeInSubclass /\ OffsetsBefore(laid, t) = Len(q.propertyOffsets)
        BY <1>2, <3>2, <4>1 DEF Behind, OffsetsBefore
      <4>4. layout.nativeSize = q.nativeSize /\ layout.nativeParts = q.nativeParts
        BY <2>3, <3>2, <4>1
      <4>5. layout.nativeSize \in 0..layout.sizeInSubclass
        BY <2>4, <4>2, <4>3, <4>4
      <4>6. layout.nativeParts \in 0..w
        BY <1>3, <1>5, <2>5, <4>2, <4>3, <4>4
      <4> QED
        BY <4>5, <4>6
    <3> QED
      BY <3>1, <3>2
  <2> QED
    BY <1>2, <1>3, <1>5, <2>4, <2>7, <2>8 DEF Sized
<1> QED
  BY <1>1, <1>4, <1>5

\* The layout of a new type is made as it should.
LEMMA NewMade ==
  ASSUME NEW t, NewType(t), NEW lay, Grown(lay, t)
  PROVE  LaidOut(lay, t)
<1>1. PICK p : p = ParentClass(t)
  OBVIOUS
<1>2. /\ t \in Structured /\ HeaderValid(t) /\ DOMAIN laid \subseteq DOMAIN lay
      /\ ProgramInv /\ Ready(t) /\ ~Orphaned(t)
  BY DEF NewType, Grown
<1>3. NeededBy(t) \subseteq DOMAIN laid
  BY <1>2 DEF Ready, NeededBy
<1>4. CASE IsEnum(t)
  BY <1>2, <1>3, <1>4 DEF LaidOut, Grown
<1>5. CASE ~IsEnum(t)
  <2>1. PICK w, v, b, c, layout :
          /\ w = Len(program[t].properties) /\ v = Len(program[t].interfaces)
          /\ b = OffsetsBefore(laid, t) /\ c = InterfacesBefore(laid, t) /\ layout = lay[t]
    OBVIOUS
  <2>2. Len(layout.propertyOffsets) = w /\ Len(layout.interfaceOffsets) = v
    BY <1>5, <2>1, AddedAre
  <2>3. /\ b <= w /\ c <= v /\ OffsetsBefore(lay, t) = b /\ InterfacesBefore(lay, t) = c
        /\ Behind(lay, t) = Behind(laid, t) /\ (p # Null => lay[p] = laid[p])
    <3>1. b <= w /\ c <= v
      BY <1>5, <2>1, NewTypeIs
    <3> QED
      BY <1>1, <1>3, <2>1, <3>1, Unmoved DEF Grown
  <2>4. layout = LayoutOf(t, Places(StartOf(t), NewParts(t)))
    BY <1>5, <2>1 DEF Grown
  <2>5. ~TypeIsClass(t) => p = Null /\ layout.base = 0
    <3> SUFFICES ASSUME ~TypeIsClass(t)
                 PROVE  p = Null /\ layout.base = 0
      OBVIOUS
    <3>1. p = Null
      BY <1>1, <1>5, NewTypeIs
    <3>2. CASE IsNative(t)
      <4>1. PICK host : host = Native(t)
        OBVIOUS
      <4> QED
        BY <1>5, <2>1, <3>1, <3>2, <4>1, NativeIs
    <3>3. CASE ~IsNative(t)
      BY <1>1, <2>4, <3>1, <3>3 DEF LayoutOf, BaseOf
    <3> QED
      BY <3>1, <3>2, <3>3
  <2>6. IsNative(t) => /\ layout.size = Native(t).size
                       /\ layout.sizeInSubclass = Native(t).sizeInSubclass
                       /\ layout.nativeParts = w
    BY <2>1, <2>4 DEF LayoutOf, SizeOf
  <2>7. ~IsNative(t) => /\ layout.nativeSize = IF p = Null THEN 0 ELSE lay[p].nativeSize
                        /\ layout.nativeParts = IF p = Null THEN 0 ELSE lay[p].nativeParts
    BY <1>1, <2>3, <2>4 DEF LayoutOf
  <2>8. ~IsNative(t) => PartsAligned(lay, t)
    BY <1>5, NewApart
  <2>9. ~IsNative(t) => (p # Null => lay[p].alignment <= layout.alignment)
    <3> SUFFICES ASSUME ~IsNative(t), p # Null
                 PROVE  lay[p].alignment <= layout.alignment
      OBVIOUS
    <3>1. PICK places, parts, n :
            parts = NewParts(t) /\ places = Places(StartOf(t), parts) /\ n = Len(parts)
      OBVIOUS
    <3>2. GoesOn(lay, t, parts, n, places)
      BY <1>5, <3>1, NewPlaces
    <3> QED
      BY <1>1, <2>1, <2>3, <3>2 DEF GoesOn
  <2>10. Regular(t) => Behind(laid, t) <= layout.sizeInSubclass /\ PartsApart(lay, t)
    <3>1. CASE IsNative(t)
      BY <1>5, <2>1, <3>1, NativeApart
    <3>2. CASE ~IsNative(t)
      <4>1. PICK places, parts, n :
              parts = NewParts(t) /\ places = Places(StartOf(t), parts) /\ n = Len(parts)
        OBVIOUS
      <4>2. GoesOn(lay, t, parts, n, places)
        BY <1>5, <3>2, <4>1, NewPlaces
      <4>3. /\ n \in Nat /\ Behind(laid, t) \in Nat
            /\ places[n + 1] \in Nat /\ Behind(laid, t) <= places[n + 1]
            /\ places[n + 1] <= layout.sizeInSubclass /\ layout.sizeInSubclass \in Int
        BY <2>1, <4>2 DEF GoesOn
      <4>4. Behind(laid, t) <= layout.sizeInSubclass
        BY <4>3
      <4> QED
        BY <1>5, <3>2, <4>4, NewApart
    <3> QED
      BY <3>1, <3>2
  <2>11. ASSUME Regular(t), p # Null => Mapped(lay, p)
         PROVE  ReferencesCollected(lay, t) /\ Mapped(lay, t)
    <3>1. p # Null => Mapped(laid, p)
      BY <2>3, <2>11 DEF Mapped
    <3>2. Behind(laid, t) <= lay[t].sizeInSubclass /\ lay[t].sizeInSubclass \in Int
      BY <2>1, <2>10, <2>11, NewSized DEF Sized
    <3> QED
      BY <1>1, <1>5, <2>11, <3>1, <3>2, NewMapped
  <2>12. /\ Len(lay[t].propertyOffsets) = Len(program[t].properties)
         /\ Len(lay[t].interfaceOffsets) = Len(program[t].interfaces)
         /\ OffsetsBefore(lay, t) <= Len(program[t].properties)
         /\ InterfacesBefore(lay, t) <= Len(program[t].interfaces)
    BY <2>1, <2>2, <2>3
  <2>13. /\ ~TypeIsClass(t) => p = Null /\ lay[t].base = 0
         /\ IsNative(t) => /\ lay[t].size = Native(t).size
                           /\ lay[t].sizeInSubclass = Native(t).sizeInSubclass
                           /\ lay[t].nativeParts = Len(program[t].properties)
    BY <2>1, <2>5, <2>6
  <2>14. ~IsNative(t) => /\ PartsAligned(lay, t)
                         /\ lay[t].nativeSize = IF p = Null THEN 0 ELSE lay[p].nativeSize
                         /\ lay[t].nativeParts = IF p = Null THEN 0 ELSE lay[p].nativeParts
                         /\ p # Null => lay[p].alignment <= lay[t].alignment
    BY <2>1, <2>7, <2>8, <2>9
  <2>15. Regular(t) => Behind(lay, t) <= lay[t].sizeInSubclass /\ PartsApart(lay, t)
    BY <2>1, <2>3, <2>10
  <2>16. NeededBy(t) \subseteq DOMAIN lay
    BY <1>2, <1>3
  <2> QED
    BY <1>1, <1>2, <1>5, <2>11, <2>12, <2>13, <2>14, <2>15, <2>16 DEF LaidOut
<1> QED
  BY <1>4, <1>5


\* What is said of one layout stays true when others are added.
LEMMA MadeStays ==
  ASSUME ProgramInv, LayoutInv(laid), NEW u \in DOMAIN laid, LaidOut(laid, u), NEW lay,
         DOMAIN laid \subseteq DOMAIN lay, \A v \in DOMAIN laid : lay[v] = laid[v]
  PROVE  LaidOut(lay, u)
<1>1. PICK p, w, v, b, c :
        /\ p = ParentClass(u) /\ w = Len(program[u].properties) /\ v = Len(program[u].interfaces)
        /\ b = OffsetsBefore(laid, u) /\ c = InterfacesBefore(laid, u)
  OBVIOUS
<1>2. u \in Structured /\ HeaderValid(u) /\ NeededBy(u) \subseteq DOMAIN laid
  BY DEF LaidOut
<1>3. /\ Behind(lay, u) = Behind(laid, u) /\ OffsetsBefore(lay, u) = b
      /\ InterfacesBefore(lay, u) = c /\ ReferencesBefore(lay, u) = ReferencesBefore(laid, u)
      /\ Added(lay, u) = Added(laid, u) /\ (p # Null => lay[p] = laid[p])
      /\ \A i \in DOMAIN program[u].properties :
           /\ SizeIn(lay, program[u].properties[i].type) = SizeIn(laid, program[u].properties[i].type)
           /\ IsStruct(program[u].properties[i].type) =>
                lay[program[u].properties[i].type] = laid[program[u].properties[i].type]
  BY <1>1, <1>2, Unmoved
<1>4. b \in Nat /\ c \in Nat /\ w \in Nat /\ v \in Nat /\ DOMAIN program[u].properties = 1..w
  <2>1. /\ program[u].properties \in Seq(PropertiesOver(program))
        /\ program[u].interfaces \in Seq([type : References(program), vftOffset : Int])
    BY <1>2 DEF ProgramInv, TypesRead, Structured
  <2>2. p # Null => IsSequence(laid[p].propertyOffsets) /\ IsSequence(laid[p].interfaceOffsets)
    BY <1>1, <1>2 DEF NeededBy, LayoutInv, Sized
  <2> QED
    BY <1>1, <2>1, <2>2 DEF OffsetsBefore, InterfacesBefore, IsSequence
<1>5. lay[u] = laid[u]
  OBVIOUS
<1>6. ASSUME NEW k \in Added(laid, u)
      PROVE  At(lay, u, k) = At(laid, u, k) /\ PartAt(lay, u, k) = PartAt(laid, u, k)
  <2>1. At(lay, u, k) = At(laid, u, k)
    BY <1>5 DEF At
  <2>2. k \in Int /\ (k \in b + 1..w \/ -k \in c + 1..v)
    BY <1>1 DEF Added
  <2>3. k < 0 \/ k \in 1..w
    BY <1>4, <2>2
  <2>4. CASE k < 0
    BY <2>1, <2>4 DEF PartAt
  <2>5. CASE ~(k < 0) /\ k \in 1..w
    <3>1. SizeIn(lay, program[u].properties[k].type) = SizeIn(laid, program[u].properties[k].type)
      BY <1>3, <1>4, <2>5
    <3> QED
      BY <2>1, <2>5, <3>1 DEF PartAt
  <2> QED
    BY <2>3, <2>4, <2>5
<1>7. PartsApart(laid, u) => PartsApart(lay, u)
  BY <1>3, <1>5, <1>6 DEF PartsApart
<1>8. PartsAligned(laid, u) => PartsAligned(lay, u)
  BY <1>3, <1>5, <1>6 DEF PartsAligned
<1>9. Mapped(laid, u) => Mapped(lay, u)
  BY <1>5 DEF Mapped
<1>10. p # Null => (Mapped(lay, p) <=> Mapped(laid, p))
  BY <1>3 DEF Mapped
<1>11. ASSUME NEW i \in b + 1..w
       PROVE  Contributed(lay, u, i) = Contributed(laid, u, i)
  <2>1. i \in DOMAIN program[u].properties
    BY <1>4
  <2>2. IsStruct(program[u].properties[i].type) =>
          lay[program[u].properties[i].type] = laid[program[u].properties[i].type]
    BY <1>3, <2>1
  <2> QED
    BY <1>5, <2>2 DEF Contributed
<1>12. ReferencesCollected(laid, u) => ReferencesCollected(lay, u)
  BY <1>1, <1>3, <1>5, <1>11 DEF ReferencesCollected
<1>13. CASE IsEnum(u)
  BY <1>2, <1>5, <1>13 DEF LaidOut
<1>14. CASE ~IsEnum(u)
  <2>1. /\ Len(lay[u].propertyOffsets) = w /\ Len(lay[u].interfaceOffsets) = v
        /\ b <= w /\ c <= v
        /\ ~TypeIsClass(u) => p = Null /\ lay[u].base = 0
        /\ IsNative(u) => /\ lay[u].size = Native(u).size
                          /\ lay[u].sizeInSubclass = Native(u).sizeInSubclass
                          /\ lay[u].nativeParts = w
    BY <1>1, <1>5, <1>14 DEF LaidOut
  <2>2. ~IsNative(u) => /\ PartsAligned(lay, u)
                        /\ lay[u].nativeSize = IF p = Null THEN 0 ELSE lay[p].nativeSize
                        /\ lay[u].nativeParts = IF p = Null THEN 0 ELSE lay[p].nativeParts
                        /\ p # Null => lay[p].alignment <= lay[u].alignment
    BY <1>1, <1>3, <1>5, <1>8, <1>14 DEF LaidOut
  <2>3. Regular(u) => Behind(lay, u) <= lay[u].sizeInSubclass /\ PartsApart(lay, u)
    BY <1>3, <1>5, <1>7, <1>14 DEF LaidOut
  <2>4. Regular(u) /\ (p # Null => Mapped(lay, p)) => ReferencesCollected(lay, u) /\ Mapped(lay, u)
    BY <1>1, <1>9, <1>10, <1>12, <1>14 DEF LaidOut
  <2>5. NeededBy(u) \subseteq DOMAIN lay
    BY <1>2
  <2> QED
    BY <1>1, <1>2, <1>3, <1>14, <2>1, <2>2, <2>3, <2>4, <2>5 DEF LaidOut
<1> QED
  BY <1>13, <1>14

\* The layouts with that of a new type are as they should be.
LEMMA GrownKeeps ==
  ASSUME NEW t, NewType(t), NEW lay, Grown(lay, t)
  PROVE  LayoutInv(lay)
<1>1. /\ ProgramInv /\ LayoutInv(laid) /\ t \in Structured \ DOMAIN laid
      /\ DOMAIN lay = DOMAIN laid \cup {t} /\ \A u \in DOMAIN laid : lay[u] = laid[u]
  BY DEF NewType, Grown
<1>2. \A u \in DOMAIN lay : Sized(lay, u)
  <2>1. \A u \in DOMAIN laid : Sized(lay, u)
    BY <1>1 DEF LayoutInv, Sized
  <2> QED
    BY <1>1, <2>1, NewSized
<1>3. \A u \in DOMAIN lay \ DOMAIN BuiltIn : LaidOut(lay, u)
  <2>1. \A u \in DOMAIN laid \ DOMAIN BuiltIn : LaidOut(laid, u)
    BY <1>1 DEF LayoutInv
  <2>2. DOMAIN laid \subseteq DOMAIN lay
    BY <1>1
  <2>3. \A u \in DOMAIN laid \ DOMAIN BuiltIn : LaidOut(lay, u)
    BY <1>1, <2>1, <2>2, MadeStays
  <2> QED
    BY <1>1, <2>3, NewMade
<1>4. Numbered(lay)
  <2>1. PICK rank, n : Numbers(laid, rank, n)
    BY <1>1 DEF LayoutInv, Numbered
  <2>2. /\ rank \in [DOMAIN laid -> Nat] /\ n \in Nat
        /\ \A u \in DOMAIN laid :
             rank[u] < n /\ \A v \in NeededBy(u) : v \in DOMAIN laid /\ rank[v] < rank[u]
    BY <2>1 DEF Numbers
  <2>3. PICK rank1 : rank1 = [u \in DOMAIN laid \cup {t} |-> IF u = t THEN n ELSE rank[u]]
    OBVIOUS
  <2>4. NeededBy(t) \subseteq DOMAIN laid
    <3>1. Ready(t) /\ ~Orphaned(t)
      BY DEF NewType
    <3> QED
      BY <3>1 DEF Ready, NeededBy
  <2>5. /\ rank1 \in [DOMAIN lay -> Nat] /\ rank1[t] = n /\ \A u \in DOMAIN laid : rank1[u] = rank[u]
    BY <1>1, <2>2, <2>3
  <2>6. ASSUME NEW u \in DOMAIN lay
        PROVE  rank1[u] < n + 1 /\ \A v \in NeededBy(u) : v \in DOMAIN lay /\ rank1[v] < rank1[u]
    <3>1. CASE u = t
      BY <1>1, <2>2, <2>4, <2>5, <3>1
    <3>2. CASE u \in DOMAIN laid
      BY <1>1, <2>2, <2>5, <3>2
    <3> QED
      BY <1>1, <3>1, <3>2
  <2>7. Numbers(lay, rank1, n + 1)
    BY <2>2, <2>5, <2>6 DEF Numbers
  <2> QED
    BY <2>7 DEF Numbered
<1> QED
  BY <1>2, <1>3, <1>4 DEF LayoutInv

\* The layouts of the built-in types are as they should be.
LEMMA InitSatisfiesLayout ==
  ASSUME Init
  PROVE  LayoutInv(laid)
<1>1. ProgramInv /\ laid = [t \in DOMAIN BuiltIn |-> HostLayout(t)]
  BY InitSatisfies DEF IInv, Init
<1>2. \A t \in DOMAIN laid : Sized(laid, t)
  BY <1>1, HostSized
<1>3. DOMAIN laid \ DOMAIN BuiltIn = {}
  BY <1>1
<1>4. PICK rank : rank = [t \in DOMAIN BuiltIn |->
                            IF t = Object \/ ParentClass(t) = Null THEN 0
                            ELSE IF ParentClass(t) = Object THEN 1 ELSE 2]
  OBVIOUS
<1>5. ASSUME NEW t \in DOMAIN BuiltIn
      PROVE  rank[t] < 3 /\ \A u \in NeededBy(t) : u \in DOMAIN laid /\ rank[u] < rank[t]
  <2>1. StructsIn(t) = {}
    <3>1. program[t].properties = <<>>
      BY <1>1 DEF ProgramInv, BuiltInsFound
    <3> QED
      BY <3>1 DEF StructsIn
  <2>2. rank[t] \in 0..2
    BY <1>4
  <2>3. ASSUME NEW p, p = ParentClass(t), p # Null
        PROVE  p \in DOMAIN laid /\ rank[p] < rank[t]
    <3>1. /\ Object \in DOMAIN BuiltIn /\ TypeIsClass(Object) /\ program[Object].parent = Null
      BY <1>1, BuiltInAssumption
         DEF ProgramInv, BuiltInsFound, TypeIsClass, Stored, IsStructured, StructuredIn, Types
    <3>2. ParentClass(Object) = Null
      BY <3>1 DEF ParentClass, Parent
    <3>3. t # Object
      BY <2>3, <3>2
    <3>4. CASE p = Object
      <4>1. Object # Null
        BY DEF Object, Null
      <4>2. rank[Object] = 0
        BY <1>4, <3>1
      <4>3. rank[t] = 1
        BY <1>4, <1>5, <2>3, <3>3, <3>4, <4>1
      <4> QED
        BY <1>1, <3>1, <3>4, <4>2, <4>3
    <3>5. CASE p # Object
      <4>1. p = program[t].parent
        BY <2>3, <3>5 DEF ParentClass, Parent
      <4>2. p \in DOMAIN BuiltIn /\ program[p].parent = Object
        BY <1>1, <2>3, <3>5, <4>1 DEF ProgramInv, BuiltInsFound
      <4>3. ParentClass(p) = Object /\ Object # Null
        BY <4>2 DEF ParentClass, Parent, Object, Null
      <4>4. rank[p] = 1 /\ rank[t] = 2
        BY <1>4, <2>3, <3>3, <3>5, <4>2, <4>3
      <4> QED
        BY <1>1, <4>2, <4>4
    <3> QED
      BY <3>4, <3>5
  <2> QED
    BY <2>1, <2>2, <2>3 DEF NeededBy
<1>6. Numbers(laid, rank, 3)
  BY <1>1, <1>4, <1>5 DEF Numbers
<1> QED
  BY <1>2, <1>3, <1>6 DEF LayoutInv, Numbered

\* What is said of the layouts does not depend on anything else that changes.
LEMMA KindsStay ==
  ASSUME UNCHANGED program
  PROVE  \A t : /\ IsEnum(t)' <=> IsEnum(t)
                /\ IsStruct(t)' <=> IsStruct(t)
                /\ TypeIsInterface(t)' <=> TypeIsInterface(t)
                /\ TypeIsClass(t)' <=> TypeIsClass(t)
                /\ ParentClass(t)' = ParentClass(t)
                /\ IsNative(t)' <=> IsNative(t)
                /\ Native(t)' = Native(t)
                /\ Regular(t)' <=> Regular(t)
                /\ HeaderValid(t)' <=> HeaderValid(t)
                /\ NeededBy(t)' = NeededBy(t)
<1>1. \A t : /\ IsEnum(t)' <=> IsEnum(t)
             /\ IsStruct(t)' <=> IsStruct(t)
             /\ TypeIsInterface(t)' <=> TypeIsInterface(t)
  BY DEF IsEnum, IsStruct, TypeIsInterface, Stored, IsStructured, Types
<1>2. \A t : /\ Regular(t)' <=> Regular(t)
             /\ HeaderValid(t)' <=> HeaderValid(t)
  BY <1>1, TypesStay DEF Regular, HeaderValid
<1>3. \A t : StructsIn(t)' = StructsIn(t)
  BY <1>1 DEF StructsIn
<1>4. \A t : NeededBy(t)' = NeededBy(t)
  BY <1>3, TypesStay DEF NeededBy
<1> QED
  BY <1>1, <1>2, <1>4, TypesStay

LEMMA LayoutInvStays ==
  ASSUME UNCHANGED program, NEW lay, lay = laid', LayoutInv(lay)
  PROVE  LayoutInv(laid)'
<1>1. \A t : Sized(laid, t)' <=> Sized(lay, t)
  BY DEF Sized
<1>2. \A t : /\ Behind(laid, t)' = Behind(lay, t)
             /\ OffsetsBefore(laid, t)' = OffsetsBefore(lay, t)
             /\ InterfacesBefore(laid, t)' = InterfacesBefore(lay, t)
             /\ ReferencesBefore(laid, t)' = ReferencesBefore(lay, t)
  BY TypesStay DEF Behind, OffsetsBefore, InterfacesBefore, ReferencesBefore
<1>3. \A t : Added(laid, t)' = Added(lay, t)
  BY <1>2 DEF Added
<1>4. \A t, k : At(laid, t, k)' = At(lay, t, k)
  BY DEF At
<1>5. \A t : SizeIn(laid, t)' = SizeIn(lay, t)
  BY KindsStay DEF SizeIn
<1>6. \A t, k : PartAt(laid, t, k)' = PartAt(lay, t, k)
  BY <1>5 DEF PartAt
<1>7. \A t : PartsApart(laid, t)' <=> PartsApart(lay, t)
  BY <1>2, <1>3, <1>4, <1>6 DEF PartsApart
<1>8. \A t : PartsAligned(laid, t)' <=> PartsAligned(lay, t)
  BY <1>3, <1>4, <1>6 DEF PartsAligned
<1>9. \A t, i : Contributed(laid, t, i)' = Contributed(lay, t, i)
  <2>1. \A p, at : ContainedReference(p, at)' = ContainedReference(p, at)
    BY DEF ContainedReference, TypeIsInterface, Stored, IsStructured, Types
  <2> QED
    BY <2>1, KindsStay DEF Contributed
<1>10. \A t : ReferencesCollected(laid, t)' <=> ReferencesCollected(lay, t)
  BY <1>2, <1>9 DEF ReferencesCollected
<1>11. \A t : Mapped(laid, t)' <=> Mapped(lay, t)
  BY DEF Mapped, ReferencesRead, Named
<1>12. \A t : LaidOut(laid, t)' <=> LaidOut(lay, t)
  BY <1>2, <1>7, <1>8, <1>10, <1>11, KindsStay DEF LaidOut, Structured
<1>13. Numbered(laid)' <=> Numbered(lay)
  BY KindsStay DEF Numbered, Numbers
<1> QED
  BY <1>1, <1>12, <1>13 DEF LayoutInv

\* A step that lays out a type.
LEMMA ResolveStructureGrows ==
  ASSUME IInv, LayoutInv(laid), ResolveStructure
  PROVE  LayoutInv(laid)'
<1>1. PICK t, lay : t = Current /\ lay = laid'
  OBVIOUS
<1>2. /\ program' = program /\ t \notin DOMAIN laid /\ HeaderValid(t) /\ Ready(t) /\ ~Orphaned(t)
      /\ IsEnum(t) \/ Resolvable(t)
      /\ lay = [u \in DOMAIN laid \cup {t} |->
                  IF u = t THEN (IF IsEnum(t) THEN EnumLayout
                                 ELSE LayoutOf(t, Places(StartOf(t), NewParts(t)))) ELSE laid[u]]
  BY <1>1 DEF ResolveStructure, AtType
<1>3. t \in Structured
  <2>1. order \in Seq(Structured) /\ cursor \in 1..Len(order)
    BY DEF IInv, ProgramInv, LoopInv, ResolveStructure, AtType
  <2> QED
    BY <1>1, <2>1 DEF Current
<1>4. NewType(t)
  BY <1>2, <1>3 DEF NewType, IInv
<1>5. Grown(lay, t)
  BY <1>2 DEF Grown
<1>6. LayoutInv(lay)
  BY <1>4, <1>5, GrownKeeps
<1> QED
  BY <1>1, <1>2, <1>6, LayoutInvStays

\* No other step changes a layout.
LEMMA NextKeepsLayouts ==
  ASSUME IInv, LayoutInv(laid), [Next]_vars
  PROVE  LayoutInv(laid)'
<1>1. CASE ResolveStructure
  BY <1>1, ResolveStructureGrows
<1>2. CASE UNCHANGED <<program, laid>>
  <2>1. PICK lay : lay = laid'
    OBVIOUS
  <2>2. LayoutInv(lay)
    BY <1>2, <2>1
  <2> QED
    BY <1>2, <2>1, <2>2, LayoutInvStays
<1> QED
  BY <1>1, <1>2 DEF Next, vars, DeferStructure, PassOver, ResolveFails, ReadsNull, FinishRound,
                    ValidateStructures

\* The layouts that the types of a load are given, whatever the program, the
\* order of its types and the host: each goes on behind what it is laid out
\* after, its parts apart and aligned, with a map that names each reference in
\* it once (ResolveStructure).
THEOREM LayoutsMade == Spec => []LayoutInv(laid)
<1>1. Init => LayoutInv(laid)
  BY InitSatisfiesLayout
<1>2. IInv /\ LayoutInv(laid) /\ [Next]_vars => LayoutInv(laid)'
  BY NextKeepsLayouts
<1> QED
  BY <1>1, <1>2, Invariance, PTL DEF Spec


-----------------------------------------------------------------------------
(* The layouts of a load that succeeded.                                   *)
LayoutsLoaded == Loaded /\ LayoutInv(laid)

\* Every structured type is laid out.
LEMMA StructuredLaid ==
  ASSUME LayoutsLoaded, NEW t \in Structured
  PROVE  /\ t \in DOMAIN laid /\ Sized(laid, t)
         /\ t \notin DOMAIN BuiltIn => LaidOut(laid, t)
         /\ t \in DOMAIN BuiltIn => /\ laid[t] = HostLayout(t) /\ program[t].properties = <<>>
                                    /\ program[t].interfaces = <<>>
         /\ t \in Classes <=> TypeIsClass(t)
         /\ program[t].properties \in Seq(PropertiesOver(program))
         /\ program[t].interfaces \in Seq([type : References(program), vftOffset : Int])
<1>1. t \in DOMAIN laid
  BY DEF LayoutsLoaded, Loaded, IInv, ProgramInv, LaidInv, LoopInv, AllLaid
<1>2. t \in Classes <=> TypeIsClass(t)
  BY DEF Classes, Types, Structured, StructuredIn
<1>3. /\ program[t].properties \in Seq(PropertiesOver(program))
      /\ program[t].interfaces \in Seq([type : References(program), vftOffset : Int])
  BY DEF LayoutsLoaded, Loaded, IInv, ProgramInv, TypesRead, Structured
<1>4. t \in DOMAIN BuiltIn => /\ laid[t] = HostLayout(t) /\ program[t].properties = <<>>
                              /\ program[t].interfaces = <<>>
  BY DEF LayoutsLoaded, Loaded, IInv, LaidInv, ProgramInv, BuiltInsFound
<1> QED
  BY <1>1, <1>2, <1>3, <1>4 DEF LayoutsLoaded, LayoutInv

(* The places of what a value has besides what the host declares, numbered  *)
(* as in Added.                                                            *)
Keys(t) ==
  {k \in Int : \/ k \in laid[t].nativeParts + 1..Len(laid[t].propertyOffsets)
               \/ -k \in 1..Len(laid[t].interfaceOffsets)}

KeyFits(t, k) ==
  /\ At(laid, t, k) \in Nat /\ PartAt(laid, t, k).size \in Nat \ {0}
  /\ laid[t].nativeSize <= At(laid, t, k)
  /\ At(laid, t, k) + PartAt(laid, t, k).size <= laid[t].sizeInSubclass
  /\ PartAt(laid, t, k).alignment \in AlignmentsIn(program)
  /\ PartAt(laid, t, k).alignment <= laid[t].alignment
  /\ At(laid, t, k) % PartAt(laid, t, k).alignment = 0

KeysApart(t, k, l) ==
  \/ At(laid, t, k) + PartAt(laid, t, k).size <= At(laid, t, l)
  \/ At(laid, t, l) + PartAt(laid, t, l).size <= At(laid, t, k)

Fits(t) == \A k \in Keys(t) : KeyFits(t, k) /\ \A l \in Keys(t) \ {k} : KeysApart(t, k, l)

\* Nothing that the host declares is a part that the package adds.
LEMMA HostKeys ==
  ASSUME LayoutsLoaded, NEW t \in Structured, t \in DOMAIN BuiltIn \/ IsEnum(t) \/ IsNative(t)
  PROVE  Keys(t) = {}
<1>1. CASE t \in DOMAIN BuiltIn
  <2>1. laid[t].propertyOffsets = <<>> /\ laid[t].interfaceOffsets = <<>> /\ laid[t].nativeParts = 0
    BY <1>1, StructuredLaid DEF HostLayout, EmptyLayout
  <2> QED
    BY <2>1, EmptyIs DEF Keys
<1>2. CASE t \notin DOMAIN BuiltIn /\ IsEnum(t)
  <2>1. laid[t].propertyOffsets = <<>> /\ laid[t].interfaceOffsets = <<>> /\ laid[t].nativeParts = 0
    BY <1>2, StructuredLaid DEF LaidOut, EnumLayout, EmptyLayout
  <2> QED
    BY <2>1, EmptyIs DEF Keys
<1>3. CASE t \notin DOMAIN BuiltIn /\ ~IsEnum(t) /\ IsNative(t)
  <2>1. PICK w : w = Len(program[t].properties)
    OBVIOUS
  <2>2. /\ Len(laid[t].propertyOffsets) = w /\ laid[t].nativeParts = w /\ w \in Nat
        /\ Len(laid[t].interfaceOffsets) = Len(program[t].interfaces)
    BY <1>3, <2>1, StructuredLaid DEF LaidOut
  <2>3. program[t].interfaces = <<>>
    BY <1>3 DEF LayoutsLoaded, Loaded, IInv, ProgramInv, NativesPlaced, IsNative, Structured
  <2>4. Len(laid[t].interfaceOffsets) = 0
    BY <2>2, <2>3, EmptyIs
  <2> QED
    BY <2>2, <2>4 DEF Keys
<1> QED
  BY <1>1, <1>2, <1>3

\* Of a type that the package declares, those that it adds fit.
LEMMA AddedFit ==
  ASSUME LayoutsLoaded, NEW t \in Structured, t \notin DOMAIN BuiltIn, ~IsEnum(t), ~IsNative(t),
         NEW p, p = ParentClass(t), p # Null => p \in Classes
  PROVE  /\ Behind(laid, t) \in Nat /\ laid[t].nativeSize <= Behind(laid, t)
         /\ Behind(laid, t) <= laid[t].sizeInSubclass
         /\ \A k \in Added(laid, t) : /\ KeyFits(t, k) /\ Behind(laid, t) <= At(laid, t, k)
                                      /\ \A l \in Added(laid, t) \ {k} : KeysApart(t, k, l)
<1>1. Regular(t) /\ LaidOut(laid, t) /\ Sized(laid, t)
  BY StructuredLaid DEF Regular
<1>2. PartsApart(laid, t) /\ PartsAligned(laid, t) /\ Behind(laid, t) <= laid[t].sizeInSubclass
  BY <1>1 DEF LaidOut
<1>3. Behind(laid, t) \in Nat /\ laid[t].nativeSize \in Nat /\ laid[t].nativeSize <= Behind(laid, t)
  <2>1. CASE p = Null
    BY <1>1, <2>1 DEF LaidOut, Behind
  <2>2. CASE p # Null
    <3>1. Sized(laid, p)
      BY <2>2, ClassFacts, StructuredLaid DEF LayoutsLoaded
    <3>2. PICK q : q = laid[p]
      OBVIOUS
    <3>3. q.sizeInSubclass \in 0..q.size /\ q.size \in Nat /\ q.nativeSize \in 0..q.sizeInSubclass
      BY <3>1, <3>2 DEF Sized
    <3>4. Behind(laid, t) = q.sizeInSubclass /\ laid[t].nativeSize = q.nativeSize
      BY <1>1, <2>2, <3>2 DEF LaidOut, Behind
    <3> QED
      BY <3>3, <3>4
  <2> QED
    BY <2>1, <2>2
<1>4. ASSUME NEW k \in Added(laid, t)
      PROVE  KeyFits(t, k) /\ Behind(laid, t) <= At(laid, t, k)
  <2>1. /\ At(laid, t, k) \in Nat /\ PartAt(laid, t, k).size \in Nat \ {0}
        /\ Behind(laid, t) <= At(laid, t, k)
        /\ At(laid, t, k) + PartAt(laid, t, k).size <= laid[t].sizeInSubclass
    BY <1>2 DEF PartsApart
  <2>2. laid[t].nativeSize <= At(laid, t, k)
    <3>1. PICK x, y, z : x = laid[t].nativeSize /\ y = Behind(laid, t) /\ z = At(laid, t, k)
      OBVIOUS
    <3> QED
      BY <1>3, <2>1, <3>1
  <2> QED
    BY <1>2, <2>1, <2>2 DEF PartsAligned, KeyFits
<1>5. \A k \in Added(laid, t) : \A l \in Added(laid, t) \ {k} : KeysApart(t, k, l)
  BY <1>2 DEF PartsApart, KeysApart
<1> QED
  BY <1>2, <1>3, <1>4, <1>5

\* What a class has inherited is where its parent has it.
LEMMA InheritedKeys ==
  ASSUME LayoutsLoaded, NEW t \in Classes, t \notin DOMAIN BuiltIn, ~IsNative(t),
         NEW p, p = ParentClass(t), p # Null, Fits(p)
  PROVE  /\ Keys(t) = Keys(p) \cup Added(laid, t)
         /\ \A k \in Keys(p) : /\ KeyFits(t, k) /\ At(laid, t, k) = At(laid, p, k)
                               /\ PartAt(laid, t, k) = PartAt(laid, p, k)
                               /\ At(laid, t, k) + PartAt(laid, t, k).size <= Behind(laid, t)
<1>1. /\ p \in Classes /\ p \in Structured /\ t \in Structured /\ Loaded
      /\ laid[p].nativeSize \in Int
  <2>1. p \in Classes /\ p \in Structured /\ t \in Structured /\ Loaded
    BY ClassFacts DEF LayoutsLoaded
  <2>2. laid[p].nativeSize \in 0..laid[p].sizeInSubclass
    BY <2>1, StructuredLaid DEF Sized
  <2> QED
    BY <2>1, <2>2
<1>2. Resembles(t, p)
  BY <1>1, ResemblesParent
<1>3. /\ LaidOut(laid, t) /\ Sized(laid, t) /\ Sized(laid, p) /\ ~IsEnum(t)
  BY <1>1, StructuredLaid DEF TypeIsClass, IsEnum, Stored, Classes
<1>4. PICK w, v, b, c, m :
        /\ w = Len(laid[t].propertyOffsets) /\ v = Len(laid[t].interfaceOffsets)
        /\ b = Len(laid[p].propertyOffsets) /\ c = Len(laid[p].interfaceOffsets)
        /\ m = laid[t].nativeParts
  OBVIOUS
<1>5. /\ w = Len(program[t].properties) /\ v = Len(program[t].interfaces)
      /\ b = Len(program[p].properties) /\ c = Len(program[p].interfaces)
      /\ b = OffsetsBefore(laid, t) /\ c = InterfacesBefore(laid, t)
      /\ m = laid[p].nativeParts
      /\ laid[t].nativeSize = laid[p].nativeSize
  BY <1>1, <1>3, <1>4, ListsAre DEF LaidOut, OffsetsBefore, InterfacesBefore
<1>6. /\ b \in Nat /\ c \in Nat /\ w \in Nat /\ v \in Nat /\ b <= w /\ c <= v
      /\ \A i \in 1..b : /\ laid[t].propertyOffsets[i] = laid[p].propertyOffsets[i]
                         /\ program[t].properties[i] = program[p].properties[i]
      /\ \A i \in 1..c : laid[t].interfaceOffsets[i] = laid[p].interfaceOffsets[i]
      /\ laid[p].base = laid[t].base
  <2>1. \A x : IsSequence(x) => Len(x) \in Nat
    BY DEF IsSequence
  <2>2. PICK o, q, ip, iq, pp, pq :
          /\ o = laid[t].propertyOffsets /\ q = laid[p].propertyOffsets
          /\ ip = laid[t].interfaceOffsets /\ iq = laid[p].interfaceOffsets
          /\ pp = program[t].properties /\ pq = program[p].properties
    OBVIOUS
  <2>3. Continues(q, o) /\ Continues(iq, ip) /\ Continues(pq, pp) /\ laid[p].base = laid[t].base
    BY <1>2, <2>2 DEF Resembles
  <2>4. w = Len(o) /\ v = Len(ip) /\ b = Len(q) /\ c = Len(iq) /\ b = Len(pq)
    BY <1>4, <1>5, <2>2
  <2>5. /\ b \in Nat /\ c \in Nat /\ w \in Nat /\ v \in Nat /\ b <= w /\ c <= v
    BY <2>1, <2>3, <2>4 DEF Continues
  <2>6. /\ \A i \in 1..b : o[i] = q[i] /\ pp[i] = pq[i]
        /\ \A i \in 1..c : ip[i] = iq[i]
    BY <2>3, <2>4 DEF Continues
  <2> QED
    BY <2>2, <2>3, <2>5, <2>6
<1>7. m \in 0..b
  BY <1>3, <1>4, <1>5 DEF Sized
<1>8. /\ Keys(t) = {k \in Int : k \in m + 1..w \/ -k \in 1..v}
      /\ Keys(p) = {k \in Int : k \in m + 1..b \/ -k \in 1..c}
      /\ Added(laid, t) = {k \in Int : k \in b + 1..w \/ -k \in c + 1..v}
  BY <1>4, <1>5 DEF Keys, Added
<1>9. Keys(t) = Keys(p) \cup Added(laid, t)
  <2>1. m + 1..w = (m + 1..b) \cup (b + 1..w)
    BY <1>6, <1>7
  <2>2. 1..v = (1..c) \cup (c + 1..v)
    BY <1>6
  <2>3. \A k \in Int : k \in m + 1..w <=> k \in m + 1..b \/ k \in b + 1..w
    BY ONLY <2>1
  <2>4. \A k \in Int : -k \in 1..v <=> -k \in 1..c \/ -k \in c + 1..v
    BY ONLY <2>2
  <2> QED
    BY <1>8, <2>3, <2>4
<1>10. ASSUME NEW k \in Keys(p)
       PROVE  /\ At(laid, t, k) = At(laid, p, k) /\ PartAt(laid, t, k) = PartAt(laid, p, k)
  <2>1. k \in Int /\ (k < 0 => -k \in 1..c) /\ (~(k < 0) => k \in 1..b)
    BY <1>6, <1>7, <1>8
  <2>2. CASE k < 0
    BY <1>6, <2>1, <2>2 DEF At, PartAt
  <2>3. CASE ~(k < 0)
    BY <1>6, <2>1, <2>3 DEF At, PartAt
  <2> QED
    BY <2>2, <2>3
<1>11. ASSUME NEW k \in Keys(p)
       PROVE  /\ KeyFits(t, k) /\ At(laid, t, k) + PartAt(laid, t, k).size <= Behind(laid, t)
  <2>1. PICK a, s, al : /\ a = At(laid, p, k) /\ s = PartAt(laid, p, k).size
                        /\ al = PartAt(laid, p, k).alignment
    OBVIOUS
  <2>2. /\ a \in Nat /\ s \in Nat \ {0} /\ laid[p].nativeSize <= a
        /\ a + s <= laid[p].sizeInSubclass /\ al \in AlignmentsIn(program)
        /\ al <= laid[p].alignment /\ a % al = 0
    BY <1>11, <2>1 DEF Fits, KeyFits
  <2>3. Behind(laid, t) = laid[p].sizeInSubclass
    BY DEF Behind
  <2>4. a + s <= laid[t].sizeInSubclass
    <3>1. Behind(laid, t) \in Nat /\ Behind(laid, t) <= laid[t].sizeInSubclass
      BY <1>1, <1>3, AddedFit
    <3>2. laid[t].sizeInSubclass \in Int
      BY <1>3 DEF Sized
    <3>3. PICK x, y : x = Behind(laid, t) /\ y = laid[t].sizeInSubclass
      OBVIOUS
    <3> QED
      BY <2>2, <2>3, <3>1, <3>2, <3>3
  <2>5. al <= laid[t].alignment
    <3>1. laid[p].alignment <= laid[t].alignment
      BY <1>3 DEF LaidOut
    <3>2. /\ al \in Nat /\ laid[p].alignment \in Nat /\ laid[t].alignment \in Nat
      BY <1>1, <1>3, <2>2 DEF Sized, Loaded, IInv, ProgramInv, AlignmentsNested
    <3>3. PICK x, y : x = laid[p].alignment /\ y = laid[t].alignment
      OBVIOUS
    <3> QED
      BY <2>2, <3>1, <3>2, <3>3
  <2> QED
    BY <1>5, <1>10, <2>1, <2>2, <2>3, <2>4, <2>5 DEF KeyFits
<1> QED
  BY <1>9, <1>10, <1>11

\* The parts of every type fit.
LEMMA AllFit ==
  ASSUME LayoutsLoaded, NEW t \in Structured
  PROVE  Fits(t)
<1> DEFINE S == {c \in Classes : Fits(c)}
<1>1. ASSUME NEW c \in Structured, NEW p, p = ParentClass(c), p # Null => p \in S,
             c \notin Classes => p = Null \/ IsEnum(c) \/ c \in DOMAIN BuiltIn
      PROVE  Fits(c)
  <2>1. CASE c \in DOMAIN BuiltIn \/ IsEnum(c) \/ IsNative(c)
    BY <2>1, HostKeys DEF Fits
  <2>2. CASE ~(c \in DOMAIN BuiltIn \/ IsEnum(c) \/ IsNative(c))
    <3>1. /\ Behind(laid, c) \in Nat
          /\ \A k \in Added(laid, c) : /\ KeyFits(c, k) /\ Behind(laid, c) <= At(laid, c, k)
                                       /\ \A l \in Added(laid, c) \ {k} : KeysApart(c, k, l)
      BY <1>1, <2>2, AddedFit
    <3>2. CASE p = Null
      <4>1. Keys(c) = Added(laid, c)
        <5>1. /\ laid[c].nativeParts = 0 /\ OffsetsBefore(laid, c) = 0 /\ InterfacesBefore(laid, c) = 0
              /\ Len(laid[c].propertyOffsets) = Len(program[c].properties)
              /\ Len(laid[c].interfaceOffsets) = Len(program[c].interfaces)
          BY <1>1, <2>2, <3>2, StructuredLaid DEF LaidOut, OffsetsBefore, InterfacesBefore
        <5>2. PICK w, v : w = Len(program[c].properties) /\ v = Len(program[c].interfaces)
          OBVIOUS
        <5>3. /\ Keys(c) = {k \in Int : k \in 0 + 1..w \/ -k \in 1..v}
              /\ Added(laid, c) = {k \in Int : k \in 0 + 1..w \/ -k \in 0 + 1..v}
          BY <5>1, <5>2 DEF Keys, Added
        <5> QED
          BY <5>3
      <4> QED
        BY <3>1, <4>1 DEF Fits
    <3>3. CASE p # Null
      <4>1. c \in Classes /\ Fits(p)
        BY <1>1, <2>2, <3>3
      <4>2. /\ Keys(c) = Keys(p) \cup Added(laid, c)
            /\ \A k \in Keys(p) : /\ KeyFits(c, k) /\ At(laid, c, k) = At(laid, p, k)
                                  /\ PartAt(laid, c, k) = PartAt(laid, p, k)
                                  /\ At(laid, c, k) + PartAt(laid, c, k).size <= Behind(laid, c)
        BY <1>1, <2>2, <3>3, <4>1, InheritedKeys
      <4>3. \A k \in Keys(c) : KeyFits(c, k)
        BY <3>1, <4>2
      <4>4. \A k \in Keys(p) : \A l \in Keys(p) \ {k} : KeysApart(c, k, l)
        BY <4>1, <4>2 DEF Fits, KeysApart
      <4>5. ASSUME NEW k \in Keys(p), NEW l \in Added(laid, c)
            PROVE  KeysApart(c, k, l) /\ KeysApart(c, l, k)
        <5>1. PICK x, s, y, z : /\ x = At(laid, c, k) /\ s = PartAt(laid, c, k).size
                                /\ y = Behind(laid, c) /\ z = At(laid, c, l)
          OBVIOUS
        <5>2. x \in Nat /\ s \in Nat /\ y \in Nat /\ z \in Nat /\ x + s <= y /\ y <= z
          BY <3>1, <4>2, <4>5, <5>1 DEF KeyFits
        <5>3. x + s <= z
          BY ONLY <5>2
        <5> QED
          BY <5>1, <5>3 DEF KeysApart
      <4> QED
        BY <3>1, <4>2, <4>3, <4>4, <4>5 DEF Fits
    <3> QED
      BY <3>2, <3>3
  <2> QED
    BY <2>1, <2>2
<1>2. \A c \in Classes : c \in S
  <2>1. ASSUME NEW c \in Classes, ParentClass(c) # Null => ParentClass(c) \in S
        PROVE  c \in S
    <3>1. c \in Structured
      BY ClassFacts DEF LayoutsLoaded
    <3> QED
      BY <1>1, <2>1, <3>1
  <2> HIDE DEF S
  <2> QED
    BY <2>1, ClassInduction DEF LayoutsLoaded
<1>3. CASE t \in Classes
  BY <1>2, <1>3
<1>4. CASE t \notin Classes
  <2>1. ParentClass(t) = Null \/ IsEnum(t) \/ t \in DOMAIN BuiltIn
    BY <1>4, StructuredLaid DEF LaidOut
  <2>2. CASE t \in DOMAIN BuiltIn \/ IsEnum(t)
    BY <2>2, HostKeys DEF Fits
  <2> QED
    BY <1>1, <1>4, <2>1, <2>2
<1> QED
  BY <1>3, <1>4


(* A part, as PartsOf has it.                                              *)
PartOf(t, k) ==
  [at |-> At(laid, t, k), size |-> PartAt(laid, t, k).size, alignment |-> PartAt(laid, t, k).alignment]

\* The parts are those at the places.
LEMMA PartsAre ==
  ASSUME NEW t, NEW w, w = Len(laid[t].propertyOffsets), w \in Nat,
         NEW v, v = Len(laid[t].interfaceOffsets), v \in Nat, DOMAIN laid[t].interfaceOffsets = 1..v,
         NEW m, m = laid[t].nativeParts, m \in 0..w
  PROVE  PartsOf(t) = {PartOf(t, k) : k \in Keys(t)}
<1>1. Keys(t) = {k \in Int : k \in m + 1..w \/ -k \in 1..v}
  BY DEF Keys
<1>2. \A u : TypeValueSize(u) = SizeIn(laid, u)
  BY DEF TypeValueSize, SizeIn
<1>3. ASSUME NEW i \in 1..v
      PROVE  /\ -i \in Keys(t)
             /\ PartOf(t, -i) = [at |-> laid[t].interfaceOffsets[i], size |-> ImplementedPart.size,
                                 alignment |-> ImplementedPart.alignment]
  <2>1. -i \in Int /\ -i < 0 /\ -(-i) = i
    OBVIOUS
  <2> QED
    BY <1>1, <2>1 DEF PartOf, At, PartAt
<1>4. ASSUME NEW i \in m + 1..w
      PROVE  /\ i \in Keys(t)
             /\ PartOf(t, i) = [at |-> laid[t].propertyOffsets[i] + laid[t].base,
                                size |-> TypeValueSize(program[t].properties[i].type).size,
                                alignment |-> TypeValueSize(program[t].properties[i].type).alignment]
  <2>1. i \in Int /\ ~(i < 0)
    OBVIOUS
  <2> QED
    BY <1>1, <1>2, <2>1 DEF PartOf, At, PartAt
<1>5. \A k \in Keys(t) : k \in m + 1..w \/ \E i \in 1..v : k = -i
  BY <1>1
<1> DEFINE I == {[at |-> laid[t].interfaceOffsets[i], size |-> ImplementedPart.size,
                  alignment |-> ImplementedPart.alignment] : i \in 1..v}
           P == {[at |-> laid[t].propertyOffsets[i] + laid[t].base,
                  size |-> TypeValueSize(program[t].properties[i].type).size,
                  alignment |-> TypeValueSize(program[t].properties[i].type).alignment] : i \in m + 1..w}
<1>6. PartsOf(t) = I \cup P
  BY DEF PartsOf
<1>7. I = {PartOf(t, -i) : i \in 1..v}
  BY <1>3
<1>8. P = {PartOf(t, i) : i \in m + 1..w}
  BY <1>4
<1> HIDE DEF I, P
<1>9. I \cup P = {PartOf(t, k) : k \in Keys(t)}
  <2>1. \A x \in I \cup P : \E k \in Keys(t) : x = PartOf(t, k)
    BY <1>3, <1>4, <1>7, <1>8
  <2>2. \A k \in Keys(t) : PartOf(t, k) \in I \cup P
    BY <1>5, <1>7, <1>8
  <2> QED
    BY <2>1, <2>2
<1> QED
  BY <1>6, <1>9

\* There are as many parts as there should be: no two are one.
LEMMA PartsCounted ==
  ASSUME LayoutsLoaded, NEW t \in Structured
  PROVE  Cardinality(PartsOf(t)) = NumParts(t) /\ PartsOf(t) = {PartOf(t, k) : k \in Keys(t)}
<1>1. PICK w, v, m : /\ w = Len(laid[t].propertyOffsets) /\ v = Len(laid[t].interfaceOffsets)
                     /\ m = laid[t].nativeParts
  OBVIOUS
<1>2. w \in Nat /\ v \in Nat /\ m \in 0..w /\ DOMAIN laid[t].interfaceOffsets = 1..v
  <2>1. IsSequence(laid[t].propertyOffsets) /\ IsSequence(laid[t].interfaceOffsets) /\ m \in 0..w
    BY <1>1, StructuredLaid DEF Sized
  <2>2. \A s : IsSequence(s) => Len(s) \in Nat /\ DOMAIN s = 1..Len(s)
    BY DEF IsSequence
  <2> QED
    BY <1>1, <2>1, <2>2
<1>3. PICK N : N = v + w - m
  OBVIOUS
<1>4. /\ PartsOf(t) = {PartOf(t, k) : k \in Keys(t)} /\ NumParts(t) = N
      /\ Keys(t) = {k \in Int : k \in m + 1..w \/ -k \in 1..v}
  <2>1. PartsOf(t) = {PartOf(t, k) : k \in Keys(t)}
    BY <1>1, <1>2, PartsAre, Zenon
  <2>2. Keys(t) = {k \in Int : k \in m + 1..w \/ -k \in 1..v}
    BY <1>1 DEF Keys
  <2>3. NumParts(t) = v + w - m
    BY <1>1 DEF NumParts
  <2> QED
    BY <1>3, <2>1, <2>2, <2>3
<1>5. Fits(t)
  BY AllFit
<1> DEFINE K(j) == IF j <= v THEN -j ELSE m + (j - v)
           f == [j \in 1..N |-> PartOf(t, K(j))]
<1>6. N \in Nat
  BY <1>2, <1>3
<1>7. \A j \in 1..N : K(j) \in Keys(t)
  BY <1>2, <1>3, <1>4
<1>8. \A k \in Keys(t) : \E j \in 1..N : K(j) = k
  <2> SUFFICES ASSUME NEW k \in Keys(t)
               PROVE  \E j \in 1..N : K(j) = k
    OBVIOUS
  <2>1. k \in Int /\ (k \in m + 1..w \/ -k \in 1..v)
    BY <1>4
  <2>2. CASE k \in m + 1..w
    <3>1. v + (k - m) \in 1..N /\ K(v + (k - m)) = k
      BY <1>2, <1>3, <2>2
    <3> QED
      BY <3>1
  <2>3. CASE -k \in 1..v
    <3>1. -k \in 1..N /\ K(-k) = k
      BY <1>2, <1>3, <2>1, <2>3
    <3> QED
      BY <3>1
  <2> QED
    BY <2>1, <2>2, <2>3
<1>9. \A i, j \in 1..N : K(i) = K(j) => i = j
  BY <1>2, <1>3
<1>10. \A k, l \in Keys(t) : PartOf(t, k) = PartOf(t, l) => k = l
  <2> SUFFICES ASSUME NEW k \in Keys(t), NEW l \in Keys(t), PartOf(t, k) = PartOf(t, l), k # l
               PROVE  FALSE
    OBVIOUS
  <2>1. PICK x, y, s, r : /\ x = At(laid, t, k) /\ y = At(laid, t, l)
                          /\ s = PartAt(laid, t, k).size /\ r = PartAt(laid, t, l).size
    OBVIOUS
  <2>2. x = y
    BY <2>1 DEF PartOf
  <2>3. x \in Nat /\ y \in Nat /\ s \in Nat \ {0} /\ r \in Nat \ {0} /\ (x + s <= y \/ y + r <= x)
    BY <1>5, <2>1 DEF Fits, KeyFits, KeysApart
  <2> QED
    BY ONLY <2>2, <2>3
<1> HIDE DEF K
<1>11. f \in Bijection(1..N, PartsOf(t))
  <2>1. f \in [1..N -> PartsOf(t)]
    BY <1>4, <1>7
  <2>2. IsInjective(f)
    BY <1>7, <1>9, <1>10 DEF IsInjective
  <2>3. \A p \in PartsOf(t) : \E j \in 1..N : f[j] = p
    BY <1>4, <1>8
  <2> QED
    BY <2>1, <2>2, <2>3 DEF Bijection, Injection, Surjection
<1>12. ExistsBijection(1..N, PartsOf(t))
  BY <1>11 DEF ExistsBijection
<1>13. Cardinality(PartsOf(t)) = N
  BY <1>6, <1>12, FS_CountingElements
<1> QED
  BY <1>4, <1>13

\* The parts of every type fit, as LayoutSound says.
LEMMA EveryPartFits ==
  ASSUME LayoutsLoaded, NEW t \in Structured
  PROVE  PartsFit(t)
<1>1. /\ Cardinality(PartsOf(t)) = NumParts(t) /\ PartsOf(t) = {PartOf(t, k) : k \in Keys(t)}
      /\ Fits(t)
  BY PartsCounted, AllFit
<1>2. ASSUME NEW k \in Keys(t)
      PROVE  /\ At(laid, t, k) >= laid[t].nativeSize
             /\ At(laid, t, k) + PartAt(laid, t, k).size <= laid[t].size
             /\ At(laid, t, k) % PartAt(laid, t, k).alignment = 0
             /\ laid[t].alignment % PartAt(laid, t, k).alignment = 0
  <2>1. PICK x, s, a, n, e, z, al :
          /\ x = At(laid, t, k) /\ s = PartAt(laid, t, k).size /\ a = PartAt(laid, t, k).alignment
          /\ n = laid[t].nativeSize /\ e = laid[t].sizeInSubclass /\ z = laid[t].size
          /\ al = laid[t].alignment
    OBVIOUS
  <2>2. /\ x \in Nat /\ s \in Nat \ {0} /\ n <= x /\ x + s <= e /\ a \in AlignmentsIn(program)
        /\ a <= al /\ x % a = 0
    BY <1>1, <2>1 DEF Fits, KeyFits
  <2>3. /\ z \in Nat \ {0} /\ e \in 0..z /\ al \in AlignmentsIn(program) /\ n \in 0..e
    BY <2>1, StructuredLaid DEF Sized
  <2>4. al % a = 0
    BY <2>2, <2>3 DEF LayoutsLoaded, Loaded, IInv, ProgramInv, AlignmentsNested
  <2>5. x >= n /\ x + s <= z
    BY ONLY <2>2, <2>3
  <2> QED
    BY <2>1, <2>2, <2>4, <2>5
<1>3. ASSUME NEW k \in Keys(t), NEW l \in Keys(t)
      PROVE  \/ PartOf(t, k) = PartOf(t, l)
             \/ At(laid, t, k) + PartAt(laid, t, k).size <= At(laid, t, l)
             \/ At(laid, t, l) + PartAt(laid, t, l).size <= At(laid, t, k)
  BY <1>1 DEF Fits, KeysApart
<1>4. ASSUME NEW p \in PartsOf(t)
      PROVE  /\ p.at >= laid[t].nativeSize /\ p.at + p.size <= laid[t].size
             /\ p.at % p.alignment = 0 /\ laid[t].alignment % p.alignment = 0
             /\ \A q \in PartsOf(t) : p = q \/ p.at + p.size <= q.at \/ q.at + q.size <= p.at
  <2>1. PICK k \in Keys(t) : p = PartOf(t, k)
    BY <1>1
  <2>2. \A j : /\ PartOf(t, j).at = At(laid, t, j) /\ PartOf(t, j).size = PartAt(laid, t, j).size
               /\ PartOf(t, j).alignment = PartAt(laid, t, j).alignment
    BY DEF PartOf
  <2>3. ASSUME NEW q \in PartsOf(t)
        PROVE  p = q \/ p.at + p.size <= q.at \/ q.at + q.size <= p.at
    <3>1. PICK l \in Keys(t) : q = PartOf(t, l)
      BY <1>1
    <3> QED
      BY <1>3, <2>1, <2>2, <3>1
  <2> QED
    BY <1>2, <2>1, <2>2, <2>3
<1> QED
  BY <1>1, <1>4 DEF PartsFit


\* The host's types and enumerations hold no references that a package sees.
LEMMA NoReferences ==
  ASSUME LayoutsLoaded, NEW t \in Structured, t \in DOMAIN BuiltIn \/ IsEnum(t)
  PROVE  laid[t].references = <<>>
<1>1. CASE t \in DOMAIN BuiltIn
  <2>1. laid[t] = HostLayout(t)
    BY <1>1, StructuredLaid
  <2> QED
    BY <2>1 DEF HostLayout, EmptyLayout
<1>2. CASE t \notin DOMAIN BuiltIn
  <2>1. laid[t] = EnumLayout
    BY <1>2, StructuredLaid DEF LaidOut
  <2> QED
    BY <2>1 DEF EnumLayout, EmptyLayout
<1> QED
  BY <1>1, <1>2

\* No type's references are listed twice, and they are inside of it.
LEMMA AllMapped ==
  ASSUME LayoutsLoaded, NEW t \in Structured
  PROVE  /\ Mapped(laid, t)
         /\ t \notin DOMAIN BuiltIn /\ ~IsEnum(t) => ReferencesCollected(laid, t)
<1> DEFINE S == {c \in Classes : Mapped(laid, c)}
<1>1. ASSUME NEW c \in Structured, NEW p, p = ParentClass(c), p # Null => p \in S,
             c \notin Classes => p = Null \/ IsEnum(c) \/ c \in DOMAIN BuiltIn
      PROVE  /\ Mapped(laid, c)
             /\ c \notin DOMAIN BuiltIn /\ ~IsEnum(c) => ReferencesCollected(laid, c)
  <2>1. CASE c \in DOMAIN BuiltIn \/ IsEnum(c)
    <3>1. laid[c].references = <<>>
      BY <2>1, NoReferences
    <3>2. <<>> \in Seq(ReferencesRead) /\ Len(<<>>) = 0
      OBVIOUS
    <3> QED
      BY <2>1, <3>1, <3>2 DEF Mapped, Distinct
  <2>2. CASE ~(c \in DOMAIN BuiltIn \/ IsEnum(c))
    <3>1. LaidOut(laid, c)
      BY <2>2, StructuredLaid
    <3>2. Regular(c) /\ (p # Null => Mapped(laid, p))
      BY <1>1 DEF Regular, Classes
    <3> QED
      BY <1>1, <2>2, <3>1, <3>2 DEF LaidOut
  <2> QED
    BY <2>1, <2>2
<1>2. \A c \in Classes : c \in S
  <2>1. ASSUME NEW c \in Classes, ParentClass(c) # Null => ParentClass(c) \in S
        PROVE  c \in S
    <3>1. c \in Structured
      BY ClassFacts DEF LayoutsLoaded
    <3> QED
      BY <1>1, <2>1, <3>1
  <2> HIDE DEF S
  <2> QED
    BY <2>1, ClassInduction DEF LayoutsLoaded
<1>3. ParentClass(t) # Null =>
       (t \in Classes /\ ParentClass(t) \in Classes) \/ IsEnum(t) \/ t \in DOMAIN BuiltIn
  BY StructuredLaid, ClassFacts DEF LaidOut, LayoutsLoaded
<1>4. CASE t \in DOMAIN BuiltIn \/ IsEnum(t)
  <2>1. laid[t].references = <<>>
    BY <1>4, NoReferences
  <2>2. <<>> \in Seq(ReferencesRead) /\ Len(<<>>) = 0
    OBVIOUS
  <2> QED
    BY <1>4, <2>1, <2>2 DEF Mapped, Distinct
<1>5. CASE ~(t \in DOMAIN BuiltIn \/ IsEnum(t))
  <2>1. ParentClass(t) # Null => ParentClass(t) \in S
    BY <1>2, <1>3, <1>5
  <2>2. t \notin Classes => ParentClass(t) = Null
    BY <1>3, <1>5
  <2> QED
    BY <1>1, <2>1, <2>2
<1> QED
  BY <1>4, <1>5

(* The references of the properties of a type.                             *)
Held(t) == UNION {Contributed(laid, t, i) : i \in DOMAIN program[t].properties}

\* The map of every type names the references in its properties.
LEMMA AllCollected ==
  ASSUME LayoutsLoaded, NEW t \in Structured
  PROVE  ToSet(laid[t].references) = Held(t)
<1> DEFINE S == {c \in Classes : ToSet(laid[c].references) = Held(c)}
<1>1. ASSUME NEW c \in Structured, c \in DOMAIN BuiltIn \/ IsEnum(c)
      PROVE  ToSet(laid[c].references) = Held(c)
  <2>1. laid[c].references = <<>>
    BY <1>1, NoReferences
  <2>2. program[c].properties = <<>>
    <3>1. CASE c \in DOMAIN BuiltIn
      BY <3>1, StructuredLaid
    <3>2. CASE c \notin DOMAIN BuiltIn
      <4>1. HeaderValid(c) /\ IsEnum(c)
        BY <1>1, <3>2, StructuredLaid DEF LaidOut
      <4> QED
        BY <4>1 DEF HeaderValid, IsEnum, Stored
    <3> QED
      BY <3>1, <3>2
  <2>3. ToSet(<<>>) = {} /\ DOMAIN <<>> = {}
    BY DEF ToSet
  <2> QED
    BY <2>1, <2>2, <2>3 DEF Held
<1>2. ASSUME NEW c \in Structured, ~(c \in DOMAIN BuiltIn \/ IsEnum(c)), ParentClass(c) = Null
      PROVE  ToSet(laid[c].references) = Held(c)
  <2>1. ReferencesCollected(laid, c)
    BY <1>2, AllMapped
  <2>2. OffsetsBefore(laid, c) = 0 /\ ReferencesBefore(laid, c) = {}
    BY <1>2 DEF OffsetsBefore, ReferencesBefore
  <2>3. DOMAIN program[c].properties = 0 + 1..Len(program[c].properties)
    BY StructuredLaid
  <2>4. \A r : r \in ToSet(laid[c].references) <=>
          \E i \in DOMAIN program[c].properties : r \in Contributed(laid, c, i)
    BY <2>1, <2>2, <2>3 DEF ReferencesCollected
  <2> QED
    BY <2>4 DEF Held
<1>3. ASSUME NEW c \in Classes, c \notin DOMAIN BuiltIn,
             NEW p, p = ParentClass(c), p # Null, p \in S
      PROVE  ToSet(laid[c].references) = Held(c)
  <2>1. /\ p \in Classes /\ p \in Structured /\ c \in Structured /\ Loaded
        /\ laid[p].nativeSize \in Int /\ ToSet(laid[p].references) = Held(p)
    <3>1. p \in Classes /\ p \in Structured /\ c \in Structured /\ Loaded
      BY <1>3, ClassFacts DEF LayoutsLoaded
    <3>2. laid[p].nativeSize \in 0..laid[p].sizeInSubclass
      BY <3>1, StructuredLaid DEF Sized
    <3> QED
      BY <1>3, <3>1, <3>2
  <2>2. Resembles(c, p)
    BY <1>3, <2>1, ResemblesParent
  <2>3. ReferencesCollected(laid, c) /\ LaidOut(laid, c) /\ ~IsEnum(c)
    <3>1. ~IsEnum(c)
      BY DEF TypeIsClass, IsEnum, Stored, Classes
    <3> QED
      BY <1>3, <2>1, <3>1, AllMapped, StructuredLaid
  <2>4. PICK w, b, pc, pp, oc, op :
          /\ w = Len(program[c].properties) /\ b = Len(program[p].properties)
          /\ pc = program[c].properties /\ pp = program[p].properties
          /\ oc = laid[c].propertyOffsets /\ op = laid[p].propertyOffsets
    OBVIOUS
  <2>5. /\ w \in Nat /\ b \in Nat /\ b <= w /\ DOMAIN pc = 1..w /\ DOMAIN pp = 1..b
        /\ \A i \in 1..b : pc[i] = pp[i] /\ oc[i] = op[i]
    <3>1. pc \in Seq(PropertiesOver(program)) /\ pp \in Seq(PropertiesOver(program))
      BY <2>1, <2>4, StructuredLaid
    <3>2. Continues(pp, pc) /\ Continues(op, oc) /\ Len(op) = b
      BY <2>1, <2>2, <2>4, ListsAre DEF Resembles
    <3> QED
      BY <2>4, <3>1, <3>2 DEF Continues
  <2>6. OffsetsBefore(laid, c) = b /\ ReferencesBefore(laid, c) = Held(p)
    BY <1>3, <2>1, <2>4, ListsAre DEF OffsetsBefore, ReferencesBefore
  <2>7. \A i \in 1..b : Contributed(laid, c, i) = Contributed(laid, p, i)
    BY <2>4, <2>5, ZenonT(30) DEF Contributed
  <2>8. 1..w = (1..b) \cup (b + 1..w)
    BY <2>5
  <2>9. \A r : r \in Held(p) <=> \E i \in 1..b : r \in Contributed(laid, c, i)
    <3>1. Held(p) = UNION {Contributed(laid, p, i) : i \in 1..b}
      BY <2>4, <2>5 DEF Held
    <3> QED
      BY <2>7, <3>1
  <2>10. \A r : r \in Held(c) <=> \E i \in 1..w : r \in Contributed(laid, c, i)
    <3>1. Held(c) = UNION {Contributed(laid, c, i) : i \in 1..w}
      BY <2>4, <2>5 DEF Held
    <3> QED
      BY <3>1
  <2>11. \A r : r \in ToSet(laid[c].references) <=>
           r \in Held(p) \/ \E i \in b + 1..w : r \in Contributed(laid, c, i)
    BY <2>3, <2>4, <2>6 DEF ReferencesCollected
  <2>12. \A r : r \in ToSet(laid[c].references) <=> r \in Held(c)
    BY ONLY <2>8, <2>9, <2>10, <2>11
  <2> QED
    BY <2>12
<1>4. \A c \in Classes : c \in S
  <2>1. ASSUME NEW c \in Classes, ParentClass(c) # Null => ParentClass(c) \in S
        PROVE  c \in S
    <3>1. c \in Structured
      BY ClassFacts DEF LayoutsLoaded
    <3> QED
      BY <1>1, <1>2, <1>3, <2>1, <3>1
  <2> HIDE DEF S
  <2> QED
    BY <2>1, ClassInduction DEF LayoutsLoaded
<1>5. t \in Classes \/ t \in DOMAIN BuiltIn \/ IsEnum(t) \/ ParentClass(t) = Null
  BY StructuredLaid DEF LaidOut
<1> QED
  BY <1>1, <1>2, <1>4, <1>5


\* The map of every type names the references that are found in its values,
\* property by property, and each once.
LEMMA EveryReferenceMapped ==
  ASSUME LayoutsLoaded, NEW t \in Structured
  PROVE  ReferencesMapped(t)
<1> DEFINE Part(f, p, at) == CASE IsStruct(p.type) -> {[r EXCEPT !.offset = @ + at] : r \in f[p.type]}
                               [] IsEnum(p.type) -> {}
                               [] OTHER -> {ContainedReference(p, at)}
           Body(f, u) == UNION {Part(f, program[u].properties[i], laid[u].propertyOffsets[i]) :
                                  i \in DOMAIN program[u].properties}
           Recurs(f) == f = [u \in Structured |-> Body(f, u)]
           known == [u \in Structured |-> ToSet(laid[u].references)]
           found == CHOOSE f : Recurs(f)
<1>1. ReferencesIn(t) = found[t]
  BY DEF ReferencesIn, Structured
<1>2. \A u : IsStruct(u) => u \in Structured /\ ~IsEnum(u)
  BY DEF IsStruct, IsEnum, Stored, IsStructured, Types, Structured, StructuredIn
<1>3. ASSUME NEW f, NEW u \in Structured, \A v \in StructsIn(u) : f[v] = known[v]
      PROVE  Body(f, u) = known[u]
  <2>1. ASSUME NEW i \in DOMAIN program[u].properties
        PROVE  Part(f, program[u].properties[i], laid[u].propertyOffsets[i]) = Contributed(laid, u, i)
    <3>1. PICK p, at : p = program[u].properties[i] /\ at = laid[u].propertyOffsets[i]
      OBVIOUS
    <3>2. IsStruct(p.type) => f[p.type] = ToSet(laid[p.type].references)
      <4>1. IsStruct(p.type) => p.type \in StructsIn(u)
        BY <3>1 DEF StructsIn
      <4> QED
        BY <1>2, <1>3, <4>1
    <3> QED
      BY <3>1, <3>2 DEF Contributed
  <2> HIDE DEF Part
  <2>2. Body(f, u) = Held(u)
    BY <2>1 DEF Held
  <2> QED
    BY <2>2, AllCollected
<1> HIDE DEF Part
<1>4. Recurs(known)
  <2>1. \A u \in Structured : Body(known, u) = known[u]
    BY <1>3
  <2> HIDE DEF Body
  <2> QED
    BY <2>1
<1>5. found = [u \in Structured |-> Body(found, u)]
  <2> HIDE DEF Body, known
  <2> QED
    BY <1>4
<1> HIDE DEF found, Body
<1>6. PICK rank, limit : Numbers(laid, rank, limit)
  BY DEF LayoutsLoaded, LayoutInv, Numbered
<1>7. \A u \in Structured : rank[u] \in Nat /\ \A v \in StructsIn(u) : v \in Structured /\ rank[v] < rank[u]
  <2>1. \A u \in Structured : \A v \in StructsIn(u) : v \in NeededBy(u) /\ v \in Structured
    BY <1>2 DEF NeededBy, StructsIn
  <2>2. \A u \in Structured : u \in DOMAIN laid
    BY StructuredLaid
  <2> QED
    BY <1>6, <2>1, <2>2 DEF Numbers
<1> DEFINE S == {n \in Nat : \A u \in Structured : rank[u] < n => found[u] = known[u]}
<1>8. 0 \in S
  BY <1>7
<1>9. ASSUME NEW n \in Nat, n \in S
      PROVE  n + 1 \in S
  <2> SUFFICES ASSUME NEW u \in Structured, rank[u] < n + 1
               PROVE  found[u] = known[u]
    OBVIOUS
  <2>1. \A v \in StructsIn(u) : found[v] = known[v]
    <3> SUFFICES ASSUME NEW v \in StructsIn(u)
                 PROVE  found[v] = known[v]
      OBVIOUS
    <3>1. v \in Structured /\ rank[v] \in Nat /\ rank[u] \in Nat /\ rank[v] < rank[u]
      BY <1>7
    <3>2. rank[v] < n
      BY <3>1
    <3> HIDE DEF known
    <3> QED
      BY <1>9, <3>1, <3>2
  <2>2. found[u] = Body(found, u)
    BY <1>5
  <2>3. Body(found, u) = known[u]
    BY <1>3, <2>1
  <2> QED
    BY <2>2, <2>3
<1> HIDE DEF S
<1>10. \A n \in Nat : n \in S
  BY <1>8, <1>9, SetInduction
<1>11. found[t] = known[t]
  <2>1. rank[t] + 1 \in S /\ rank[t] < rank[t] + 1
    BY <1>7, <1>10
  <2> HIDE DEF known
  <2> QED
    BY <2>1 DEF S
<1>12. ReferencesIn(t) = ToSet(laid[t].references)
  BY <1>1, <1>11
<1>13. IsInjective(laid[t].references)
  <2>1. Mapped(laid, t)
    BY AllMapped
  <2>2. PICK s : s = laid[t].references
    OBVIOUS
  <2>3. s \in Seq(ReferencesRead) /\ Distinct(s)
    BY <2>1, <2>2 DEF Mapped
  <2>4. DOMAIN s = 1..Len(s)
    BY <2>3
  <2> QED
    BY <2>2, <2>3, <2>4 DEF Distinct, IsInjective
<1> QED
  BY <1>12, <1>13 DEF ReferencesMapped

\* Every type of every load that succeeded has a sound layout, whatever the
\* program, the order of its types and the host: its parts do not overlap, are
\* aligned and inside of it, and the map that the collector marks from names
\* each reference in a value once and nothing else (ResolveStructure).
THEOREM LayoutsSound == Spec => []LayoutSound
<1>1. IInv /\ LayoutInv(laid) => LayoutSound
  <2> SUFFICES ASSUME LayoutsLoaded, NEW i \in DOMAIN order
               PROVE  PartsFit(order[i]) /\ ReferencesMapped(order[i])
    BY DEF LayoutSound, LayoutsLoaded, Loaded
  <2>1. order[i] \in Structured
    BY DEF LayoutsLoaded, Loaded, IInv, ProgramInv
  <2> QED
    BY <2>1, EveryPartFits, EveryReferenceMapped
<1> QED
  BY <1>1, Invariance, LayoutsMade, PTL
=============================================================================
