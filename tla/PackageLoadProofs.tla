-------------------------- MODULE PackageLoadProofs --------------------------
(***************************************************************************)
(* Proofs about PackageLoad (rdx_objectmanager.cpp, rdx_serialize.cpp) for *)
(* every number of packages, domains and files, with allocations that fail *)
(* and collections that come at any step of a load.                        *)
(*                                                                         *)
(* The names of symbols are the matter of the invariant Inv.  While a      *)
(* package is being loaded, the table of packages gives it for its domain  *)
(* (LoadingInv), so that no other package under way defines the same       *)
(* names; therefore a name that was looked up when its symbol was checked  *)
(* is still free when its object is read and enters the table of symbols   *)
(* (SymbolsInv).  From that the table knows each object under its name,    *)
(* and only objects that were read (GlobalsInv).                           *)
(***************************************************************************)
EXTENDS PackageLoad, NaturalInduction, TLAPS

PackageFields == {"domain", "pending", "first", "locals", "imports", "arrays"}

ObjectFields == {"of", "type", "unread", "fields", "package", "stage"}

\* The name of the symbol k of the package p.
SymbolName(p, k) == Local(pkg[p].domain, k).name

\* Names that a single file defines.
Unshared == Names \ Duplicables

Shape ==
  /\ DOMAIN pkg = Packages
  /\ DOMAIN obj = Objects
  /\ packages \in [Domains -> Packages \cup {Null}]
  /\ gst \in [Names -> Objects \cup {Null}]
  /\ unloaded \in Seq(Packages)
  /\ \A p \in Packages :
       /\ DOMAIN pkg[p] = PackageFields
       /\ pkg[p].domain = Null => DOMAIN pkg[p].locals = {}
       /\ pkg[p].domain # Null =>
            /\ pkg[p].domain \in DOMAIN Files
            /\ DOMAIN pkg[p].locals = DOMAIN Files[pkg[p].domain].locals
  /\ \A o \in Objects :
       /\ DOMAIN obj[o] = ObjectFields
       /\ Live(o) => obj[o].of \in DOMAIN Files /\ o[2] \in DOMAIN Files[obj[o].of].locals

\* A package that is being loaded is the one of its domain.
LoadingInv ==
  \A p \in Elements(unloaded) : pkg[p].domain # Null /\ packages[pkg[p].domain] = p

\* What is known of the symbol k of the package p, which is being loaded: the
\* object made for it is there, and its name is free until that is read.
SymbolOK(p, k) ==
  LET s == pkg[p].locals[k]
      o == <<p, k>>
  IN /\ s.object # Null /\ ~s.duplicate => s.object = o /\ Live(o)
     /\ s.object = Null => ~Live(o)
     /\ Live(o) => obj[o].of = pkg[p].domain
     /\ SymbolName(p, k) \in Unshared =>
          /\ s.object = Null /\ s.checked => gst[SymbolName(p, k)] = Null
          /\ s.object # Null /\ ~s.duplicate /\ obj[o].unread => gst[SymbolName(p, k)] = Null

SymbolsInv == \A p \in Elements(unloaded) : \A k \in DOMAIN pkg[p].locals : SymbolOK(p, k)

\* The table of symbols has what was read, and nothing else.
GlobalsInv ==
  /\ GlobalsRead
  /\ \A o \in Objects : Live(o) /\ ~obj[o].unread /\ NameOf(o) \in Unshared => gst[NameOf(o)] = o

Inv == Shape /\ LoadingInv /\ SymbolsInv /\ GlobalsInv

-----------------------------------------------------------------------------
(***************************************************************************)
(* Files and packages under way.                                           *)
(***************************************************************************)

\* Symbols of files have names or are anonymous, and one file defines a name
\* that is not shared, once.
LEMMA FileNames ==
  ASSUME NEW d \in DOMAIN Files, NEW k \in DOMAIN Files[d].locals
  PROVE  /\ Local(d, k).name \in Names \cup {Null}
         /\ k \in 1..MaxLocals
         /\ Local(d, k).name \in Unshared =>
              /\ DomainOf[Local(d, k).name] = d
              /\ \A j \in DOMAIN Files[d].locals : Local(d, j).name = Local(d, k).name => j = k
  BY FileAssumption, PackageAssumption DEF Unshared

\* No two packages under way define the same name that is not shared.
LEMMA NamesApart ==
  ASSUME Shape, LoadingInv,
         NEW p \in Elements(unloaded), NEW k \in DOMAIN pkg[p].locals,
         NEW q \in Elements(unloaded), NEW j \in DOMAIN pkg[q].locals,
         SymbolName(p, k) = SymbolName(q, j), SymbolName(p, k) \in Unshared
  PROVE  p = q /\ k = j
<1>1. p \in Packages /\ q \in Packages
  BY DEF Shape, Elements
<1>2. /\ pkg[p].domain \in DOMAIN Files /\ k \in DOMAIN Files[pkg[p].domain].locals
      /\ pkg[q].domain \in DOMAIN Files /\ j \in DOMAIN Files[pkg[q].domain].locals
  BY <1>1 DEF Shape, LoadingInv
<1>3. pkg[p].domain = pkg[q].domain
  BY <1>2, FileNames DEF SymbolName
<1>4. p = q
  BY <1>3 DEF LoadingInv
<1> QED
  BY <1>2, <1>4, FileNames DEF SymbolName

\* The objects of packages, and of the built-in package.
LEMMA ObjectsOf ==
  ASSUME Shape, NEW p \in Packages, NEW k \in DOMAIN pkg[p].locals
  PROVE  /\ pkg[p].domain \in DOMAIN Files /\ k \in DOMAIN Files[pkg[p].domain].locals
         /\ <<p, k>> \in Objects /\ <<p, k>> # Null
         /\ SymbolName(p, k) \in Names \cup {Null}
<1>1. pkg[p].domain \in DOMAIN Files /\ k \in DOMAIN Files[pkg[p].domain].locals
  BY DEF Shape
<1>2. k \in 1..MaxLocals /\ SymbolName(p, k) \in Names \cup {Null}
  BY <1>1, FileNames DEF SymbolName
<1>3. <<p, k>> \in Objects
  BY <1>2 DEF Objects
<1> QED
  BY <1>1, <1>2, <1>3, PackageAssumption

\* An empty list.
LEMMA NoneUnderWay == Elements(<<>>) = {} /\ <<>> \in Seq(Packages)
  BY DEF Elements

\* A list with one package more.
LEMMA OneMoreUnderWay ==
  ASSUME NEW s \in Seq(Packages), NEW p \in Packages
  PROVE  /\ Elements(s) \subseteq Packages
         /\ Elements(Append(s, p)) = Elements(s) \cup {p}
<1>1. Elements(s) \subseteq Packages
  BY DEF Elements
<1> DEFINE t == Append(s, p)
<1>2. /\ Len(s) \in Nat /\ DOMAIN s = 1..Len(s)
      /\ DOMAIN t = 1..(Len(s) + 1)
      /\ \A i \in 1..Len(s) : t[i] = s[i]
      /\ t[Len(s) + 1] = p
  OBVIOUS
<1> HIDE DEF t
<1>3. \A x \in Elements(t) : x \in Elements(s) \cup {p}
  <2> SUFFICES ASSUME NEW i \in DOMAIN t PROVE t[i] \in Elements(s) \cup {p}
    BY DEF Elements
  <2>1. i \in 1..Len(s) \/ i = Len(s) + 1
    BY <1>2
  <2> QED
    BY <1>2, <2>1 DEF Elements
<1>4. \A x \in Elements(s) \cup {p} : x \in Elements(t)
  <2>1. p \in Elements(t)
    BY <1>2 DEF Elements
  <2>2. ASSUME NEW i \in DOMAIN s PROVE s[i] \in Elements(t)
    <3>1. i \in DOMAIN t /\ t[i] = s[i]
      BY <1>2
    <3> QED
      BY <3>1 DEF Elements
  <2> QED
    BY <2>1, <2>2 DEF Elements
<1> QED
  BY <1>1, <1>3, <1>4 DEF t

-----------------------------------------------------------------------------
(***************************************************************************)
(* Steps that leave the tables alone.                                      *)
(***************************************************************************)

\* Nothing the invariant speaks of changes, but that a load may be given up.
LEMMA TablesKept ==
  ASSUME Inv,
         DOMAIN pkg' = Packages,
         \A p \in Packages : /\ DOMAIN pkg'[p] = PackageFields
                             /\ pkg'[p].domain = pkg[p].domain
                             /\ pkg'[p].locals = pkg[p].locals,
         DOMAIN obj' = Objects,
         \A o \in Objects : /\ DOMAIN obj'[o] = ObjectFields
                            /\ obj'[o].of = obj[o].of
                            /\ obj'[o].unread = obj[o].unread,
         packages' = packages, gst' = gst,
         unloaded' = unloaded \/ unloaded' = <<>>
  PROVE  Inv'
<1>1. Elements(unloaded') \subseteq Elements(unloaded) /\ Elements(unloaded) \subseteq Packages
      /\ unloaded' \in Seq(Packages)
  <2>1. unloaded \in Seq(Packages) /\ Elements(unloaded) \subseteq Packages
    BY DEF Inv, Shape, Elements
  <2>2. CASE unloaded' = unloaded
    BY <2>1, <2>2
  <2>3. CASE unloaded' = <<>>
    BY <2>1, <2>3, NoneUnderWay
  <2> QED
    BY <2>2, <2>3
<1>2. Shape'
  BY <1>1 DEF Inv, Shape, Live
<1>3. LoadingInv'
  BY <1>1 DEF Inv, LoadingInv
<1>4. SymbolsInv'
  <2> SUFFICES ASSUME NEW p \in Elements(unloaded'), NEW k \in DOMAIN pkg'[p].locals
               PROVE  SymbolOK(p, k)'
    BY DEF SymbolsInv
  <2>1. p \in Packages /\ p \in Elements(unloaded) /\ k \in DOMAIN pkg[p].locals
    BY <1>1
  <2>2. <<p, k>> \in Objects
    BY <2>1, ObjectsOf DEF Inv
  <2>3. SymbolOK(p, k)
    BY <2>1 DEF Inv, SymbolsInv
  <2> QED
    BY <2>1, <2>2, <2>3 DEF SymbolOK, SymbolName, Live
<1>5. GlobalsInv'
  BY DEF Inv, Shape, GlobalsInv, GlobalsRead, NameOf, SymbolOf, Live
<1> QED
  BY <1>2, <1>3, <1>4, <1>5 DEF Inv

\* All of it is unchanged.
LEMMA Unchanged ==
  ASSUME Inv, UNCHANGED <<pkg, obj, packages, gst, unloaded>>
  PROVE  Inv'
  BY TablesKept DEF Inv, Shape

\* A call that throws drops its list.
LEMMA ThrowKeeps ==
  ASSUME Inv, NEW e, Throw(e)
  PROVE  Inv'
  BY TablesKept DEF Throw, Inv, Shape
\* A package that is opened is new: nothing of its address is left.
LEMMA OpenedInv ==
  ASSUME Inv, NEW d, NEW p \in Packages, DeserializePackage(d, p), UNCHANGED <<obj, gst>>
  PROVE  Inv'
<1>1. /\ d \in DOMAIN Files /\ d \in Domains /\ packages[d] = Null
      /\ pkg[p] = NoPackage /\ \A k \in 1..MaxLocals : obj[<<p, k>>] = NoObject
      /\ pkg' = [pkg EXCEPT ![p] = NewPackage(d)]
      /\ packages' = [packages EXCEPT ![d] = p]
      /\ unloaded' = Append(unloaded, p)
  BY PackageAssumption DEF DeserializePackage, Unused
<1>2. /\ DOMAIN NewPackage(d) = PackageFields
      /\ NewPackage(d).domain = d
      /\ NewPackage(d).locals = [k \in DOMAIN Files[d].locals |-> NewLocal]
  BY DEF NewPackage, NoPackage, PackageFields
<1>3. /\ DOMAIN pkg' = Packages /\ pkg'[p] = NewPackage(d)
      /\ \A q \in Packages : q # p => pkg'[q] = pkg[q]
      /\ packages' \in [Domains -> Packages \cup {Null}] /\ packages'[d] = p
      /\ \A e \in Domains : e # d => packages'[e] = packages[e]
      /\ unloaded' \in Seq(Packages)
  BY <1>1 DEF Inv, Shape
<1>4. /\ Elements(unloaded) \subseteq Packages
      /\ Elements(unloaded') = Elements(unloaded) \cup {p}
  BY <1>1, OneMoreUnderWay DEF Inv, Shape
<1>5. d # Null /\ pkg[p].domain = Null
  BY <1>1, PackageAssumption DEF NoPackage
<1>6. \A q \in Elements(unloaded) : q # p /\ pkg[q].domain \in Domains /\ pkg[q].domain # d
  BY <1>1, <1>4, <1>5, PackageAssumption DEF Inv, LoadingInv, Shape
<1>7. Shape'
  BY <1>1, <1>2, <1>3, <1>5 DEF Inv, Shape, Live
<1>8. LoadingInv'
  BY <1>1, <1>2, <1>3, <1>4, <1>5, <1>6 DEF Inv, LoadingInv
<1>9. SymbolsInv'
  <2> SUFFICES ASSUME NEW q \in Elements(unloaded'), NEW k \in DOMAIN pkg'[q].locals
               PROVE  SymbolOK(q, k)'
    BY DEF SymbolsInv
  <2>1. CASE q = p
    <3>1. k \in DOMAIN Files[d].locals /\ pkg'[p].locals[k] = NewLocal
      BY <1>2, <1>3, <2>1
    <3>2. k \in 1..MaxLocals
      BY <1>1, <3>1, FileNames
    <3>3. obj'[<<p, k>>].of = Null
      BY <1>1, <3>2 DEF NoObject
    <3> QED
      BY <2>1, <3>1, <3>3 DEF SymbolOK, Live, NewLocal
  <2>2. CASE q # p
    <3>1. q \in Elements(unloaded) /\ q \in Packages /\ pkg'[q] = pkg[q]
      BY <1>3, <1>4, <2>2
    <3>2. SymbolOK(q, k)
      BY <3>1 DEF Inv, SymbolsInv
    <3> QED
      BY <3>1, <3>2 DEF SymbolOK, SymbolName, Live
  <2> QED
    BY <2>1, <2>2
<1>10. GlobalsInv'
  BY DEF Inv, GlobalsInv, GlobalsRead, NameOf, SymbolOf, Live
<1> QED
  BY <1>7, <1>8, <1>9, <1>10 DEF Inv

\* What a collection releases is in no table and under no load.
LEMMA CollectGarbageInv ==
  ASSUME Inv, CollectGarbage
  PROVE  Inv'
<1>1. PICK marked : MarkingEnds(marked) /\ Sweep(marked) /\ SweepSymbols(marked)
  BY DEF CollectGarbage
<1>2. /\ pkg' = [p \in Packages |-> IF p \in marked THEN pkg[p] ELSE NoPackage]
      /\ obj' = [o \in Objects |-> IF o \in marked THEN obj[o] ELSE NoObject]
      /\ packages' = [d \in Domains |-> Swept(packages[d], marked)]
      /\ gst' = [n \in Names |-> Swept(gst[n], marked)]
      /\ unloaded' = unloaded
  BY <1>1 DEF CollectGarbage, Sweep, SweepSymbols
<1>3. Elements(unloaded) \subseteq marked /\ Elements(unloaded) \subseteq Packages
  BY <1>1 DEF MarkingEnds, Roots, Inv, Shape, Elements
<1>4. /\ DOMAIN NoPackage = PackageFields /\ NoPackage.domain = Null
      /\ DOMAIN NoPackage.locals = {}
      /\ DOMAIN NoObject = ObjectFields /\ NoObject.of = Null
  BY DEF NoPackage, NoObject, PackageFields, ObjectFields
<1>5. \A p \in Elements(unloaded) : pkg'[p] = pkg[p]
  BY <1>2, <1>3
<1>6. \A o \in Objects : obj'[o] = obj[o] \/ obj'[o].of = Null
  BY <1>2, <1>4
<1>7. \A n \in Names : gst'[n] = gst[n] \/ gst'[n] = Null
  BY <1>2 DEF Swept
<1>8. Shape'
  BY <1>2, <1>4 DEF Inv, Shape, Swept, Live
<1>9. LoadingInv'
  <2> SUFFICES ASSUME NEW p \in Elements(unloaded)
               PROVE  pkg'[p].domain # Null /\ packages'[pkg'[p].domain] = p
    BY <1>2 DEF LoadingInv
  <2>1. pkg[p].domain # Null /\ packages[pkg[p].domain] = p /\ pkg[p].domain \in Domains
    BY <1>3, PackageAssumption DEF Inv, LoadingInv, Shape
  <2> QED
    BY <1>2, <1>3, <1>5, <2>1 DEF Swept
<1>10. SymbolsInv'
  <2> SUFFICES ASSUME NEW p \in Elements(unloaded), NEW k \in DOMAIN pkg[p].locals
               PROVE  SymbolOK(p, k)'
    BY <1>2, <1>5 DEF SymbolsInv
  <2>1. /\ <<p, k>> \in Objects /\ SymbolName(p, k) \in Names \cup {Null}
        /\ p \in Packages /\ p \in marked
    BY <1>3, ObjectsOf DEF Inv
  <2>2. SymbolOK(p, k)
    BY DEF Inv, SymbolsInv
  <2>3. SymbolName(p, k)' = SymbolName(p, k) /\ pkg'[p].locals[k] = pkg[p].locals[k]
    BY <1>5 DEF SymbolName
  <2>4. pkg[p].locals[k].object # Null => pkg[p].locals[k].object \in marked
    <3>1. References(p) \subseteq marked
      BY <1>1, <2>1 DEF MarkingEnds
    <3> QED
      BY <2>1, <3>1 DEF References, Elements
  <2>5. pkg[p].locals[k].object = <<p, k>> => obj'[<<p, k>>] = obj[<<p, k>>]
    BY <1>2, <2>1, <2>4, PackageAssumption
  <2>6. SymbolName(p, k) \in Unshared => (gst[SymbolName(p, k)] = Null => gst'[SymbolName(p, k)] = Null)
    BY <1>7 DEF Unshared
  <2> QED
    BY <1>5, <1>6, <2>1, <2>2, <2>3, <2>5, <2>6 DEF SymbolOK, Live
<1>11. GlobalsInv'
  <2>1. ASSUME NEW n \in Names, gst'[n] # Null
        PROVE  /\ obj'[gst'[n]].of # Null /\ ~obj'[gst'[n]].unread
               /\ Local(obj'[gst'[n]].of, gst'[n][2]).name = n
    <3>1. gst[n] \in marked /\ gst'[n] = gst[n] /\ gst[n] # Null
      BY <1>2, <2>1 DEF Swept
    <3>2. gst[n] \in Objects
      BY <3>1 DEF Inv, Shape
    <3>3. obj'[gst[n]] = obj[gst[n]]
      BY <1>2, <3>1, <3>2
    <3> QED
      BY <3>1, <3>3 DEF Inv, GlobalsInv, GlobalsRead, Live, NameOf, SymbolOf
  <2>2. ASSUME NEW o \in Objects, Live(o)', ~obj'[o].unread, NameOf(o)' \in Unshared
        PROVE  gst'[NameOf(o)'] = o
    <3>1. o \in marked /\ obj'[o] = obj[o]
      BY <1>2, <1>4, <2>2 DEF Live
    <3>2. gst[NameOf(o)] = o /\ NameOf(o)' = NameOf(o) /\ NameOf(o) \in Names
      BY <2>2, <3>1 DEF Inv, GlobalsInv, Live, NameOf, SymbolOf, Unshared
    <3> QED
      BY <1>2, <3>1, <3>2 DEF Swept
  <2>3. GlobalsRead'
    BY <2>1 DEF GlobalsRead, Live, NameOf, SymbolOf
  <2> QED
    BY <2>2, <2>3 DEF GlobalsInv
<1> QED
  BY <1>8, <1>9, <1>10, <1>11 DEF Inv
-----------------------------------------------------------------------------
(***************************************************************************)
(* Steps that create and read objects.                                     *)
(***************************************************************************)

\* The place of a symbol of a package under way.
LEMMA SlotFacts ==
  ASSUME Shape, NEW c \in LocalSlots
  PROVE  /\ unloaded[c[1]] \in Elements(unloaded) /\ unloaded[c[1]] \in Packages
         /\ c[2] \in DOMAIN pkg[unloaded[c[1]]].locals
<1>1. PICK i \in DOMAIN unloaded : \E k \in DOMAIN pkg[unloaded[i]].locals : c = <<i, k>>
  BY DEF LocalSlots
<1>2. c[1] \in DOMAIN unloaded /\ c[2] \in DOMAIN pkg[unloaded[c[1]]].locals
  BY <1>1
<1> QED
  BY <1>2 DEF Shape, Elements

\* What a step of CreateInitialObjects makes of the symbol h.
SymbolHere(h) ==
  [type |-> TypeHere(h),
   object |-> IF DuplicateHere(h) THEN gst[h.file.name]
              ELSE IF CreatesHere(h) THEN <<h.p, h.k>> ELSE h.is.object,
   checked |-> h.is.checked \/ h.is.object = Null,
   duplicate |-> h.is.duplicate \/ DuplicateHere(h)]

\* A symbol without an object is recognised, gets an object or has to wait.
LEMMA SymbolHereIs ==
  ASSUME NEW c, NEW p, p = unloaded[c[1]], NEW k, k = c[2],
         NEW s, s = pkg[p].locals[k], NEW name, name = SymbolName(p, k),
         NEW new, new = SymbolHere(Here(c))
  PROVE  /\ s.object # Null => /\ new.object = s.object /\ (new.duplicate <=> s.duplicate)
                               /\ ~CreatesHere(Here(c))
         /\ s.object = Null =>
              \/ new.object # Null /\ new.duplicate /\ ~CreatesHere(Here(c))
              \/ /\ ~s.checked /\ name # Null => gst[name] = Null
                 /\ \/ new.object = <<p, k>> /\ CreatesHere(Here(c))
                    \/ new.object = Null /\ ~CreatesHere(Here(c))
         /\ InitialObject(Here(c)).of = pkg[p].domain /\ InitialObject(Here(c)).unread
         /\ DOMAIN InitialObject(Here(c)) = ObjectFields
<1> DEFINE h == Here(c)
<1>1. h.p = p /\ h.k = k /\ h.is = s /\ h.file.name = name
  BY DEF Here, SymbolName
<1> HIDE DEF h
<1>2. /\ new.object = IF DuplicateHere(h) THEN gst[name]
                      ELSE IF CreatesHere(h) THEN <<p, k>> ELSE s.object
      /\ new.duplicate <=> s.duplicate \/ DuplicateHere(h)
  BY <1>1 DEF SymbolHere, h
<1>3. /\ DuplicateHere(h) <=> s.object = Null /\ ~s.checked /\ name # Null /\ gst[name] # Null
      /\ CreatesHere(h) => s.object = Null /\ ~DuplicateHere(h)
  BY <1>1 DEF DuplicateHere, CreatesHere
<1>4. /\ InitialObject(h).of = pkg[p].domain /\ InitialObject(h).unread
      /\ DOMAIN InitialObject(h) = ObjectFields
  BY <1>1 DEF InitialObject, NoObject, ObjectFields
<1> QED
  BY <1>2, <1>3, <1>4 DEF h

\* The step as a whole.
LEMMA CreateInitialObjectDoes ==
  ASSUME NEW c, CreateInitialObject(c), NEW p, p = unloaded[c[1]], NEW k, k = c[2]
  PROVE  /\ pkg' = [pkg EXCEPT ![p].locals[k] = SymbolHere(Here(c))]
         /\ obj' = IF CreatesHere(Here(c)) THEN [obj EXCEPT ![<<p, k>>] = InitialObject(Here(c))]
                   ELSE obj
         /\ UNCHANGED <<packages, gst, unloaded>>
<1>1. Here(c).p = p /\ Here(c).k = k
  BY DEF Here
<1> QED
  BY <1>1 DEF CreateInitialObject, SymbolHere

\* The invariant after a step of CreateInitialObjects.
LEMMA CreateInitialObjectInv ==
  ASSUME Inv, NEW c \in LocalSlots, CreateInitialObject(c)
  PROVE  Inv'
<1>1. PICK p \in Elements(unloaded) : p = unloaded[c[1]]
  BY SlotFacts DEF Inv
<1>2. PICK k \in DOMAIN pkg[p].locals : k = c[2]
  BY <1>1, SlotFacts DEF Inv
<1>3. PICK new : new = SymbolHere(Here(c))
  OBVIOUS
<1>4. PICK initial : initial = InitialObject(Here(c))
  OBVIOUS
<1> DEFINE s == pkg[p].locals[k]
           o == <<p, k>>
           name == SymbolName(p, k)
           creates == CreatesHere(Here(c))
<1>5. /\ pkg' = [pkg EXCEPT ![p].locals[k] = new]
      /\ obj' = IF creates THEN [obj EXCEPT ![o] = initial] ELSE obj
      /\ packages' = packages /\ gst' = gst /\ unloaded' = unloaded
  BY <1>1, <1>2, <1>3, <1>4, CreateInitialObjectDoes, SMTT(30)
<1>6. /\ s.object # Null => /\ new.object = s.object /\ (new.duplicate <=> s.duplicate)
                            /\ ~creates
      /\ s.object = Null =>
           \/ new.object # Null /\ new.duplicate /\ ~creates
           \/ /\ ~s.checked /\ name # Null => gst[name] = Null
              /\ \/ new.object = o /\ creates
                 \/ new.object = Null /\ ~creates
      /\ initial.of = pkg[p].domain /\ initial.unread /\ DOMAIN initial = ObjectFields
  BY <1>1, <1>2, <1>3, <1>4, SymbolHereIs
<1> HIDE DEF creates
<1>7. /\ p \in Packages /\ o \in Objects /\ o # Null
      /\ name \in Names \cup {Null}
      /\ pkg[p].domain \in DOMAIN Files /\ pkg[p].domain # Null
      /\ k \in DOMAIN Files[pkg[p].domain].locals
  <2>1. p \in Packages
    BY DEF Inv, Shape, Elements
  <2> QED
    BY <2>1, ObjectsOf DEF Inv, LoadingInv
<1>8. SymbolOK(p, k)
  BY DEF Inv, SymbolsInv
<1>9. /\ DOMAIN pkg' = Packages
      /\ \A q \in Packages :
           /\ DOMAIN pkg'[q] = PackageFields
           /\ pkg'[q].domain = pkg[q].domain
           /\ DOMAIN pkg'[q].locals = DOMAIN pkg[q].locals
           /\ \A j \in DOMAIN pkg[q].locals :
                pkg'[q].locals[j] = IF q = p /\ j = k THEN new ELSE pkg[q].locals[j]
  BY <1>5, <1>7 DEF Inv, Shape, PackageFields
<1>10. \A q \in Objects : q # o => obj'[q] = obj[q]
  BY <1>5 DEF Inv, Shape
<1>11. /\ ~creates => obj'[o] = obj[o]
       /\ creates => obj'[o] = initial
  BY <1>5, <1>7 DEF Inv, Shape
<1>12. creates => ~Live(o)
  BY <1>6, <1>8 DEF SymbolOK
<1>13. name \in Unshared /\ s.object = Null /\ (new.object = Null \/ creates) => gst[name] = Null
  BY <1>6, <1>7, <1>8, PackageAssumption DEF SymbolOK, Unshared
<1>14. Shape'
  BY <1>5, <1>6, <1>7, <1>9, <1>10, <1>11 DEF Inv, Shape, Live
<1>15. LoadingInv'
  <2>1. Elements(unloaded) \subseteq Packages
    BY DEF Inv, Shape, Elements
  <2> QED
    BY <1>5, <1>9, <2>1 DEF Inv, LoadingInv
<1>16. SymbolOK(p, k)'
  <2>1. pkg'[p].locals[k] = new /\ SymbolName(p, k)' = name
    BY <1>7, <1>9 DEF SymbolName
  <2>2. CASE s.object # Null
    BY <1>5, <1>6, <1>8, <1>9, <1>11, <2>1, <2>2 DEF SymbolOK, Live
  <2>3. CASE s.object = Null /\ new.object # Null /\ new.duplicate /\ ~creates
    BY <1>5, <1>7, <1>8, <1>9, <1>11, <2>1, <2>3 DEF SymbolOK, Live
  <2>4. CASE s.object = Null /\ new.object = o /\ creates
    BY <1>5, <1>6, <1>7, <1>9, <1>11, <1>13, <2>1, <2>4 DEF SymbolOK, Live
  <2>5. CASE s.object = Null /\ new.object = Null /\ ~creates
    BY <1>5, <1>7, <1>8, <1>9, <1>11, <1>13, <2>1, <2>5 DEF SymbolOK, Live
  <2> QED
    BY <1>6, <2>2, <2>3, <2>4, <2>5
<1>17. SymbolsInv'
  <2> SUFFICES ASSUME NEW q \in Elements(unloaded'), NEW j \in DOMAIN pkg'[q].locals
               PROVE  SymbolOK(q, j)'
    BY DEF SymbolsInv
  <2>1. q \in Elements(unloaded) /\ q \in Packages /\ j \in DOMAIN pkg[q].locals
    BY <1>5, <1>9 DEF Inv, Shape, Elements
  <2>2. CASE q = p /\ j = k
    BY <1>16, <2>2
  <2>3. CASE ~(q = p /\ j = k)
    <3>1. <<q, j>> \in Objects /\ <<q, j>> # o
      BY <2>1, <2>3, ObjectsOf DEF Inv
    <3>2. SymbolOK(q, j)
      BY <2>1 DEF Inv, SymbolsInv
    <3>3. /\ pkg'[q].locals[j] = pkg[q].locals[j] /\ pkg'[q].domain = pkg[q].domain
          /\ obj'[<<q, j>>] = obj[<<q, j>>]
      BY <1>9, <1>10, <2>1, <2>3, <3>1
    <3> QED
      BY <1>5, <3>2, <3>3 DEF SymbolOK, SymbolName, Live
  <2> QED
    BY <2>2, <2>3
<1>18. GlobalsInv'
  <2>1. ASSUME NEW n \in Names, gst[n] # Null
        PROVE  obj'[gst[n]] = obj[gst[n]]
    <3>1. gst[n] \in Objects /\ Live(gst[n])
      BY <2>1 DEF Inv, Shape, GlobalsInv, GlobalsRead
    <3> QED
      BY <1>10, <1>11, <1>12, <3>1
  <2>2. GlobalsRead'
    BY <1>5, <2>1 DEF Inv, GlobalsInv, GlobalsRead, Live, NameOf, SymbolOf
  <2>3. ASSUME NEW q \in Objects, Live(q)', ~obj'[q].unread, NameOf(q)' \in Unshared
        PROVE  gst'[NameOf(q)'] = q
    <3>1. obj'[q] = obj[q]
      BY <1>6, <1>10, <1>11, <2>3
    <3> QED
      BY <1>5, <2>3, <3>1 DEF Inv, GlobalsInv, Live, NameOf, SymbolOf
  <2> QED
    BY <2>2, <2>3 DEF GlobalsInv
<1> QED
  BY <1>14, <1>15, <1>17, <1>18 DEF Inv

\* An object that is read enters the table, where its name was free.
LEMMA DeserializeObjectInv ==
  ASSUME Inv, NEW c \in LocalSlots, DeserializeObject(c)
  PROVE  Inv'
<1>1. PICK p \in Elements(unloaded) : p = unloaded[c[1]]
  BY SlotFacts DEF Inv
<1>2. PICK k \in DOMAIN pkg[p].locals : k = c[2]
  BY <1>1, SlotFacts DEF Inv
<1> DEFINE s == pkg[p].locals[k]
           o == <<p, k>>
           name == SymbolName(p, k)
<1>3. /\ p \in Packages /\ o \in Objects /\ o # Null
      /\ name \in Names \cup {Null}
      /\ pkg[p].domain \in DOMAIN Files
  <2>1. p \in Packages
    BY DEF Inv, Shape, Elements
  <2> QED
    BY <2>1, ObjectsOf DEF Inv
<1>4. SymbolOK(p, k)
  BY DEF Inv, SymbolsInv
<1>5. s.object # Null /\ ~s.duplicate /\ obj[s.object].unread
  BY <1>1, <1>2 DEF DeserializeObject, ToBeRead, IsOwn
<1>6. s.object = o /\ Live(o) /\ obj[o].unread /\ obj[o].of = pkg[p].domain
  BY <1>4, <1>5 DEF SymbolOK
<1>7. PICK fields, package :
        obj' = [obj EXCEPT ![o] = [@ EXCEPT !.fields = fields, !.package = package,
                                            !.unread = FALSE]]
  BY <1>1, <1>2, <1>6 DEF DeserializeObject
<1>8. /\ gst' = IF name = Null THEN gst ELSE [gst EXCEPT ![name] = o]
      /\ pkg' = pkg /\ packages' = packages /\ unloaded' = unloaded
  BY <1>1, <1>2, <1>6 DEF DeserializeObject, Reading, SymbolName
<1>9. /\ DOMAIN obj' = Objects /\ DOMAIN obj'[o] = ObjectFields
      /\ obj'[o].of = obj[o].of /\ ~obj'[o].unread
      /\ \A q \in Objects : q # o => obj'[q] = obj[q]
  BY <1>3, <1>7 DEF Inv, Shape, ObjectFields
<1>10. /\ gst' \in [Names -> Objects \cup {Null}]
       /\ name # Null => gst'[name] = o
       /\ \A n \in Names : n # name => gst'[n] = gst[n]
  BY <1>3, <1>8, PackageAssumption DEF Inv, Shape
<1>11. Shape'
  BY <1>8, <1>9, <1>10 DEF Inv, Shape, Live
<1>12. LoadingInv'
  BY <1>8 DEF Inv, LoadingInv
<1>13. SymbolsInv'
  <2> SUFFICES ASSUME NEW q \in Elements(unloaded), NEW j \in DOMAIN pkg[q].locals
               PROVE  SymbolOK(q, j)'
    BY <1>8 DEF SymbolsInv
  <2>1. CASE q = p /\ j = k
    BY <1>4, <1>5, <1>6, <1>8, <1>9, <2>1 DEF SymbolOK, SymbolName, Live
  <2>2. CASE ~(q = p /\ j = k)
    <3>1. q \in Packages /\ <<q, j>> \in Objects
      <4>1. q \in Packages
        BY DEF Inv, Shape, Elements
      <4> QED
        BY <4>1, ObjectsOf DEF Inv
    <3>2. obj'[<<q, j>>] = obj[<<q, j>>]
      BY <1>9, <2>2, <3>1
    <3>3. SymbolName(q, j) \in Unshared => gst'[SymbolName(q, j)] = gst[SymbolName(q, j)]
      <4> SUFFICES ASSUME SymbolName(q, j) \in Unshared
                   PROVE  gst'[SymbolName(q, j)] = gst[SymbolName(q, j)]
        OBVIOUS
      <4>1. SymbolName(q, j) # name
        BY <2>2, NamesApart DEF Inv
      <4> QED
        BY <1>10, <4>1 DEF Unshared
    <3>4. SymbolOK(q, j)
      BY DEF Inv, SymbolsInv
    <3> QED
      BY <1>8, <3>2, <3>3, <3>4 DEF SymbolOK, SymbolName, Live
  <2> QED
    BY <2>1, <2>2
<1>14. GlobalsInv'
  <2>1. Local(obj'[o].of, o[2]).name = name /\ obj'[o].of # Null
    BY <1>6, <1>9 DEF SymbolName, Live
  <2>2. ASSUME NEW n \in Names, gst'[n] # Null
        PROVE  /\ obj'[gst'[n]].of # Null /\ ~obj'[gst'[n]].unread
               /\ Local(obj'[gst'[n]].of, gst'[n][2]).name = n
    <3>1. CASE n = name
      <4>1. gst'[n] = o
        BY <1>3, <1>10, <3>1, PackageAssumption
      <4> QED
        BY <1>9, <2>1, <3>1, <4>1
    <3>2. CASE n # name
      <4>1. gst'[n] = gst[n]
        BY <1>10, <3>2
      <4>2. /\ gst[n] \in Objects /\ obj[gst[n]].of # Null /\ ~obj[gst[n]].unread
            /\ Local(obj[gst[n]].of, gst[n][2]).name = n
        BY <2>2, <4>1 DEF Inv, Shape, GlobalsInv, GlobalsRead, Live, NameOf, SymbolOf
      <4>3. obj'[gst[n]] = obj[gst[n]]
        BY <1>6, <1>9, <4>2
      <4> QED
        BY <4>1, <4>2, <4>3
    <3> QED
      BY <3>1, <3>2
  <2>3. GlobalsRead'
    BY <2>2 DEF GlobalsRead, Live, NameOf, SymbolOf
  <2>4. ASSUME NEW q \in Objects, Live(q)', ~obj'[q].unread, NameOf(q)' \in Unshared
        PROVE  gst'[NameOf(q)'] = q
    <3>1. CASE q = o
      <4>1. NameOf(q)' = name
        BY <2>1, <3>1 DEF NameOf, SymbolOf
      <4> QED
        BY <1>3, <1>10, <2>4, <3>1, <4>1, PackageAssumption DEF Unshared
    <3>2. CASE q # o
      <4>1. obj'[q] = obj[q] /\ NameOf(q)' = NameOf(q)
        BY <1>9, <3>2 DEF NameOf, SymbolOf
      <4>2. gst[NameOf(q)] = q /\ NameOf(q) \in Names
        BY <2>4, <4>1 DEF Inv, GlobalsInv, Live, Unshared
      <4>3. NameOf(q) # name
        <5> SUFFICES ASSUME NameOf(q) = name PROVE FALSE
          OBVIOUS
        <5>1. gst[name] = Null
          BY <1>4, <1>5, <1>6, <2>4, <4>1 DEF SymbolOK
        <5> QED
          BY <4>2, <5>1, PackageAssumption
      <4> QED
        BY <1>10, <4>1, <4>2, <4>3
    <3> QED
      BY <3>1, <3>2
  <2> QED
    BY <2>3, <2>4 DEF GlobalsInv
<1> QED
  BY <1>11, <1>12, <1>13, <1>14 DEF Inv

-----------------------------------------------------------------------------
(***************************************************************************)
(* The end of a load, and the rest.                                        *)
(***************************************************************************)

\* With no package under way, the invariant is about the tables alone.
LEMMA ListDropped ==
  ASSUME Inv, Shape', obj' = obj, gst' = gst, unloaded' = <<>>
  PROVE  Inv'
<1>1. Elements(unloaded') = {}
  BY NoneUnderWay
<1>2. LoadingInv' /\ SymbolsInv'
  BY <1>1 DEF LoadingInv, SymbolsInv
<1>3. GlobalsInv'
  BY DEF Inv, GlobalsInv, GlobalsRead, NameOf, SymbolOf, Live
<1> QED
  BY <1>2, <1>3 DEF Inv

\* A package that stays half opened in the table is on no list.
LEMMA AddUnloadedPackageFailsInv ==
  ASSUME Inv, NEW d, NEW p \in Packages, AddUnloadedPackageFails(d, p)
  PROVE  Inv'
<1>1. /\ d \in DOMAIN Files /\ d \in Domains /\ d # Null
      /\ pkg' = [pkg EXCEPT ![p] = NewPackage(d)]
      /\ packages' = [packages EXCEPT ![d] = p]
      /\ unloaded' = <<>> /\ obj' = obj /\ gst' = gst
  BY PackageAssumption DEF AddUnloadedPackageFails
<1>2. /\ DOMAIN NewPackage(d) = PackageFields
      /\ NewPackage(d).domain = d
      /\ DOMAIN NewPackage(d).locals = DOMAIN Files[d].locals
  BY DEF NewPackage, NoPackage, PackageFields
<1>3. Shape'
  BY <1>1, <1>2, NoneUnderWay DEF Inv, Shape, Live
<1> QED
  BY <1>1, <1>3, ListDropped

\* A package that is finished keeps its domain and its symbols.
LEMMA FinishPackageLoadInv ==
  ASSUME Inv, FinishPackageLoad
  PROVE  Inv'
<1> DEFINE done == FinishedPackages
<1>1. /\ DOMAIN done = Packages
      /\ \A p \in Packages : /\ DOMAIN done[p] = PackageFields
                             /\ done[p].domain = pkg[p].domain
                             /\ DOMAIN done[p].locals = DOMAIN pkg[p].locals
  <2> SUFFICES ASSUME NEW p \in Packages
               PROVE  /\ DOMAIN done[p] = PackageFields
                      /\ done[p].domain = pkg[p].domain
                      /\ DOMAIN done[p].locals = DOMAIN pkg[p].locals
    BY DEF FinishedPackages
  <2>1. DOMAIN pkg[p] = PackageFields
    BY DEF Inv, Shape
  <2>2. CASE p \in Elements(unloaded)
    <3>1. done[p] = Finished(p)
      BY <2>2 DEF FinishedPackages
    <3> QED
      BY <2>1, <3>1 DEF Finished, PackageFields
  <2>3. CASE p \notin Elements(unloaded)
    BY <2>1, <2>3 DEF FinishedPackages
  <2> QED
    BY <2>2, <2>3
<1> HIDE DEF done
<1>2. /\ pkg' = done \/ pkg' = [done EXCEPT ![result].first = Null]
      /\ packages' = packages \/ packages' = [packages EXCEPT ![Runtime] = Null]
      /\ unloaded' = <<>> /\ obj' = obj /\ gst' = gst
  BY DEF FinishPackageLoad, done
<1>3. /\ DOMAIN pkg' = Packages
      /\ \A p \in Packages : /\ DOMAIN pkg'[p] = PackageFields
                             /\ pkg'[p].domain = pkg[p].domain
                             /\ DOMAIN pkg'[p].locals = DOMAIN pkg[p].locals
  <2>1. CASE pkg' = done
    BY <1>1, <2>1
  <2>2. CASE pkg' = [done EXCEPT ![result].first = Null]
    BY <1>1, <2>2 DEF PackageFields
  <2> QED
    BY <1>2, <2>1, <2>2
<1>4. packages' \in [Domains -> Packages \cup {Null}]
  BY <1>2 DEF Inv, Shape
<1>5. Shape'
  BY <1>2, <1>3, <1>4, NoneUnderWay DEF Inv, Shape, Live
<1> QED
  BY <1>2, <1>5, ListDropped

\* Imports and array types are no names.
LEMMA ResolvingInv ==
  ASSUME Inv, ResolveImports \/ \E c \in ArraySlots : GenerateArrayDef(c)
  PROVE  Inv'
<1>1. /\ obj' = obj /\ packages' = packages /\ gst' = gst /\ unloaded' = unloaded
      /\ \/ pkg' = [p \in Packages |-> IF p \in Elements(unloaded)
                                       THEN [pkg[p] EXCEPT !.imports = Resolved(p)] ELSE pkg[p]]
         \/ \E q, k, t : pkg' = [pkg EXCEPT ![q].arrays[k] = t]
  BY DEF ResolveImports, GenerateArrayDef
<1>2. /\ DOMAIN pkg' = Packages
      /\ \A p \in Packages : /\ DOMAIN pkg'[p] = PackageFields
                             /\ pkg'[p].domain = pkg[p].domain
                             /\ pkg'[p].locals = pkg[p].locals
  BY <1>1 DEF Inv, Shape, PackageFields
<1> QED
  BY <1>1, <1>2, TablesKept DEF Inv, Shape

\* The stages of types are no names either.
LEMMA StagesInv ==
  ASSUME Inv,
         \/ \E c \in LocalSlots : ResolveDefault(c)
         \/ HardenStructures
         \/ \E S \in SUBSET NewTypes : HardenStructuresInterrupted(S)
  PROVE  Inv'
<1>1. /\ pkg' = pkg /\ packages' = packages /\ gst' = gst
      /\ unloaded' = unloaded \/ unloaded' = <<>>
      /\ \/ obj' = obj
         \/ \E o, stage : obj' = [obj EXCEPT ![o].stage = stage]
         \/ \E S : obj' = [o \in Objects |->
              IF o \in S THEN [obj[o] EXCEPT !.stage = StageOnceLaidOut(o)] ELSE obj[o]]
  BY DEF ResolveDefault, Reading, HardenStructures, HardenStructuresInterrupted
<1>2. /\ DOMAIN obj' = Objects
      /\ \A o \in Objects : /\ DOMAIN obj'[o] = ObjectFields
                            /\ obj'[o].of = obj[o].of
                            /\ obj'[o].unread = obj[o].unread
  BY <1>1 DEF Inv, Shape, ObjectFields
<1> QED
  BY <1>1, <1>2, TablesKept DEF Inv, Shape

\* At the beginning there are the built-in objects and their names.
LEMMA InitInv == Init => Inv
<1> SUFFICES ASSUME Init PROVE Inv
  OBVIOUS
<1>1. /\ pkg = [p \in Packages |-> NoPackage]
      /\ obj = [o \in Objects |-> IF o \in BuiltIns THEN BuiltInObject ELSE NoObject]
      /\ packages = [d \in Domains |-> Null]
      /\ unloaded = <<>>
  BY DEF Init
<1>2. /\ DOMAIN NoPackage = PackageFields /\ NoPackage.domain = Null
      /\ DOMAIN NoPackage.locals = {}
      /\ DOMAIN NoObject = ObjectFields /\ NoObject.of = Null
      /\ DOMAIN BuiltInObject = ObjectFields /\ BuiltInObject.of = CoreDomain
      /\ ~BuiltInObject.unread
  BY DEF NoPackage, NoObject, BuiltInObject, PackageFields, ObjectFields
<1>3. CoreDomain \in DOMAIN Files /\ CoreDomain # Null
  BY PackageAssumption
<1> DEFINE Name(k) == Local(CoreDomain, k).name
           Number(n) == CHOOSE k \in 1..NumBuiltIns : Name(k) = n
<1>4. ASSUME NEW k \in 1..NumBuiltIns
      PROVE  /\ k \in DOMAIN Files[CoreDomain].locals
             /\ <<BuiltIn, k>> \in Objects /\ obj[<<BuiltIn, k>>] = BuiltInObject
  <2>1. k \in DOMAIN Files[CoreDomain].locals /\ k \in 1..MaxLocals
    BY <1>3, FileAssumption
  <2>2. <<BuiltIn, k>> \in Objects /\ <<BuiltIn, k>> \in BuiltIns
    BY <2>1 DEF Objects, BuiltIns
  <2> QED
    BY <1>1, <2>1, <2>2
<1>5. ASSUME NEW n \in Names
      PROVE  \/ /\ \E k \in 1..NumBuiltIns : Name(k) = n
                /\ Number(n) \in 1..NumBuiltIns /\ Name(Number(n)) = n
                /\ gst[n] = <<BuiltIn, Number(n)>>
             \/ gst[n] = Null /\ ~\E k \in 1..NumBuiltIns : Name(k) = n
  <2>1. gst[n] = IF \E k \in 1..NumBuiltIns : Name(k) = n THEN <<BuiltIn, Number(n)>> ELSE Null
    BY DEF Init
  <2>2. CASE \E k \in 1..NumBuiltIns : Name(k) = n
    <3>1. Number(n) \in 1..NumBuiltIns /\ Name(Number(n)) = n
      BY <2>2
    <3> QED
      BY <2>1, <2>2, <3>1
  <2>3. CASE ~\E k \in 1..NumBuiltIns : Name(k) = n
    BY <2>1, <2>3
  <2> QED
    BY <2>2, <2>3
<1> HIDE DEF Name, Number
<1>6. \A o \in Objects : Live(o) => o \in BuiltIns
  BY <1>1, <1>2 DEF Live
<1>7. ASSUME NEW o \in Objects, o \in BuiltIns
      PROVE  /\ o[2] \in 1..NumBuiltIns /\ o = <<BuiltIn, o[2]>> /\ NameOf(o) = Name(o[2])
             /\ obj[o] = BuiltInObject
  BY <1>1, <1>2, <1>7 DEF BuiltIns, NameOf, SymbolOf, Name
<1>8. Shape
  <2>1. DOMAIN gst = Names
    BY DEF Init
  <2>2. gst \in [Names -> Objects \cup {Null}]
    <3>1. gst = [n \in Names |-> gst[n]]
      BY DEF Init
    <3>2. \A n \in Names : gst[n] \in Objects \cup {Null}
      BY <1>4, <1>5
    <3> QED
      BY <3>1, <3>2
  <2>3. \A o \in Objects : /\ DOMAIN obj[o] = ObjectFields
                           /\ Live(o) => /\ obj[o].of \in DOMAIN Files
                                         /\ o[2] \in DOMAIN Files[obj[o].of].locals
    <3> SUFFICES ASSUME NEW o \in Objects
                 PROVE  /\ DOMAIN obj[o] = ObjectFields
                        /\ Live(o) => /\ obj[o].of \in DOMAIN Files
                                      /\ o[2] \in DOMAIN Files[obj[o].of].locals
      OBVIOUS
    <3>1. CASE o \in BuiltIns
      BY <1>2, <1>3, <1>4, <1>7, <3>1
    <3>2. CASE o \notin BuiltIns
      BY <1>1, <1>2, <3>2 DEF Live
    <3> QED
      BY <3>1, <3>2
  <2> QED
    BY <1>1, <1>2, <2>2, <2>3, NoneUnderWay DEF Shape
<1>9. LoadingInv /\ SymbolsInv
  BY <1>1, NoneUnderWay DEF LoadingInv, SymbolsInv
<1>10. GlobalsRead
  <2> SUFFICES ASSUME NEW n \in Names, gst[n] # Null
               PROVE  Live(gst[n]) /\ ~obj[gst[n]].unread /\ NameOf(gst[n]) = n
    BY DEF GlobalsRead
  <2>1. PICK k \in 1..NumBuiltIns : gst[n] = <<BuiltIn, k>> /\ Name(k) = n
    BY <1>5
  <2>2. obj[<<BuiltIn, k>>] = BuiltInObject
    BY <1>4
  <2> QED
    BY <1>2, <1>3, <2>1, <2>2 DEF Live, NameOf, SymbolOf, Name
<1>11. ASSUME NEW o \in Objects, Live(o), NameOf(o) \in Unshared
       PROVE  gst[NameOf(o)] = o
  <2>1. o[2] \in 1..NumBuiltIns /\ o = <<BuiltIn, o[2]>> /\ NameOf(o) = Name(o[2])
    BY <1>6, <1>7, <1>11
  <2>2. PICK k \in 1..NumBuiltIns : Name(k) = NameOf(o) /\ gst[NameOf(o)] = <<BuiltIn, k>>
    BY <1>5, <1>11, <2>1 DEF Unshared
  <2>3. k = o[2]
    BY <1>3, <1>4, <1>11, <2>1, <2>2, FileNames DEF Name
  <2> QED
    BY <2>1, <2>2, <2>3
<1> QED
  BY <1>8, <1>9, <1>10, <1>11 DEF Inv, GlobalsInv

\* Every step of a load and of its clients, every failure and every collection
\* preserves the invariant.
LEMMA StepInv == Inv /\ [Next]_vars => Inv'
<1> SUFFICES ASSUME Inv, [Next]_vars PROVE Inv'
  OBVIOUS
<1>1. CASE \E p \in Packages : OpenPackage(p)
  <2>1. PICK p \in Packages : OpenPackage(p)
    BY <1>1
  <2>2. \/ UNCHANGED <<pkg, obj, packages, gst, unloaded>>
        \/ DeserializePackage(request.domain, p) /\ UNCHANGED <<obj, gst>>
    BY <2>1 DEF OpenPackage
  <2> QED
    BY <2>2, OpenedInv, Unchanged
<1>2. CASE \E c \in ImportSlots, p \in Packages : OpenDependency(c, p)
  <2>1. PICK c \in ImportSlots, p \in Packages : OpenDependency(c, p)
    BY <1>2
  <2>2. \/ UNCHANGED <<pkg, obj, packages, gst, unloaded>>
        \/ DeserializePackage(DomainOf[ImportOf(c)], p) /\ UNCHANGED <<obj, gst>>
    BY <2>1 DEF OpenDependency
  <2> QED
    BY <2>2, OpenedInv, Unchanged
<1>3. CASE \E c \in LocalSlots : CreateInitialObject(c)
  BY <1>3, CreateInitialObjectInv
<1>4. CASE \E c \in LocalSlots : DeserializeObject(c)
  BY <1>4, DeserializeObjectInv
<1>5. CASE ResolveImports \/ \E c \in ArraySlots : GenerateArrayDef(c)
  BY <1>5, ResolvingInv
<1>6. CASE \/ \E c \in LocalSlots : ResolveDefault(c)
           \/ HardenStructures
           \/ \E S \in SUBSET NewTypes : HardenStructuresInterrupted(S)
  BY <1>6, StagesInv
<1>7. CASE \E e : Throw(e)
  BY <1>7, ThrowKeeps
<1>8. CASE \/ DependenciesOpen \/ ObjectsCreated \/ ArrayDefsGenerated \/ ObjectsRead
           \/ ValidateStructures
           \/ \E c \in LocalSlots : DeferObject(c) \/ PassOver(c)
  BY <1>8, Unchanged DEF DependenciesOpen, ObjectsCreated, ArrayDefsGenerated, ObjectsRead,
     ValidateStructures, DeferObject, PassOver, Reading
<1>9. CASE ClientStep
  BY <1>9, Unchanged DEF ClientStep, LoadPackage, LookupSymbol, LoadObject, DropRef, Start
<1>10. CASE FinishPackageLoad
  BY <1>10, FinishPackageLoadInv
<1>11. CASE CollectGarbage
  BY <1>11, CollectGarbageInv
<1>12. CASE \E d \in Domains, p \in Packages : AddUnloadedPackageFails(d, p)
  BY <1>12, AddUnloadedPackageFailsInv
<1>13. CASE UNCHANGED vars
  BY <1>13, Unchanged DEF vars
<1>14. CASE \/ \E d \in Domains : FileMissing(d) \/ PackageAllocationFails(d)
            \/ \E c \in LocalSlots : CreateInitialObjectFails(c) \/ DefaultFails(c)
            \/ ImportsUnresolved \/ ArrayDefFails \/ UnresolvableDependency
            \/ HardenStructuresFails \/ ValidateStructuresFails \/ AllocationFails
  <2>1. \E e : Throw(e)
    BY <1>14 DEF FileMissing, PackageAllocationFails, CreateInitialObjectFails, DefaultFails,
       ImportsUnresolved, ArrayDefFails, UnresolvableDependency, HardenStructuresFails,
       ValidateStructuresFails, AllocationFails
  <2> QED
    BY <1>7, <2>1
<1> QED
  BY <1>1, <1>2, <1>3, <1>4, <1>5, <1>6, <1>8, <1>9, <1>10, <1>11, <1>12, <1>13, <1>14
  DEF Next, LoadStep

-----------------------------------------------------------------------------
(***************************************************************************)
(* Every symbol has a type and an object after the last round of creating. *)
(***************************************************************************)

Created(c) ==
  LET s == pkg[unloaded[c[1]]].locals[c[2]] IN s.type # Null /\ s.object # Null

\* The last round of CreateInitialObjects has left no symbol behind so far.
CreatedInv ==
  /\ EverySymbolCreated
  /\ phase = "create" => \A c \in LocalSlots : ~Before(cursor, c) => Created(c)

\* The symbols under way are as they were.
LEMMA SlotsKept ==
  ASSUME Shape, unloaded' = unloaded,
         \A p \in Elements(unloaded) : pkg'[p].locals = pkg[p].locals
  PROVE  /\ LocalSlots' = LocalSlots
         /\ \A c \in LocalSlots : Created(c)' <=> Created(c)
<1>1. \A i \in DOMAIN unloaded : pkg'[unloaded[i]].locals = pkg[unloaded[i]].locals
  BY DEF Elements
<1>2. LocalSlots' = LocalSlots
  BY <1>1 DEF LocalSlots
<1>3. ASSUME NEW c \in LocalSlots
      PROVE  pkg'[unloaded[c[1]]].locals = pkg[unloaded[c[1]]].locals
  BY SlotFacts
<1> QED
  BY <1>2, <1>3 DEF Created

\* A step of the last round gives its symbol a type and an object.
LEMMA LastRound ==
  ASSUME Shape, CreatedInv, phase = "create", NEW c \in LocalSlots, CreateInitialObject(c)
  PROVE  CreatedInv'
<1>1. PICK p \in Packages : p = unloaded[c[1]]
  BY SlotFacts
<1>2. PICK k \in DOMAIN pkg[p].locals : k = c[2]
  BY <1>1, SlotFacts
<1>3. PICK new : new = SymbolHere(Here(c))
  OBVIOUS
<1>4. /\ pkg' = [pkg EXCEPT ![p].locals[k] = new]
      /\ unloaded' = unloaded /\ phase' = "create" /\ cursor' = c
      /\ IsNext(c, LocalSlots) /\ ErrorHere(Here(c)) = "none"
  <2>1. pkg' = [pkg EXCEPT ![p].locals[k] = new]
    BY <1>1, <1>2, <1>3, CreateInitialObjectDoes
  <2>2. /\ unloaded' = unloaded /\ phase' = phase /\ cursor' = c
        /\ IsNext(c, LocalSlots) /\ ErrorHere(Here(c)) = "none"
    BY DEF CreateInitialObject
  <2> QED
    BY <2>1, <2>2
<1>5. /\ \A q \in Packages :
           /\ DOMAIN pkg'[q].locals = DOMAIN pkg[q].locals
           /\ \A j \in DOMAIN pkg[q].locals :
                pkg'[q].locals[j] = IF q = p /\ j = k THEN new ELSE pkg[q].locals[j]
  BY <1>4 DEF Shape, PackageFields
<1>6. new.type # Null /\ new.object # Null
  <2> DEFINE h == Here(c)
  <2>1. /\ h.is = pkg[p].locals[k] /\ h.p = p /\ h.k = k
        /\ ~CriticalOnly
    BY <1>1, <1>2 DEF Here, CriticalOnly
  <2> HIDE DEF h
  <2>2. /\ TypeHere(h) # Null
        /\ h.is.object = Null => ~DuplicateHere(h) /\ TypeReady(h)
    BY <1>4, <2>1 DEF ErrorHere, h
  <2>3. h.is.object = Null => CreatesHere(h)
    BY <2>1, <2>2 DEF CreatesHere
  <2>4. DuplicateHere(h) => gst[h.file.name] # Null
    BY DEF DuplicateHere
  <2>5. <<p, k>> # Null
    BY ObjectsOf
  <2>6. /\ new.type = TypeHere(h)
        /\ new.object = IF DuplicateHere(h) THEN gst[h.file.name]
                        ELSE IF CreatesHere(h) THEN <<p, k>> ELSE h.is.object
    BY <1>3, <2>1 DEF SymbolHere, h
  <2> QED
    BY <2>2, <2>3, <2>4, <2>5, <2>6
<1>7. LocalSlots' = LocalSlots
  <2>1. \A i \in DOMAIN unloaded : unloaded[i] \in Packages
    BY DEF Shape
  <2>2. \A i \in DOMAIN unloaded : DOMAIN pkg'[unloaded[i]].locals = DOMAIN pkg[unloaded[i]].locals
    BY <1>5, <2>1
  <2> QED
    BY <1>4, <2>2 DEF LocalSlots
<1>8. ASSUME NEW b \in LocalSlots, ~Before(c, b)
      PROVE  Created(b)'
  <2>1. b = c \/ ~Before(cursor, b)
    BY <1>4, <1>8 DEF IsNext
  <2>2. unloaded[b[1]] \in Packages /\ b[2] \in DOMAIN pkg[unloaded[b[1]]].locals
    BY SlotFacts
  <2>3. CASE unloaded[b[1]] = p /\ b[2] = k
    BY <1>4, <1>5, <1>6, <2>2, <2>3 DEF Created
  <2>4. CASE ~(unloaded[b[1]] = p /\ b[2] = k)
    <3>1. Created(b)
      BY <1>1, <1>2, <2>1, <2>4 DEF CreatedInv
    <3> QED
      BY <1>4, <1>5, <2>2, <2>4, <3>1 DEF Created
  <2> QED
    BY <2>3, <2>4
<1> QED
  BY <1>4, <1>7, <1>8 DEF CreatedInv, EverySymbolCreated, Before

\* The loop of the last round begins before its first symbol.
LEMMA BeforeAll ==
  ASSUME Shape, NEW c \in LocalSlots
  PROVE  Before(Beginning, c)
<1>1. PICK i \in DOMAIN unloaded : \E k \in DOMAIN pkg[unloaded[i]].locals : c = <<i, k>>
  BY DEF LocalSlots
<1>2. i \in Nat \ {0} /\ c[1] = i
  BY <1>1 DEF Shape
<1> QED
  BY <1>2 DEF Before, Beginning

\* A step that leaves the symbols under way alone.
LEMMA CreatedKept ==
  ASSUME Shape, CreatedInv, unloaded' = unloaded,
         \A p \in Elements(unloaded) : pkg'[p].locals = pkg[p].locals,
         phase' = "create" => phase = "create" /\ cursor' = cursor,
         phase' \in {"import", "read", "validate", "finish"} =>
           phase \in {"import", "read", "validate", "finish"}
  PROVE  CreatedInv'
<1>1. LocalSlots' = LocalSlots /\ \A c \in LocalSlots : Created(c)' <=> Created(c)
  BY SlotsKept
<1>2. phase \in {"import", "read", "validate", "finish"} => \A c \in LocalSlots : Created(c)
  BY DEF CreatedInv, EverySymbolCreated, Created
<1>3. phase' \in {"import", "read", "validate", "finish"} =>
        \A c \in LocalSlots' : Created(c)'
  BY <1>1, <1>2
<1>4. EverySymbolCreated'
  BY <1>3 DEF EverySymbolCreated, Created
<1>5. phase' = "create" => \A c \in LocalSlots' : ~Before(cursor', c) => Created(c)'
  BY <1>1 DEF CreatedInv
<1> QED
  BY <1>4, <1>5 DEF CreatedInv, Before

\* A step into a phase that says nothing of the symbols.
LEMMA CreatedElsewhere ==
  ASSUME phase' \notin {"create", "import", "read", "validate", "finish"}
  PROVE  CreatedInv'
  BY DEF CreatedInv, EverySymbolCreated

LEMMA CreatedStep == Inv /\ CreatedInv /\ [Next]_vars => CreatedInv'
<1> SUFFICES ASSUME Inv, CreatedInv, [Next]_vars PROVE CreatedInv'
  OBVIOUS
<1>0. Shape
  BY DEF Inv
<1>1. CASE \/ \E p \in Packages : OpenPackage(p)
           \/ DependenciesOpen \/ ArrayDefsGenerated
  BY <1>1, CreatedElsewhere DEF OpenPackage, DependenciesOpen, ArrayDefsGenerated, EnterPhase
<1>2. CASE \E c \in ImportSlots, p \in Packages : OpenDependency(c, p)
  BY <1>2, CreatedElsewhere DEF OpenDependency
<1>3. CASE \E c \in LocalSlots : CreateInitialObject(c)
  <2>1. PICK c \in LocalSlots : CreateInitialObject(c)
    BY <1>3
  <2>2. phase \in {"create critical", "create arrays", "create"} /\ phase' = phase
    BY <2>1 DEF CreateInitialObject
  <2>3. CASE phase = "create"
    BY <1>0, <2>1, <2>3, LastRound
  <2>4. CASE phase # "create"
    BY <2>2, <2>4, CreatedElsewhere
  <2> QED
    BY <2>3, <2>4
<1>4. CASE ObjectsCreated
  <2>1. CASE phase = "create"
    <3>1. /\ LoopEnds(LocalSlots) /\ phase' = "import"
          /\ pkg' = pkg /\ unloaded' = unloaded
      BY <1>4, <2>1 DEF ObjectsCreated, EnterPhase
    <3>2. \A c \in LocalSlots : Created(c)
      BY <2>1, <3>1 DEF LoopEnds, CreatedInv
    <3>3. EverySymbolCreated'
      BY <3>1, <3>2 DEF EverySymbolCreated, Created, LocalSlots
    <3> QED
      BY <3>1, <3>3 DEF CreatedInv
  <2>2. CASE phase # "create"
    BY <1>4, <2>2, CreatedElsewhere DEF ObjectsCreated, EnterPhase
  <2> QED
    BY <2>1, <2>2
<1>5. CASE HardenStructures
  <2>1. phase' = "create" /\ cursor' = Beginning /\ pkg' = pkg /\ unloaded' = unloaded
    BY <1>5 DEF HardenStructures, EnterPhase
  <2>2. \A c \in LocalSlots : Before(Beginning, c)
    BY <1>0, BeforeAll
  <2>3. LocalSlots' = LocalSlots
    BY <2>1 DEF LocalSlots
  <2>4. \A c \in LocalSlots' : Before(cursor, c)'
    BY <2>1, <2>2, <2>3 DEF Before, Beginning
  <2> QED
    BY <2>1, <2>4 DEF CreatedInv, EverySymbolCreated
<1>6. CASE ResolveImports
  <2>1. /\ pkg' = [p \in Packages |-> IF p \in Elements(unloaded)
                                      THEN [pkg[p] EXCEPT !.imports = Resolved(p)] ELSE pkg[p]]
        /\ unloaded' = unloaded
        /\ \/ phase = "import" /\ phase' = "read"
           \/ phase' \in {"create critical", "arrays"}
    BY <1>6 DEF ResolveImports, EnterPhase
  <2>2. \A p \in Elements(unloaded) : pkg'[p].locals = pkg[p].locals
    <3> SUFFICES ASSUME NEW p \in Elements(unloaded) PROVE pkg'[p].locals = pkg[p].locals
      OBVIOUS
    <3>1. p \in Packages /\ DOMAIN pkg[p] = PackageFields
      BY <1>0 DEF Shape, Elements
    <3>2. pkg'[p] = [pkg[p] EXCEPT !.imports = Resolved(p)]
      BY <2>1, <3>1
    <3> QED
      BY <3>1, <3>2 DEF PackageFields
  <2> QED
    BY <1>0, <2>1, <2>2, CreatedKept
<1>7. CASE \E c \in ArraySlots : GenerateArrayDef(c)
  BY <1>7, CreatedElsewhere DEF GenerateArrayDef
<1>8. CASE \E c \in LocalSlots : \/ DeserializeObject(c) \/ DeferObject(c)
                                 \/ ResolveDefault(c) \/ PassOver(c)
  <2>1. /\ pkg' = pkg /\ unloaded' = unloaded /\ phase' = phase
        /\ phase \in {"read critical", "read"}
    BY <1>8 DEF DeserializeObject, DeferObject, ResolveDefault, PassOver, Reading
  <2> QED
    BY <1>0, <2>1, CreatedKept
<1>9. CASE ObjectsRead \/ ValidateStructures
  <2>1. /\ pkg' = pkg /\ unloaded' = unloaded
        /\ phase \in {"read critical", "read", "validate"}
        /\ phase' # "create"
        /\ phase = "read critical" => phase' \in {"read critical", "harden"}
    BY <1>9 DEF ObjectsRead, ValidateStructures, EnterPhase, ReadingCritical
  <2> QED
    BY <1>0, <2>1, CreatedKept
<1>10. CASE FinishPackageLoad
  BY <1>10, CreatedElsewhere DEF FinishPackageLoad, End
<1>11. CASE ClientStep
  <2>1. phase' \in {"idle", "open"}
    BY <1>11 DEF ClientStep, LoadPackage, LookupSymbol, LoadObject, DropRef, Start, Idle
  <2> QED
    BY <2>1, CreatedElsewhere
<1>12. CASE CollectGarbage
  <2>1. PICK marked : MarkingEnds(marked) /\ Sweep(marked)
    BY <1>12 DEF CollectGarbage
  <2>2. unloaded' = unloaded /\ phase' = phase /\ cursor' = cursor
    BY <1>12 DEF CollectGarbage
  <2>3. \A p \in Elements(unloaded) : p \in Packages /\ p \in marked
    BY <1>0, <2>1 DEF MarkingEnds, Roots, Shape, Elements
  <2>4. \A p \in Elements(unloaded) : pkg'[p].locals = pkg[p].locals
    BY <2>1, <2>3 DEF Sweep
  <2> QED
    BY <1>0, <2>2, <2>4, CreatedKept
<1>13. CASE \/ \E d \in Domains, p \in Packages : AddUnloadedPackageFails(d, p)
            \/ \E S \in SUBSET NewTypes : HardenStructuresInterrupted(S)
            \/ \E e : Throw(e)
  BY <1>13, CreatedElsewhere DEF AddUnloadedPackageFails, HardenStructuresInterrupted, Throw, End
<1>14. CASE UNCHANGED vars
  BY <1>0, <1>14, CreatedKept DEF vars
<1>15. CASE \/ \E d \in Domains : FileMissing(d) \/ PackageAllocationFails(d)
            \/ \E c \in LocalSlots : CreateInitialObjectFails(c) \/ DefaultFails(c)
            \/ ImportsUnresolved \/ ArrayDefFails \/ UnresolvableDependency
            \/ HardenStructuresFails \/ ValidateStructuresFails \/ AllocationFails
  <2>1. \E e : Throw(e)
    BY <1>15 DEF FileMissing, PackageAllocationFails, CreateInitialObjectFails, DefaultFails,
       ImportsUnresolved, ArrayDefFails, UnresolvableDependency, HardenStructuresFails,
       ValidateStructuresFails, AllocationFails
  <2> QED
    BY <1>13, <2>1
<1> QED
  BY <1>1, <1>2, <1>3, <1>4, <1>5, <1>6, <1>7, <1>8, <1>9, <1>10, <1>11, <1>12, <1>13, <1>14,
     <1>15
  DEF Next, LoadStep

-----------------------------------------------------------------------------
(***************************************************************************)
(* The table of symbols from one state to the next.                        *)
(***************************************************************************)

\* An object enters the table under a name that was free, or takes the place of
\* one of the same name, which only names that several files define can have.
LEMMA NamesStep ==
  Inv /\ [Next]_vars =>
    [\A n \in Names \ Duplicables : gst[n] # Null => gst'[n] \in {gst[n], Null}]_vars
<1> SUFFICES ASSUME Inv, [Next]_vars, NEW n \in Unshared, gst[n] # Null
             PROVE  gst'[n] \in {gst[n], Null}
  BY DEF Unshared
<1>1. CASE \E c \in LocalSlots : DeserializeObject(c)
  <2>1. PICK c \in LocalSlots : DeserializeObject(c)
    BY <1>1
  <2>2. PICK p \in Elements(unloaded) : p = unloaded[c[1]]
    BY SlotFacts DEF Inv
  <2>3. PICK k \in DOMAIN pkg[p].locals : k = c[2]
    BY <2>2, SlotFacts DEF Inv
  <2>4. SymbolOK(p, k)
    BY DEF Inv, SymbolsInv
  <2> DEFINE s == pkg[p].locals[k]
  <2>5. s.object # Null /\ ~s.duplicate /\ obj[s.object].unread
    BY <2>1, <2>2, <2>3 DEF DeserializeObject, ToBeRead, IsOwn
  <2>6. SymbolName(p, k) # n
    BY <2>4, <2>5 DEF SymbolOK
  <2>7. \/ gst' = gst
        \/ \E o : gst' = [gst EXCEPT ![SymbolName(p, k)] = o]
    BY <2>1, <2>2, <2>3 DEF DeserializeObject, SymbolName
  <2> QED
    BY <2>6, <2>7 DEF Inv, Shape, Unshared
<1>2. CASE CollectGarbage
  BY <1>2 DEF CollectGarbage, SweepSymbols, Swept, Unshared
<1>3. CASE gst' = gst
  BY <1>3
<1>4. CASE \E e : Throw(e)
  BY <1>3, <1>4 DEF Throw
<1>5. CASE \/ \E d \in Domains : FileMissing(d) \/ PackageAllocationFails(d)
           \/ \E c \in LocalSlots : CreateInitialObjectFails(c) \/ DefaultFails(c)
           \/ ImportsUnresolved \/ ArrayDefFails \/ UnresolvableDependency
           \/ HardenStructuresFails \/ ValidateStructuresFails \/ AllocationFails
  <2>1. \E e : Throw(e)
    BY <1>5 DEF FileMissing, PackageAllocationFails, CreateInitialObjectFails, DefaultFails,
       ImportsUnresolved, ArrayDefFails, UnresolvableDependency, HardenStructuresFails,
       ValidateStructuresFails, AllocationFails
  <2> QED
    BY <1>4, <2>1
<1>6. CASE \/ \E p \in Packages : OpenPackage(p)
           \/ \E c \in ImportSlots, p \in Packages : OpenDependency(c, p)
           \/ DependenciesOpen
           \/ \E c \in LocalSlots : CreateInitialObject(c)
           \/ ObjectsCreated \/ ResolveImports
           \/ \E c \in ArraySlots : GenerateArrayDef(c)
           \/ ArrayDefsGenerated
  BY <1>3, <1>6 DEF OpenPackage, OpenDependency, DependenciesOpen, CreateInitialObject,
     ObjectsCreated, ResolveImports, GenerateArrayDef, ArrayDefsGenerated
<1>7. CASE \/ \E c \in LocalSlots : DeferObject(c) \/ ResolveDefault(c) \/ PassOver(c)
           \/ ObjectsRead \/ HardenStructures \/ ValidateStructures \/ FinishPackageLoad
  BY <1>3, <1>7 DEF DeferObject, ResolveDefault, PassOver, ObjectsRead, HardenStructures,
     ValidateStructures, FinishPackageLoad
<1>8. CASE ClientStep
  BY <1>3, <1>8 DEF ClientStep, LoadPackage, LookupSymbol, LoadObject, DropRef, Start
<1>9. CASE \/ \E d \in Domains, p \in Packages : AddUnloadedPackageFails(d, p)
           \/ \E S \in SUBSET NewTypes : HardenStructuresInterrupted(S)
           \/ UNCHANGED vars
  BY <1>3, <1>9 DEF AddUnloadedPackageFails, HardenStructuresInterrupted, vars
<1> QED
  BY <1>1, <1>2, <1>5, <1>6, <1>7, <1>8, <1>9 DEF Next, LoadStep

-----------------------------------------------------------------------------
(***************************************************************************)
(* Theorems.                                                               *)
(***************************************************************************)

\* The invariant, of every step of a load, of its failures and of collections.
THEOREM Invariance == Spec => []Inv
  BY InitInv, StepInv, PTL DEF Spec

\* However loads fail and whatever is collected in between, two objects that
\* were read never have the same name, if only one file defines it: a package
\* that is loaded again takes over what is left of it (CreateInitialObjects,
\* rdx_objectmanager.cpp).
THEOREM NamesOnce == Spec => []OneObjectPerName
<1>1. Inv => OneObjectPerName
  <2> SUFFICES ASSUME Inv, NEW o \in Objects, NEW q \in Objects,
                      Live(o) /\ ~obj[o].unread, Live(q) /\ ~obj[q].unread,
                      NameOf(o) = NameOf(q), NameOf(o) \notin Duplicables \cup {Null}
               PROVE  o = q
    BY DEF OneObjectPerName
  <2>1. obj[o].of \in DOMAIN Files /\ o[2] \in DOMAIN Files[obj[o].of].locals
    BY DEF Inv, Shape
  <2>2. NameOf(o) \in Unshared
    BY <2>1, FileNames DEF NameOf, SymbolOf, Unshared
  <2> QED
    BY <2>2 DEF Inv, GlobalsInv
<1> QED
  BY <1>1, Invariance, PTL

\* What LookupSymbol finds in the table has been read and has the name that it
\* was looked up by (AddGlobalSymbol and the sweep of m_gst).
THEOREM GlobalsAreRead == Spec => []GlobalsRead
<1>1. Inv => GlobalsRead
  BY DEF Inv, GlobalsInv
<1> QED
  BY <1>1, Invariance, PTL

\* The "should never happen" of LoadSymbolsOfCriticality does not: after the
\* last round of CreateInitialObjects every symbol has a type and an object.
THEOREM SymbolsCreated == Spec => []EverySymbolCreated
<1>1. Init => CreatedInv
  BY DEF Init, CreatedInv, EverySymbolCreated
<1>2. CreatedInv => EverySymbolCreated
  BY DEF CreatedInv
<1> QED
  BY <1>1, <1>2, CreatedStep, Invariance, PTL DEF Spec

\* A name that a single file defines means one object as long as that lives:
\* AddGlobalSymbol never replaces it.
THEOREM NamesKept == Spec => UnsharedKept
  BY Invariance, NamesStep, PTL DEF Spec, UnsharedKept

-----------------------------------------------------------------------------
(***************************************************************************)
(* A package that is loaded is complete.                                   *)
(*                                                                         *)
(* The symbols of the packages under way have objects of the right name    *)
(* and type (MadeInv), and so have their imports (ImportsInv).  Symbols of *)
(* critical types are created before the first objects are read: what      *)
(* their types are is known after one round of imports and array types     *)
(* (EarlyInv).  Therefore the two loops that read objects, the critical    *)
(* ones and the rest, leave none unread (ReadInv), and what a load has     *)
(* completed stays so, whatever later loads, failures and collections do   *)
(* (PackagesReady).                                                        *)
(***************************************************************************)

\* What is known from the start.
BuiltInsInv ==
  \A b \in BuiltIns : obj[b].of = CoreDomain /\ obj[b].type = TypeType /\ ~obj[b].unread

\* The symbol k of a file of the domain d is a built-in object.
IsBuiltIn(d, k) == d = CoreDomain /\ k \in 1..NumBuiltIns

BuiltInNames == {Local(CoreDomain, k).name : k \in 1..NumBuiltIns}

\* A reference that is resolved before the first object is read: to a built-in
\* object or to an array type.
KnownEarly(d, ref) ==
  \/ ref[1] = "array"
  \/ ref[1] = "import" /\ Files[d].imports[ref[2]] \in BuiltInNames
  \/ ref[1] = "local" /\ IsBuiltIn(d, ref[2])

\* The lists of a package under way are those of its file.
ListsInv ==
  \A p \in Elements(unloaded) :
    /\ pkg[p].pending
    /\ DOMAIN pkg[p].imports = DOMAIN Files[pkg[p].domain].imports
    /\ DOMAIN pkg[p].arrays = DOMAIN Files[pkg[p].domain].arrays

\* The object of the symbol k has its name and its type, and if it is the
\* duplicate of another it has been read, and is a built-in object unless other
\* files may define the name.  Only references that are resolved early lead to
\* critical types.
Made(p, k) ==
  LET s == pkg[p].locals[k]
      o == s.object
      d == pkg[p].domain
  IN /\ o # Null =>
          /\ o \in Objects /\ Live(o) /\ NameOf(o) = SymbolName(p, k)
          /\ s.duplicate => /\ SymbolName(p, k) # Null /\ ~obj[o].unread
                            /\ SymbolName(p, k) \in Unshared => o \in BuiltIns
          /\ ~s.duplicate => s.type # Null /\ obj[o].type = s.type
     /\ o = Null => ~s.duplicate
     /\ s.type \in Critical => KnownEarly(d, Local(d, k).type)
     /\ IsBuiltIn(d, k) => s.type \in {TypeType, Null}

MadeInv == \A p \in Elements(unloaded) : \A k \in DOMAIN pkg[p].locals : Made(p, k)

Imported(p, i) ==
  LET x == pkg[p].imports[i]
  IN x # Null => x \in Objects /\ Live(x) /\ NameOf(x) = Files[pkg[p].domain].imports[i]

ImportsInv == \A p \in Elements(unloaded) : \A i \in DOMAIN pkg[p].imports : Imported(p, i)

PlacesInv == BuiltInsInv /\ ListsInv /\ MadeInv /\ ImportsInv

\* What is to be found of the symbol k before anything is read has been found.
EarlyAt(p, k) ==
  LET s == pkg[p].locals[k]
      d == pkg[p].domain
  IN /\ IsBuiltIn(d, k) => s.object # Null
     /\ ~IsBuiltIn(d, k) /\ KnownEarly(d, Local(d, k).type) => s.type # Null
     /\ s.type \in Critical => s.object # Null

Early(c) == EarlyAt(unloaded[c[1]], c[2])

\* The phases that follow the rounds in which critical objects are created.
LatePhases == {"read critical", "harden", "create", "import", "read", "validate", "finish"}

BuiltInsImported ==
  \A p \in Elements(unloaded) : \A i \in DOMAIN pkg[p].imports :
    Files[pkg[p].domain].imports[i] \in BuiltInNames => pkg[p].imports[i] # Null

ArraysGenerated ==
  \A p \in Elements(unloaded) : \A i \in DOMAIN pkg[p].arrays : pkg[p].arrays[i] # Null

EarlyInv ==
  /\ phase \in {"arrays", "create arrays"} => BuiltInsImported
  /\ phase = "create arrays" => ArraysGenerated
  /\ phase = "create arrays" => \A c \in LocalSlots : ~Before(cursor, c) => Early(c)
  /\ phase \in LatePhases => \A c \in LocalSlots : Early(c)

\* The object of the symbol at c has been read, if it is not a duplicate.
ReadHere(c) ==
  LET s == pkg[unloaded[c[1]]].locals[c[2]]
  IN s.object # Null /\ ~s.duplicate => ~obj[s.object].unread

CriticalReadHere(c) == pkg[unloaded[c[1]]].locals[c[2]].type \in Critical => ReadHere(c)

ReadInv ==
  /\ DOMAIN round = DOMAIN NoRound
  /\ phase = "read critical" /\ ~round.defer =>
       \A c \in LocalSlots : ~Before(cursor, c) => CriticalReadHere(c)
  /\ phase \in LatePhases \ {"read critical"} => \A c \in LocalSlots : CriticalReadHere(c)
  /\ phase = "read" /\ ~round.defer =>
       \A c \in LocalSlots : ~Before(cursor, c) => ReadHere(c)
  /\ phase \in {"validate", "finish"} => \A c \in LocalSlots : ReadHere(c)

\* The symbol k of a loaded package, if it has a name.
Ready(p, k) ==
  LET s == pkg[p].locals[k]
      name == SymbolName(p, k)
  IN name # Null =>
       /\ s.type # Null
       /\ s.object # Null /\ s.object \in Objects /\ Live(s.object)
       /\ ~obj[s.object].unread /\ NameOf(s.object) = name
       /\ name \in Unshared => obj[s.object].type = s.type /\ gst[name] = s.object

\* Each named symbol of a loaded package has been created and read, and the
\* table of symbols gives it for its name unless other files may define that too.
PackagesReady == \A p \in Packages : Loaded(p) => \A k \in DOMAIN pkg[p].locals : Ready(p, k)

-----------------------------------------------------------------------------
(***************************************************************************)
(* What a step may do.                                                     *)
(***************************************************************************)

\* Objects are what they were, but for the stage of types.
SameObjects ==
  \A o \in Objects : /\ obj'[o].of = obj[o].of
                     /\ obj'[o].type = obj[o].type
                     /\ obj'[o].unread = obj[o].unread
                     /\ obj'[o].fields = obj[o].fields

\* No package is opened, no symbol resolved and no object created or read.
Rest ==
  /\ SameObjects
  /\ UNCHANGED <<pkg, gst>>
  /\ unloaded' = unloaded \/ unloaded' = <<>>

Opened(d, p) ==
  /\ DeserializePackage(d, p) \/ AddUnloadedPackageFails(d, p)
  /\ UNCHANGED <<obj, gst>>

LEMMA Stages ==
  ASSUME Shape,
         \/ \E c \in LocalSlots : ResolveDefault(c)
         \/ HardenStructures
         \/ \E S \in SUBSET NewTypes : HardenStructuresInterrupted(S)
  PROVE  Rest
<1>1. /\ pkg' = pkg /\ gst' = gst
      /\ unloaded' = unloaded \/ unloaded' = <<>>
      /\ \/ obj' = obj
         \/ \E o, stage : obj' = [obj EXCEPT ![o].stage = stage]
         \/ \E S : obj' = [o \in Objects |->
              IF o \in S THEN [obj[o] EXCEPT !.stage = StageOnceLaidOut(o)] ELSE obj[o]]
  BY DEF ResolveDefault, Reading, HardenStructures, HardenStructuresInterrupted
<1>2. SameObjects
  BY <1>1 DEF SameObjects, Shape, ObjectFields
<1> QED
  BY <1>1, <1>2 DEF Rest

LEMMA Moves ==
  ASSUME Inv, [Next]_vars
  PROVE  \/ Rest
         \/ \E d \in Domains, p \in Packages : Opened(d, p)
         \/ \E c \in LocalSlots : CreateInitialObject(c)
         \/ \E c \in LocalSlots : DeserializeObject(c)
         \/ ResolveImports
         \/ \E c \in ArraySlots : GenerateArrayDef(c)
         \/ FinishPackageLoad
         \/ CollectGarbage
<1>0. UNCHANGED obj => SameObjects
  BY DEF SameObjects
<1>1. ASSUME NEW d, NEW p \in Packages, DeserializePackage(d, p), UNCHANGED <<obj, gst>>
      PROVE  \E e \in Domains, q \in Packages : Opened(e, q)
  <2>1. d \in Domains
    BY <1>1, PackageAssumption DEF DeserializePackage
  <2> QED
    BY <1>1, <2>1 DEF Opened
<1>2. CASE \E p \in Packages : OpenPackage(p)
  <2>1. PICK p \in Packages : OpenPackage(p)
    BY <1>2
  <2>2. \/ UNCHANGED <<pkg, obj, gst, unloaded>>
        \/ DeserializePackage(request.domain, p) /\ UNCHANGED <<obj, gst>>
    BY <2>1 DEF OpenPackage
  <2> QED
    BY <1>0, <1>1, <2>2 DEF Rest
<1>3. CASE \E c \in ImportSlots, p \in Packages : OpenDependency(c, p)
  <2>1. PICK c \in ImportSlots, p \in Packages : OpenDependency(c, p)
    BY <1>3
  <2>2. \/ UNCHANGED <<pkg, obj, gst, unloaded>>
        \/ DeserializePackage(DomainOf[ImportOf(c)], p) /\ UNCHANGED <<obj, gst>>
    BY <2>1 DEF OpenDependency
  <2> QED
    BY <1>0, <1>1, <2>2 DEF Rest
<1>4. CASE \/ \E c \in LocalSlots : ResolveDefault(c)
           \/ HardenStructures
           \/ \E S \in SUBSET NewTypes : HardenStructuresInterrupted(S)
  BY <1>4, Stages DEF Inv
<1>5. CASE \E e : Throw(e)
  BY <1>0, <1>5 DEF Throw, Rest
<1>6. CASE \/ DependenciesOpen \/ ObjectsCreated \/ ArrayDefsGenerated \/ ObjectsRead
           \/ ValidateStructures
           \/ \E c \in LocalSlots : DeferObject(c) \/ PassOver(c)
  BY <1>0, <1>6 DEF DependenciesOpen, ObjectsCreated, ArrayDefsGenerated, ObjectsRead,
     ValidateStructures, DeferObject, PassOver, Reading, Rest
<1>7. CASE ClientStep
  BY <1>0, <1>7 DEF ClientStep, LoadPackage, LookupSymbol, LoadObject, DropRef, Start, Rest
<1>8. CASE \E d \in Domains, p \in Packages : AddUnloadedPackageFails(d, p)
  BY <1>8 DEF AddUnloadedPackageFails, Opened
<1>9. CASE UNCHANGED vars
  BY <1>0, <1>9 DEF vars, Rest
<1>10. CASE \/ \E d \in Domains : FileMissing(d) \/ PackageAllocationFails(d)
            \/ \E c \in LocalSlots : CreateInitialObjectFails(c) \/ DefaultFails(c)
            \/ ImportsUnresolved \/ ArrayDefFails \/ UnresolvableDependency
            \/ HardenStructuresFails \/ ValidateStructuresFails \/ AllocationFails
  <2>1. \E e : Throw(e)
    BY <1>10 DEF FileMissing, PackageAllocationFails, CreateInitialObjectFails, DefaultFails,
       ImportsUnresolved, ArrayDefFails, UnresolvableDependency, HardenStructuresFails,
       ValidateStructuresFails, AllocationFails
  <2> QED
    BY <1>5, <2>1
<1> QED
  BY <1>2, <1>3, <1>4, <1>6, <1>7, <1>8, <1>9, <1>10 DEF Next, LoadStep

\* A package that is opened is new.
LEMMA OpenedFrame ==
  ASSUME Inv, NEW d, NEW p \in Packages, Opened(d, p)
  PROVE  /\ d \in DOMAIN Files
         /\ pkg[p] = NoPackage /\ pkg'[p] = NewPackage(d)
         /\ \A q \in Packages : q # p => pkg'[q] = pkg[q]
         /\ obj' = obj /\ gst' = gst
         /\ Elements(unloaded') \subseteq Elements(unloaded) \cup {p}
         /\ Elements(unloaded) \subseteq Packages \ {p}
<1>1. /\ d \in DOMAIN Files /\ pkg[p] = NoPackage
      /\ pkg' = [pkg EXCEPT ![p] = NewPackage(d)]
      /\ unloaded' = Append(unloaded, p) \/ unloaded' = <<>>
      /\ obj' = obj /\ gst' = gst
  BY DEF Opened, DeserializePackage, AddUnloadedPackageFails, Unused
<1>2. DOMAIN pkg = Packages /\ unloaded \in Seq(Packages)
  BY DEF Inv, Shape
<1>3. /\ Elements(unloaded) \subseteq Packages
      /\ Elements(Append(unloaded, p)) = Elements(unloaded) \cup {p}
  BY <1>2, OneMoreUnderWay
<1>4. p \notin Elements(unloaded)
  BY <1>1 DEF Inv, LoadingInv, NoPackage
<1> QED
  BY <1>1, <1>2, <1>3, <1>4, NoneUnderWay

\* A symbol may get a type and an object; nothing that lives is touched.
LEMMA CreateFrame ==
  ASSUME Inv, NEW c \in LocalSlots, CreateInitialObject(c),
         NEW p, p = unloaded[c[1]], NEW k, k = c[2],
         NEW new, new = SymbolHere(Here(c)), NEW creates, creates = CreatesHere(Here(c))
  PROVE  /\ p \in Elements(unloaded) /\ p \in Packages /\ k \in DOMAIN pkg[p].locals
         /\ \A q \in Packages :
              /\ pkg'[q].domain = pkg[q].domain /\ pkg'[q].pending = pkg[q].pending
              /\ pkg'[q].imports = pkg[q].imports /\ pkg'[q].arrays = pkg[q].arrays
              /\ DOMAIN pkg'[q].locals = DOMAIN pkg[q].locals
              /\ \A j \in DOMAIN pkg[q].locals :
                   pkg'[q].locals[j] = IF q = p /\ j = k THEN new ELSE pkg[q].locals[j]
         /\ gst' = gst /\ unloaded' = unloaded
         /\ creates => obj'[<<p, k>>] = InitialObject(Here(c)) /\ pkg[p].locals[k].object = Null
         /\ \A o \in Objects : Live(o) => obj'[o] = obj[o]
         /\ ~creates => obj' = obj
<1>1. p \in Elements(unloaded) /\ p \in Packages /\ k \in DOMAIN pkg[p].locals
  BY SlotFacts DEF Inv
<1>2. /\ pkg' = [pkg EXCEPT ![p].locals[k] = new]
      /\ obj' = IF creates THEN [obj EXCEPT ![<<p, k>>] = InitialObject(Here(c))] ELSE obj
      /\ UNCHANGED <<packages, gst, unloaded>>
  BY CreateInitialObjectDoes, SMTT(30)
<1>3. DOMAIN pkg = Packages /\ DOMAIN pkg[p] = PackageFields /\ DOMAIN obj = Objects
  BY <1>1 DEF Inv, Shape
<1>4. \A q \in Packages :
        /\ pkg'[q].domain = pkg[q].domain /\ pkg'[q].pending = pkg[q].pending
        /\ pkg'[q].imports = pkg[q].imports /\ pkg'[q].arrays = pkg[q].arrays
        /\ DOMAIN pkg'[q].locals = DOMAIN pkg[q].locals
        /\ \A j \in DOMAIN pkg[q].locals :
             pkg'[q].locals[j] = IF q = p /\ j = k THEN new ELSE pkg[q].locals[j]
  BY <1>1, <1>2, <1>3 DEF PackageFields
<1>5. creates => pkg[p].locals[k].object = Null
  BY DEF CreatesHere, Here
<1>6. creates => ~Live(<<p, k>>)
  BY <1>1, <1>5 DEF Inv, SymbolsInv, SymbolOK
<1>7. <<p, k>> \in Objects
  BY <1>1, ObjectsOf DEF Inv
<1> QED
  BY <1>1, <1>2, <1>3, <1>4, <1>5, <1>6, <1>7

\* One object, made for the symbol k of the package p, is read now.
ReadsOne(p, k) ==
  /\ pkg[p].locals[k].object = <<p, k>> /\ <<p, k>> \in Objects
  /\ pkg' = pkg /\ unloaded' = unloaded
  /\ \A o \in Objects : /\ obj'[o].of = obj[o].of /\ obj'[o].type = obj[o].type
                        /\ o # <<p, k>> => obj'[o] = obj[o]
                        /\ o = <<p, k>> => ~obj'[o].unread
  /\ \A n \in Names : n # SymbolName(p, k) => gst'[n] = gst[n]
  /\ SymbolName(p, k) \in Unshared => gst[SymbolName(p, k)] = Null

LEMMA ReadFrame ==
  ASSUME Inv, NEW c \in LocalSlots, DeserializeObject(c),
         NEW p, p = unloaded[c[1]], NEW k, k = c[2]
  PROVE  ReadsOne(p, k)
<1>1. p \in Elements(unloaded) /\ p \in Packages /\ k \in DOMAIN pkg[p].locals
  BY SlotFacts DEF Inv
<1>2. SymbolOK(p, k)
  BY <1>1 DEF Inv, SymbolsInv
<1> DEFINE s == pkg[p].locals[k]
           o == <<p, k>>
<1>3. s.object # Null /\ ~s.duplicate /\ obj[s.object].unread
  BY DEF DeserializeObject, ToBeRead, IsOwn
<1>4. s.object = o /\ Live(o) /\ o \in Objects
  BY <1>1, <1>2, <1>3, ObjectsOf DEF SymbolOK, Inv
<1>5. PICK fields, package :
        obj' = [obj EXCEPT ![o] = [@ EXCEPT !.fields = fields, !.package = package,
                                            !.unread = FALSE]]
  BY <1>4 DEF DeserializeObject
<1>6. DOMAIN obj = Objects /\ DOMAIN obj[o] = ObjectFields /\ DOMAIN gst = Names
  BY <1>4 DEF Inv, Shape
<1>7. \A q \in Objects : /\ obj'[q].of = obj[q].of /\ obj'[q].type = obj[q].type
                         /\ q # o => obj'[q] = obj[q]
                         /\ q = o => ~obj'[q].unread
  BY <1>4, <1>5, <1>6 DEF ObjectFields
<1>8. /\ gst' = gst \/ gst' = [gst EXCEPT ![SymbolName(p, k)] = o]
      /\ pkg' = pkg /\ unloaded' = unloaded
  BY <1>4 DEF DeserializeObject, Reading, SymbolName
<1>9. \A n \in Names : n # SymbolName(p, k) => gst'[n] = gst[n]
  BY <1>6, <1>8
<1>10. SymbolName(p, k) \in Unshared => gst[SymbolName(p, k)] = Null
  BY <1>2, <1>3, <1>4 DEF SymbolOK
<1> QED
  BY <1>4, <1>7, <1>8, <1>9, <1>10 DEF ReadsOne

\* What survives a collection is as it was, and what packages under way refer to
\* survives it.
LEMMA CollectFrame ==
  ASSUME Inv, CollectGarbage
  PROVE  /\ unloaded' = unloaded /\ phase' = phase /\ cursor' = cursor /\ round' = round
         /\ Elements(unloaded) \subseteq Packages
         /\ \A p \in Elements(unloaded) :
              /\ pkg'[p] = pkg[p]
              /\ \A k \in DOMAIN pkg[p].locals :
                   LET o == pkg[p].locals[k].object IN o \in Objects => obj'[o] = obj[o]
              /\ \A i \in DOMAIN pkg[p].imports :
                   LET o == pkg[p].imports[i] IN o \in Objects => obj'[o] = obj[o]
         /\ \A p \in Packages :
              \/ pkg'[p].domain = Null
              \/ /\ pkg'[p] = pkg[p]
                 /\ \A k \in DOMAIN pkg[p].locals :
                      LET o == pkg[p].locals[k].object
                      IN o \in Objects =>
                           /\ obj'[o] = obj[o]
                           /\ \A n \in Names : gst[n] = o => gst'[n] = o
         /\ \A b \in BuiltIns \cap Objects : obj'[b] = obj[b]
<1>1. PICK marked : MarkingEnds(marked) /\ Sweep(marked) /\ SweepSymbols(marked)
  BY DEF CollectGarbage
<1>2. /\ pkg' = [p \in Packages |-> IF p \in marked THEN pkg[p] ELSE NoPackage]
      /\ obj' = [o \in Objects |-> IF o \in marked THEN obj[o] ELSE NoObject]
      /\ gst' = [n \in Names |-> IF gst[n] \in marked THEN gst[n] ELSE Null]
  BY <1>1 DEF Sweep, SweepSymbols, Swept
<1>3. /\ unloaded' = unloaded /\ phase' = phase /\ cursor' = cursor /\ round' = round
      /\ Elements(unloaded) \subseteq Packages
  <2>1. Elements(unloaded) \subseteq Packages
    BY DEF Inv, Shape, Elements
  <2> QED
    BY <2>1 DEF CollectGarbage
<1>4. Elements(unloaded) \subseteq marked /\ BuiltIns \subseteq marked
  BY <1>1 DEF MarkingEnds, Roots
<1>5. ASSUME NEW p \in Packages, p \in marked
      PROVE  /\ pkg'[p] = pkg[p]
             /\ \A k \in DOMAIN pkg[p].locals :
                  LET o == pkg[p].locals[k].object
                  IN o \in Objects => /\ obj'[o] = obj[o]
                                      /\ \A n \in Names : gst[n] = o => gst'[n] = o
             /\ \A i \in DOMAIN pkg[p].imports :
                  LET o == pkg[p].imports[i] IN o \in Objects => obj'[o] = obj[o]
  <2>1. References(p) \subseteq marked
    BY <1>1, <1>5 DEF MarkingEnds
  <2>2. ASSUME NEW k \in DOMAIN pkg[p].locals, pkg[p].locals[k].object \in Objects
        PROVE  pkg[p].locals[k].object \in marked
    BY <2>1, <2>2, PackageAssumption DEF References, Elements
  <2>3. ASSUME NEW i \in DOMAIN pkg[p].imports, pkg[p].imports[i] \in Objects
        PROVE  pkg[p].imports[i] \in marked
    BY <2>1, <2>3, PackageAssumption DEF References, Elements
  <2> QED
    BY <1>2, <1>5, <2>2, <2>3
<1>6. ASSUME NEW p \in Packages, p \notin marked
      PROVE  pkg'[p].domain = Null
  BY <1>2, <1>6 DEF NoPackage
<1>7. \A b \in BuiltIns \cap Objects : obj'[b] = obj[b]
  BY <1>2, <1>4
<1> QED
  BY <1>3, <1>4, <1>5, <1>6, <1>7

-----------------------------------------------------------------------------
(***************************************************************************)
(* Built-in objects and references to them.                                *)
(***************************************************************************)

LEMMA BuiltInsAre ==
  ASSUME NEW b \in BuiltIns
  PROVE  /\ b \in Objects /\ b[1] = BuiltIn /\ b[2] \in 1..NumBuiltIns /\ b = <<BuiltIn, b[2]>>
         /\ b[2] \in DOMAIN Files[CoreDomain].locals
<1>1. PICK k \in 1..NumBuiltIns : b = <<BuiltIn, k>>
  BY DEF BuiltIns
<1>2. k \in DOMAIN Files[CoreDomain].locals /\ k \in 1..MaxLocals
  BY FileAssumption, PackageAssumption
<1> QED
  BY <1>1, <1>2 DEF Objects

\* The table of symbols always has the built-in objects.
LEMMA BuiltInNamed ==
  ASSUME Inv, BuiltInsInv, NEW k \in 1..NumBuiltIns
  PROVE  /\ Local(CoreDomain, k).name \in Unshared
         /\ gst[Local(CoreDomain, k).name] = <<BuiltIn, k>>
<1>1. <<BuiltIn, k>> \in BuiltIns /\ <<BuiltIn, k>> \in Objects
  BY BuiltInsAre DEF BuiltIns
<1>2. k \in DOMAIN Files[CoreDomain].locals /\ CoreDomain \in DOMAIN Files /\ CoreDomain # Null
  BY FileAssumption, PackageAssumption
<1>3. Local(CoreDomain, k).name \in Unshared
  BY <1>2, BuiltInAssumption, FileNames DEF Unshared
<1>4. Live(<<BuiltIn, k>>) /\ ~obj[<<BuiltIn, k>>].unread
      /\ NameOf(<<BuiltIn, k>>) = Local(CoreDomain, k).name
  BY <1>1, <1>2 DEF BuiltInsInv, Live, NameOf, SymbolOf
<1> QED
  BY <1>1, <1>3, <1>4 DEF Inv, GlobalsInv

\* The name of a built-in object is at one place of one file.
LEMMA PlaceOfName ==
  ASSUME NEW d \in DOMAIN Files, NEW k \in DOMAIN Files[d].locals,
         Local(d, k).name \in BuiltInNames
  PROVE  IsBuiltIn(d, k)
<1>1. PICK j \in 1..NumBuiltIns : Local(CoreDomain, j).name = Local(d, k).name
  BY DEF BuiltInNames
<1>2. j \in DOMAIN Files[CoreDomain].locals /\ CoreDomain \in DOMAIN Files
  BY FileAssumption, PackageAssumption
<1>3. Local(d, k).name \in Unshared
  BY <1>1, <1>2, BuiltInAssumption, FileNames DEF Unshared
<1>4. d = CoreDomain
  BY <1>1, <1>2, <1>3, FileNames
<1>5. k = j
  BY <1>1, <1>2, <1>3, <1>4, FileNames
<1> QED
  BY <1>4, <1>5 DEF IsBuiltIn

\* An object with a built-in name is that built-in object.
LEMMA BuiltInFound ==
  ASSUME BuiltInsInv, NEW x \in BuiltIns
  PROVE  NameOf(x) \in BuiltInNames
<1>1. obj[x].of = CoreDomain /\ x[2] \in 1..NumBuiltIns
  BY BuiltInsAre DEF BuiltInsInv
<1> QED
  BY <1>1 DEF NameOf, SymbolOf, BuiltInNames

\* Critical types are no addresses, or built-in ones.
LEMMA CriticalTypes ==
  ASSUME NEW t \in Critical
  PROVE  t \in Objects => t \in BuiltIns
<1>1. CASE t \in BuiltIns
  BY <1>1
<1>2. CASE \E o \in BuiltIns : t = ArrayType(o)
  <2>1. t[1] = "array"
    BY <1>2 DEF ArrayType
  <2>2. \A o \in Objects : o[1] \in Packages \cup {BuiltIn}
    BY DEF Objects
  <2> QED
    BY <2>1, <2>2, PackageAssumption
<1> QED
  BY <1>1, <1>2, BuiltInAssumption

\* A reference in the file of a package under way that leads to a critical type
\* is one that is resolved early.
LEMMA ResolvedEarly ==
  ASSUME Inv, PlacesInv, NEW p \in Elements(unloaded), NEW ref,
         IsReference(ref, pkg[p].domain), Resolve(p, ref) \in Critical
  PROVE  KnownEarly(pkg[p].domain, ref)
<1> DEFINE d == pkg[p].domain
           t == Resolve(p, ref)
<1>1. /\ d \in DOMAIN Files /\ p \in Packages
      /\ DOMAIN pkg[p].locals = DOMAIN Files[d].locals
      /\ DOMAIN pkg[p].imports = DOMAIN Files[d].imports
  <2>1. p \in Packages
    BY DEF Inv, Shape, Elements
  <2> QED
    BY <2>1 DEF Inv, Shape, LoadingInv, PlacesInv, ListsInv
<1>2. t # Null
  BY PackageAssumption
<1>3. CASE ref[1] = "local"
  <2>1. ref[2] \in DOMAIN pkg[p].locals
    BY <1>1, <1>3 DEF IsReference
  <2>2. t = pkg[p].locals[ref[2]].object
    BY <1>3 DEF Resolve
  <2>3. t \in Objects /\ NameOf(t) = SymbolName(p, ref[2])
    BY <1>2, <2>1, <2>2 DEF PlacesInv, MadeInv, Made
  <2>4. SymbolName(p, ref[2]) \in BuiltInNames
    BY <2>3, CriticalTypes, BuiltInFound DEF PlacesInv
  <2>5. IsBuiltIn(d, ref[2])
    BY <1>1, <2>1, <2>4, PlaceOfName DEF SymbolName
  <2> QED
    BY <1>3, <2>5 DEF KnownEarly
<1>4. CASE ref[1] = "import"
  <2>1. ref[2] \in DOMAIN pkg[p].imports
    BY <1>1, <1>4 DEF IsReference
  <2>2. t = pkg[p].imports[ref[2]]
    BY <1>4 DEF Resolve
  <2>3. t \in Objects /\ NameOf(t) = Files[d].imports[ref[2]]
    BY <1>2, <2>1, <2>2 DEF PlacesInv, ImportsInv, Imported
  <2>4. Files[d].imports[ref[2]] \in BuiltInNames
    BY <2>3, CriticalTypes, BuiltInFound DEF PlacesInv
  <2> QED
    BY <1>4, <2>4 DEF KnownEarly
<1>5. CASE ref[1] = "array"
  BY <1>5 DEF KnownEarly
<1> QED
  BY <1>3, <1>4, <1>5 DEF IsReference

\* The type of the built-in objects, as the core file gives it.
LEMMA ResolvedType ==
  ASSUME Inv, PlacesInv, NEW p \in Elements(unloaded), pkg[p].domain = CoreDomain,
         Resolve(p, <<"local", 1>>) # Null
  PROVE  Resolve(p, <<"local", 1>>) = TypeType
<1>1. p \in Packages
  BY DEF Inv, Shape, Elements
<1>2. 1 \in 1..NumBuiltIns /\ 1 \in DOMAIN pkg[p].locals
  BY <1>1, FileAssumption, PackageAssumption DEF Inv, Shape
<1> DEFINE s == pkg[p].locals[1]
           name == Local(CoreDomain, 1).name
<1>3. Resolve(p, <<"local", 1>>) = s.object
  BY DEF Resolve
<1>4. s.object \in Objects /\ Live(s.object) /\ NameOf(s.object) = name
  BY <1>2, <1>3 DEF PlacesInv, MadeInv, Made, SymbolName
<1>5. name \in Unshared /\ gst[name] = <<BuiltIn, 1>> /\ gst[name] # Null
  <2>1. name \in Unshared /\ gst[name] = <<BuiltIn, 1>>
    BY <1>2, BuiltInNamed DEF PlacesInv
  <2>2. <<BuiltIn, 1>> \in Objects
    BY <1>2, BuiltInsAre DEF BuiltIns
  <2> QED
    BY <2>1, <2>2, PackageAssumption
<1>6. ~obj[s.object].unread
  <2>1. CASE s.duplicate
    BY <1>2, <1>3, <2>1 DEF PlacesInv, MadeInv, Made
  <2>2. CASE ~s.duplicate
    <3>1. SymbolOK(p, 1)
      BY <1>2 DEF Inv, SymbolsInv
    <3> QED
      BY <1>3, <1>5, <2>2, <3>1 DEF SymbolOK, SymbolName
  <2> QED
    BY <2>1, <2>2
<1> QED
  BY <1>3, <1>4, <1>5, <1>6 DEF Inv, GlobalsInv, TypeType

-----------------------------------------------------------------------------
(***************************************************************************)
(* Symbols and imports of packages under way.                              *)
(***************************************************************************)

\* The object stays what it is, and what has been read is not unread again.
Kept(o) ==
  /\ obj'[o].of = obj[o].of
  /\ obj'[o].type = obj[o].type
  /\ obj'[o].unread => obj[o].unread

LEMMA MadeKept ==
  ASSUME NEW p, NEW k, Made(p, k),
         pkg'[p].locals[k] = pkg[p].locals[k], pkg'[p].domain = pkg[p].domain,
         LET o == pkg[p].locals[k].object IN o \in Objects /\ Live(o) => Kept(o)
  PROVE  Made(p, k)'
<1> DEFINE s == pkg[p].locals[k]
           o == s.object
<1>1. SymbolName(p, k)' = SymbolName(p, k)
  BY DEF SymbolName
<1>2. o # Null => /\ o \in Objects /\ Live(o)' /\ NameOf(o)' = NameOf(o)
                  /\ obj'[o].type = obj[o].type /\ (obj'[o].unread => obj[o].unread)
  BY DEF Made, Kept, Live, NameOf, SymbolOf
<1> QED
  BY <1>1, <1>2 DEF Made

LEMMA ImportedKept ==
  ASSUME NEW p, NEW i, Imported(p, i),
         pkg'[p].imports[i] = pkg[p].imports[i], pkg'[p].domain = pkg[p].domain,
         LET o == pkg[p].imports[i] IN o \in Objects /\ Live(o) => Kept(o)
  PROVE  Imported(p, i)'
  BY DEF Imported, Kept, Live, NameOf, SymbolOf

\* A step that leaves the lists of packages under way alone, and what they
\* refer to.
LEMMA PlacesKept ==
  ASSUME PlacesInv, Elements(unloaded') \subseteq Elements(unloaded),
         \A p \in Elements(unloaded') :
           /\ pkg'[p].domain = pkg[p].domain /\ pkg'[p].pending = pkg[p].pending
           /\ pkg'[p].locals = pkg[p].locals /\ pkg'[p].imports = pkg[p].imports
           /\ DOMAIN pkg'[p].arrays = DOMAIN pkg[p].arrays
           /\ \A k \in DOMAIN pkg[p].locals :
                LET o == pkg[p].locals[k].object IN o \in Objects /\ Live(o) => Kept(o)
           /\ \A i \in DOMAIN pkg[p].imports :
                LET o == pkg[p].imports[i] IN o \in Objects /\ Live(o) => Kept(o),
         \A b \in BuiltIns : Kept(b)
  PROVE  PlacesInv'
<1>1. BuiltInsInv'
  BY DEF PlacesInv, BuiltInsInv, Kept
<1>2. ListsInv'
  BY DEF PlacesInv, ListsInv
<1>3. MadeInv'
  <2> SUFFICES ASSUME NEW p \in Elements(unloaded'), NEW k \in DOMAIN pkg'[p].locals
               PROVE  Made(p, k)'
    BY DEF MadeInv
  <2>1. p \in Elements(unloaded) /\ k \in DOMAIN pkg[p].locals
    OBVIOUS
  <2>2. Made(p, k)
    BY <2>1 DEF PlacesInv, MadeInv
  <2> QED
    BY <2>1, <2>2, MadeKept
<1>4. ImportsInv'
  <2> SUFFICES ASSUME NEW p \in Elements(unloaded'), NEW i \in DOMAIN pkg'[p].imports
               PROVE  Imported(p, i)'
    BY DEF ImportsInv
  <2>1. p \in Elements(unloaded) /\ i \in DOMAIN pkg[p].imports
    OBVIOUS
  <2>2. Imported(p, i)
    BY <2>1 DEF PlacesInv, ImportsInv
  <2> QED
    BY <2>1, <2>2, ImportedKept
<1> QED
  BY <1>1, <1>2, <1>3, <1>4 DEF PlacesInv

LEMMA RestPlaces ==
  ASSUME Inv, PlacesInv, Rest
  PROVE  PlacesInv'
<1>1. Elements(unloaded') \subseteq Elements(unloaded)
  BY NoneUnderWay DEF Rest
<1>2. \A o \in Objects : Kept(o)
  BY DEF Rest, SameObjects, Kept
<1>3. \A b \in BuiltIns : Kept(b)
  BY <1>2, BuiltInsAre
<1> QED
  BY <1>1, <1>2, <1>3, PlacesKept DEF Rest

LEMMA ReadPlaces ==
  ASSUME Inv, PlacesInv, NEW c \in LocalSlots, DeserializeObject(c)
  PROVE  PlacesInv'
<1>1. PICK p, k : p = unloaded[c[1]] /\ k = c[2]
  OBVIOUS
<1>0. ReadsOne(p, k)
  BY <1>1, ReadFrame
<1>2. \A o \in Objects : Kept(o)
  BY <1>0 DEF ReadsOne, Kept
<1>3. \A b \in BuiltIns : Kept(b)
  BY <1>2, BuiltInsAre
<1>4. pkg' = pkg /\ unloaded' = unloaded
  BY <1>0 DEF ReadsOne
<1> QED
  BY <1>2, <1>3, <1>4, PlacesKept

LEMMA CollectPlaces ==
  ASSUME Inv, PlacesInv, CollectGarbage
  PROVE  PlacesInv'
<1>1. \A o : obj'[o] = obj[o] => Kept(o)
  BY DEF Kept
<1>2. \A b \in BuiltIns : Kept(b)
  BY <1>1, BuiltInsAre, CollectFrame
<1> QED
  BY <1>1, <1>2, CollectFrame, PlacesKept

LEMMA OpenedPlaces ==
  ASSUME Inv, PlacesInv, NEW d, NEW p \in Packages, Opened(d, p)
  PROVE  PlacesInv'
<1> DEFINE new == NewPackage(d)
<1>1. /\ new.domain = d /\ new.pending
      /\ DOMAIN new.locals = DOMAIN Files[d].locals
      /\ \A k \in DOMAIN new.locals : new.locals[k] = NewLocal
      /\ DOMAIN new.imports = DOMAIN Files[d].imports
      /\ \A i \in DOMAIN new.imports : new.imports[i] = Null
      /\ DOMAIN new.arrays = DOMAIN Files[d].arrays
  BY DEF NewPackage, NoPackage, Nulls
<1>2. /\ pkg'[p] = new
      /\ \A q \in Packages : q # p => pkg'[q] = pkg[q]
      /\ obj' = obj
      /\ Elements(unloaded') \subseteq Elements(unloaded) \cup {p}
      /\ Elements(unloaded) \subseteq Packages \ {p}
  BY OpenedFrame
<1> HIDE DEF new
<1>3. \A o : Kept(o)
  BY <1>2 DEF Kept
<1>4. BuiltInsInv'
  BY <1>2 DEF PlacesInv, BuiltInsInv
<1>5. ASSUME NEW q \in Elements(unloaded'), q # p
      PROVE  q \in Elements(unloaded) /\ pkg'[q] = pkg[q]
  BY <1>2, <1>5
<1>6. ListsInv'
  BY <1>1, <1>2, <1>5 DEF PlacesInv, ListsInv
<1>7. MadeInv'
  <2> SUFFICES ASSUME NEW q \in Elements(unloaded'), NEW k \in DOMAIN pkg'[q].locals
               PROVE  Made(q, k)'
    BY DEF MadeInv
  <2>1. CASE q = p
    <3>1. pkg'[q].locals[k] = NewLocal
      BY <1>1, <1>2, <2>1
    <3> QED
      BY <3>1, PackageAssumption DEF Made, NewLocal
  <2>2. CASE q # p
    <3>1. q \in Elements(unloaded) /\ pkg'[q] = pkg[q]
      BY <1>5, <2>2
    <3>2. Made(q, k)
      BY <3>1 DEF PlacesInv, MadeInv
    <3> QED
      BY <1>3, <3>1, <3>2, MadeKept
  <2> QED
    BY <2>1, <2>2
<1>8. ImportsInv'
  <2> SUFFICES ASSUME NEW q \in Elements(unloaded'), NEW i \in DOMAIN pkg'[q].imports
               PROVE  Imported(q, i)'
    BY DEF ImportsInv
  <2>1. CASE q = p
    BY <1>1, <1>2, <2>1 DEF Imported
  <2>2. CASE q # p
    <3>1. q \in Elements(unloaded) /\ pkg'[q] = pkg[q]
      BY <1>5, <2>2
    <3>2. Imported(q, i)
      BY <3>1 DEF PlacesInv, ImportsInv
    <3> QED
      BY <1>3, <3>1, <3>2, ImportedKept
  <2> QED
    BY <2>1, <2>2
<1> QED
  BY <1>4, <1>6, <1>7, <1>8 DEF PlacesInv

\* What becomes of the symbol k of the package p.
Becomes(p, k, new, creates, initial) ==
  LET s == pkg[p].locals[k]
      name == SymbolName(p, k)
  IN /\ s.type # Null => new.type = s.type
     /\ s.type = Null => new.type = Resolve(p, Local(pkg[p].domain, k).type)
     /\ s.object # Null => /\ new.object = s.object
                           /\ (new.duplicate <=> s.duplicate) /\ ~creates
     /\ s.object = Null /\ ~creates =>
          \/ new.object = Null
          \/ new.object # Null /\ new.object = gst[name] /\ new.duplicate /\ name # Null
     /\ creates => /\ s.object = Null /\ new.object = <<p, k>> /\ new.type # Null
                   /\ ~new.duplicate \/ s.duplicate
                   /\ initial.type = new.type /\ initial.of = pkg[p].domain

LEMMA SymbolHereHas ==
  ASSUME NEW c, NEW p, p = unloaded[c[1]], NEW k, k = c[2],
         NEW new, new = SymbolHere(Here(c)), NEW creates, creates = CreatesHere(Here(c))
  PROVE  Becomes(p, k, new, creates, InitialObject(Here(c)))
<1> DEFINE s == pkg[p].locals[k]
           h == Here(c)
           name == SymbolName(p, k)
<1>1. h.p = p /\ h.k = k /\ h.is = s /\ h.file = Local(pkg[p].domain, k) /\ h.file.name = name
  BY DEF Here, SymbolName
<1> HIDE DEF h
<1>2. /\ new.type = TypeHere(h)
      /\ new.object = IF DuplicateHere(h) THEN gst[name]
                      ELSE IF CreatesHere(h) THEN <<p, k>> ELSE s.object
      /\ new.duplicate <=> s.duplicate \/ DuplicateHere(h)
  BY <1>1 DEF SymbolHere, h
<1>3. /\ DuplicateHere(h) <=> s.object = Null /\ ~s.checked /\ name # Null /\ gst[name] # Null
      /\ CreatesHere(h) => s.object = Null /\ ~DuplicateHere(h) /\ TypeHere(h) # Null
  BY <1>1 DEF DuplicateHere, CreatesHere, TypeReady
<1>4. InitialObject(h).of = pkg[p].domain /\ InitialObject(h).type = TypeHere(h)
  BY <1>1 DEF InitialObject, NoObject
<1>5. TypeHere(h) = IF s.type # Null THEN s.type ELSE Resolve(p, Local(pkg[p].domain, k).type)
  BY <1>1 DEF TypeHere
<1>6. creates <=> CreatesHere(h)
  BY DEF h
<1>7. InitialObject(Here(c)) = InitialObject(h)
  BY DEF h
<1> QED
  BY <1>2, <1>3, <1>4, <1>5, <1>6, <1>7 DEF Becomes

\* A symbol is the duplicate of another only where that is allowed.
LEMMA DuplicateAllowed ==
  ASSUME NEW c, CreateInitialObject(c), DuplicateHere(Here(c)),
         NEW p, p = unloaded[c[1]], NEW k, k = c[2], SymbolName(p, k) \in Unshared
  PROVE  gst[SymbolName(p, k)] \in BuiltIns
<1> DEFINE h == Here(c)
<1>1. h.file.name = SymbolName(p, k)
  BY DEF Here, SymbolName
<1> HIDE DEF h
<1>2. ErrorHere(h) = "none"
  BY DEF CreateInitialObject, h
<1>3. MayDuplicate(h)
  BY <1>2 DEF ErrorHere, h
<1> QED
  BY <1>1, <1>3 DEF MayDuplicate, Unshared

LEMMA CreatePlaces ==
  ASSUME Inv, PlacesInv, NEW c \in LocalSlots, CreateInitialObject(c)
  PROVE  PlacesInv'
<1>1. PICK p, k : p = unloaded[c[1]] /\ k = c[2]
  OBVIOUS
<1>2. PICK new : new = SymbolHere(Here(c))
  OBVIOUS
<1>3. PICK creates : creates = CreatesHere(Here(c))
  OBVIOUS
<1> DEFINE s == pkg[p].locals[k]
           d == pkg[p].domain
           ref == Local(d, k).type
           name == SymbolName(p, k)
           initial == InitialObject(Here(c))
<1>4. /\ p \in Elements(unloaded) /\ p \in Packages /\ k \in DOMAIN pkg[p].locals
      /\ \A q \in Packages :
           /\ pkg'[q].domain = pkg[q].domain /\ pkg'[q].pending = pkg[q].pending
           /\ pkg'[q].imports = pkg[q].imports /\ pkg'[q].arrays = pkg[q].arrays
           /\ DOMAIN pkg'[q].locals = DOMAIN pkg[q].locals
           /\ \A j \in DOMAIN pkg[q].locals :
                pkg'[q].locals[j] = IF q = p /\ j = k THEN new ELSE pkg[q].locals[j]
      /\ gst' = gst /\ unloaded' = unloaded
      /\ creates => obj'[<<p, k>>] = initial /\ s.object = Null
      /\ \A o \in Objects : Live(o) => obj'[o] = obj[o]
      /\ ~creates => obj' = obj
  BY <1>1, <1>2, <1>3, CreateFrame
<1>5. /\ s.type # Null => new.type = s.type
      /\ s.type = Null => new.type = Resolve(p, ref)
      /\ s.object # Null => /\ new.object = s.object
                            /\ (new.duplicate <=> s.duplicate) /\ ~creates
      /\ s.object = Null /\ ~creates =>
           \/ new.object = Null
           \/ new.object # Null /\ new.object = gst[name] /\ new.duplicate /\ name # Null
      /\ creates => /\ s.object = Null /\ new.object = <<p, k>> /\ new.type # Null
                    /\ ~new.duplicate \/ s.duplicate
                    /\ initial.type = new.type /\ initial.of = d
  <2>1. Becomes(p, k, new, creates, initial)
    BY <1>1, <1>2, <1>3, SymbolHereHas
  <2> HIDE DEF initial
  <2> QED
    BY <2>1 DEF Becomes
<1> HIDE DEF initial
<1>6. Made(p, k)
  BY <1>4 DEF PlacesInv, MadeInv
<1>7. /\ d \in DOMAIN Files /\ d # Null /\ k \in DOMAIN Files[d].locals
      /\ name \in Names \cup {Null} /\ <<p, k>> \in Objects
      /\ IsReference(ref, d)
      /\ IsBuiltIn(d, k) => ref = <<"local", 1>>
  <2>1. /\ d \in DOMAIN Files /\ d # Null /\ k \in DOMAIN Files[d].locals
        /\ name \in Names \cup {Null} /\ <<p, k>> \in Objects
    BY <1>4, ObjectsOf, PackageAssumption DEF Inv, LoadingInv
  <2> QED
    BY <2>1, FileAssumption, BuiltInAssumption DEF IsBuiltIn
<1>8. \A o \in Objects : Live(o) => Kept(o)
  BY <1>4 DEF Kept
<1>9. BuiltInsInv'
  <2> SUFFICES ASSUME NEW b \in BuiltIns
               PROVE  obj'[b].of = CoreDomain /\ obj'[b].type = TypeType /\ ~obj'[b].unread
    BY DEF BuiltInsInv
  <2>1. b \in Objects /\ obj[b].of = CoreDomain /\ obj[b].type = TypeType /\ ~obj[b].unread
    BY BuiltInsAre DEF PlacesInv, BuiltInsInv
  <2>2. Live(b)
    BY <2>1, PackageAssumption DEF Live
  <2> QED
    BY <1>4, <2>1, <2>2
<1>10. ListsInv'
  <2>1. Elements(unloaded) \subseteq Packages
    BY DEF Inv, Shape, Elements
  <2> QED
    BY <1>4, <2>1 DEF PlacesInv, ListsInv
<1>11. new.type \in Critical => KnownEarly(d, ref)
  <2>1. CASE s.type # Null
    BY <1>5, <1>6, <2>1 DEF Made
  <2>2. CASE s.type = Null
    BY <1>4, <1>5, <1>7, <2>2, ResolvedEarly
  <2> QED
    BY <2>1, <2>2
<1>12. IsBuiltIn(d, k) => new.type \in {TypeType, Null}
  <2>1. CASE s.type # Null
    BY <1>5, <1>6, <2>1 DEF Made
  <2>2. CASE s.type = Null
    BY <1>4, <1>5, <1>7, <2>2, ResolvedType DEF IsBuiltIn
  <2> QED
    BY <2>1, <2>2
<1>13. Made(p, k)'
  <2>1. pkg'[p].locals[k] = new /\ SymbolName(p, k)' = name /\ pkg'[p].domain = d
    BY <1>4 DEF SymbolName
  <2>2. CASE s.object # Null
    <3>1. s.object \in Objects /\ Live(s.object) /\ NameOf(s.object) = name
      BY <1>6, <2>2 DEF Made
    <3>2. obj'[s.object] = obj[s.object]
      BY <1>4, <3>1
    <3>3. Live(s.object)' /\ NameOf(s.object)' = name
      <4>1. pkg'[p].locals[k].object = s.object
        BY <1>5, <2>1, <2>2
      <4> QED
        BY <3>1, <3>2, <4>1 DEF Live, NameOf, SymbolOf
    <3>4. ~s.duplicate => s.type # Null
      BY <1>6, <2>2 DEF Made
    <3> QED
      BY <1>5, <1>6, <1>11, <1>12, <2>1, <2>2, <3>1, <3>2, <3>3, <3>4 DEF Made
  <2>3. CASE s.object = Null /\ new.object = Null
    <3>1. ~new.duplicate
      <4>1. ~s.duplicate
        BY <1>6, <2>3 DEF Made
      <4>2. ~creates /\ ~DuplicateHere(Here(c))
        <5>1. <<p, k>> # Null
          BY <1>7, PackageAssumption
        <5>2. new.object = IF DuplicateHere(Here(c)) THEN gst[name]
                           ELSE IF creates THEN <<p, k>> ELSE s.object
          BY <1>1, <1>2, <1>3 DEF SymbolHere, Here, SymbolName
        <5>3. DuplicateHere(Here(c)) => gst[name] # Null
          BY <1>1 DEF DuplicateHere, Here, SymbolName
        <5> QED
          BY <2>3, <5>1, <5>2, <5>3
      <4> QED
        BY <1>1, <1>2, <4>1, <4>2 DEF SymbolHere, Here
    <3> QED
      BY <1>11, <1>12, <2>1, <2>3, <3>1 DEF Made
  <2>4. CASE s.object = Null /\ ~creates /\ new.object # Null
    <3>1. new.object = gst[name] /\ new.duplicate /\ name # Null /\ name \in Names
      BY <1>5, <1>7, <2>4
    <3>2. /\ new.object \in Objects /\ Live(new.object) /\ ~obj[new.object].unread
          /\ NameOf(new.object) = name
      BY <2>4, <3>1 DEF Inv, Shape, GlobalsInv, GlobalsRead
    <3>3. obj'[new.object] = obj[new.object]
      BY <1>4, <3>2
    <3>4. Live(new.object)' /\ NameOf(new.object)' = name
      BY <3>2, <3>3 DEF Live, NameOf, SymbolOf
    <3>5. name \in Unshared => new.object \in BuiltIns
      <4>1. DuplicateHere(Here(c))
        <5>1. new.object = IF DuplicateHere(Here(c)) THEN gst[name]
                           ELSE IF creates THEN <<p, k>> ELSE s.object
          BY <1>1, <1>2, <1>3 DEF SymbolHere, Here, SymbolName
        <5> QED
          BY <2>4, <5>1
      <4> QED
        BY <1>1, <3>1, <4>1, DuplicateAllowed
    <3> QED
      BY <1>11, <1>12, <2>1, <2>4, <3>1, <3>2, <3>3, <3>4, <3>5 DEF Made
  <2>5. CASE creates
    <3>1. obj'[<<p, k>>] = initial /\ new.object = <<p, k>> /\ ~new.duplicate /\ new.type # Null
      BY <1>4, <1>5, <1>6, <2>5 DEF Made
    <3>2. Live(<<p, k>>)' /\ NameOf(<<p, k>>)' = name
      BY <1>5, <1>7, <2>5, <3>1 DEF Live, NameOf, SymbolOf, SymbolName
    <3>3. obj'[<<p, k>>].type = new.type
      BY <1>5, <2>5, <3>1
    <3> QED
      BY <1>7, <1>11, <1>12, <2>1, <3>1, <3>2, <3>3 DEF Made
  <2> QED
    BY <2>2, <2>3, <2>4, <2>5
<1>14. MadeInv'
  <2> SUFFICES ASSUME NEW q \in Elements(unloaded'), NEW j \in DOMAIN pkg'[q].locals
               PROVE  Made(q, j)'
    BY DEF MadeInv
  <2>1. q \in Elements(unloaded) /\ q \in Packages /\ j \in DOMAIN pkg[q].locals
    BY <1>4 DEF Inv, Shape, Elements
  <2>2. CASE q = p /\ j = k
    BY <1>13, <2>2
  <2>3. CASE ~(q = p /\ j = k)
    <3>1. pkg'[q].locals[j] = pkg[q].locals[j] /\ pkg'[q].domain = pkg[q].domain
      BY <1>4, <2>1, <2>3
    <3>2. Made(q, j)
      BY <2>1 DEF PlacesInv, MadeInv
    <3> QED
      BY <1>8, <3>1, <3>2, MadeKept
  <2> QED
    BY <2>2, <2>3
<1>15. ImportsInv'
  <2> SUFFICES ASSUME NEW q \in Elements(unloaded'), NEW i \in DOMAIN pkg'[q].imports
               PROVE  Imported(q, i)'
    BY DEF ImportsInv
  <2>1. q \in Elements(unloaded) /\ q \in Packages
    BY <1>4 DEF Inv, Shape, Elements
  <2>2. pkg'[q].imports = pkg[q].imports /\ pkg'[q].domain = pkg[q].domain
    BY <1>4, <2>1
  <2>3. Imported(q, i)
    BY <2>1, <2>2 DEF PlacesInv, ImportsInv
  <2> QED
    BY <1>8, <2>2, <2>3, ImportedKept
<1> QED
  BY <1>9, <1>10, <1>14, <1>15 DEF PlacesInv

\* The loop over the packages under way comes to one of those that export a name
\* first.
LEMMA FirstExport ==
  ASSUME Shape, NEW n, Exports(n) # {}
  PROVE  \E c \in Exports(n) : \A b \in Exports(n) : b = c \/ Before(c, b)
<1>1. ASSUME NEW c \in Exports(n)
      PROVE  c[1] \in Nat /\ c[2] \in Nat /\ c = <<c[1], c[2]>>
  <2>1. c \in LocalSlots
    BY DEF Exports
  <2>2. c[1] \in DOMAIN unloaded /\ c = <<c[1], c[2]>>
    BY <2>1 DEF LocalSlots
  <2>3. c[2] \in DOMAIN pkg[unloaded[c[1]]].locals /\ unloaded[c[1]] \in Packages
    BY <2>1, SlotFacts
  <2>4. c[2] \in 1..MaxLocals
    BY <2>3, FileAssumption DEF Shape
  <2>5. c[1] \in Nat /\ c[2] \in Nat
    BY <2>2, <2>4, PackageAssumption DEF Shape
  <2> QED
    BY <2>2, <2>5
<1> DEFINE Firsts == {c[1] : c \in Exports(n)}
<1>2. Firsts \subseteq Nat /\ Firsts # {}
  BY <1>1
<1>3. PICK i \in Firsts : \A j \in Firsts : i <= j
  BY <1>2, LeastNumber
<1> DEFINE Seconds == {c[2] : c \in {b \in Exports(n) : b[1] = i}}
<1>4. Seconds \subseteq Nat /\ Seconds # {}
  BY <1>1
<1>5. PICK k \in Seconds : \A j \in Seconds : k <= j
  BY <1>4, LeastNumber
<1>6. PICK c \in Exports(n) : c[1] = i /\ c[2] = k
  BY <1>5
<1>7. ASSUME NEW b \in Exports(n)
      PROVE  b = c \/ Before(c, b)
  <2>1. i <= b[1] /\ i \in Nat /\ k \in Nat /\ b[1] \in Nat /\ b[2] \in Nat
    BY <1>1, <1>3, <1>4, <1>5
  <2>2. b[1] = i => k <= b[2]
    BY <1>5
  <2>3. c = <<i, k>> /\ b = <<b[1], b[2]>>
    BY <1>1, <1>6
  <2> QED
    BY <1>6, <2>1, <2>2, <2>3 DEF Before
<1> QED
  BY <1>7

\* An import becomes what has its name, in the table of symbols or in a package
\* under way.
LEMMA ImportPlaces ==
  ASSUME Inv, PlacesInv, ResolveImports
  PROVE  PlacesInv'
<1>1. /\ pkg' = [q \in Packages |-> IF q \in Elements(unloaded)
                                    THEN [pkg[q] EXCEPT !.imports = Resolved(q)] ELSE pkg[q]]
      /\ unloaded' = unloaded /\ obj' = obj
  BY DEF ResolveImports
<1>2. ASSUME NEW q \in Elements(unloaded)
      PROVE  /\ q \in Packages
             /\ pkg'[q].domain = pkg[q].domain /\ pkg'[q].pending = pkg[q].pending
             /\ pkg'[q].locals = pkg[q].locals /\ pkg'[q].arrays = pkg[q].arrays
             /\ pkg'[q].imports = Resolved(q) /\ DOMAIN Resolved(q) = DOMAIN pkg[q].imports
  <2>1. q \in Packages /\ DOMAIN pkg[q] = PackageFields
    BY DEF Inv, Shape, Elements
  <2> QED
    BY <1>1, <2>1 DEF PackageFields, Resolved
<1>3. \A o : Kept(o)
  BY <1>1 DEF Kept
<1>4. BuiltInsInv' /\ ListsInv'
  BY <1>1, <1>2 DEF PlacesInv, BuiltInsInv, ListsInv
<1>5. MadeInv'
  <2> SUFFICES ASSUME NEW q \in Elements(unloaded), NEW k \in DOMAIN pkg[q].locals
               PROVE  Made(q, k)'
    BY <1>1, <1>2 DEF MadeInv
  <2>1. Made(q, k)
    BY DEF PlacesInv, MadeInv
  <2> QED
    BY <1>2, <1>3, <2>1, MadeKept
<1>6. ImportsInv'
  <2> SUFFICES ASSUME NEW q \in Elements(unloaded), NEW i \in DOMAIN pkg[q].imports
               PROVE  Imported(q, i)'
    BY <1>1, <1>2 DEF ImportsInv
  <2> DEFINE n == Files[pkg[q].domain].imports[i]
             x == pkg[q].imports[i]
  <2>1. pkg'[q].imports[i] = IF x # Null THEN x ELSE ImportPackageObject(n)
    BY <1>2 DEF Resolved
  <2>2. Imported(q, i)
    BY DEF PlacesInv, ImportsInv
  <2>3. n \in Names
    <3>1. i \in DOMAIN Files[pkg[q].domain].imports /\ pkg[q].domain \in DOMAIN Files
      BY <1>2 DEF PlacesInv, ListsInv, Inv, LoadingInv, Shape
    <3> QED
      BY <3>1, FileAssumption
  <2>4. ASSUME ImportPackageObject(n) # Null
        PROVE  LET y == ImportPackageObject(n)
               IN y \in Objects /\ Live(y) /\ NameOf(y) = n
    <3>1. CASE gst[n] # Null
      <4>1. ImportPackageObject(n) = gst[n]
        BY <3>1 DEF ImportPackageObject
      <4>2. gst[n] \in Objects
        BY <2>3, <3>1 DEF Inv, Shape
      <4>3. GlobalsRead
        BY DEF Inv, GlobalsInv
      <4>4. Live(gst[n]) /\ NameOf(gst[n]) = n
        BY <2>3, <3>1, <4>3 DEF GlobalsRead
      <4> QED
        BY <4>1, <4>2, <4>4
    <3>2. CASE gst[n] = Null
      <4> DEFINE first == CHOOSE c \in Exports(n) : \A b \in Exports(n) : b = c \/ Before(c, b)
      <4>1. /\ Exports(n) # {}
            /\ ImportPackageObject(n) = pkg[unloaded[first[1]]].locals[first[2]].object
        BY <2>4, <3>2 DEF ImportPackageObject
      <4>2. CASE \E c \in Exports(n) : \A b \in Exports(n) : b = c \/ Before(c, b)
        <5>1. first \in Exports(n)
          BY <4>2
        <5> HIDE DEF first
        <5>2. PICK r, j : r = unloaded[first[1]] /\ j = first[2]
          OBVIOUS
        <5>3. /\ r \in Elements(unloaded) /\ j \in DOMAIN pkg[r].locals
              /\ SymbolName(r, j) = n
          BY <5>1, <5>2, SlotFacts DEF Inv, Exports, SymbolName
        <5>4. Made(r, j)
          BY <5>3 DEF PlacesInv, MadeInv
        <5> QED
          BY <2>4, <4>1, <5>2, <5>3, <5>4 DEF Made
      <4>3. \E c \in Exports(n) : \A b \in Exports(n) : b = c \/ Before(c, b)
          BY <2>3, <4>1, FirstExport DEF Inv
      <4> QED
        BY <4>2, <4>3
    <3> QED
      BY <3>1, <3>2
  <2>5. pkg'[q].domain = pkg[q].domain
    BY <1>2
  <2> QED
    BY <1>1, <2>1, <2>2, <2>4, <2>5 DEF Imported, Live, NameOf, SymbolOf
<1> QED
  BY <1>4, <1>5, <1>6 DEF PlacesInv

\* Array types are neither symbols nor imports.
LEMMA ArrayPlaces ==
  ASSUME Inv, PlacesInv, NEW c \in ArraySlots, GenerateArrayDef(c)
  PROVE  PlacesInv'
<1>1. /\ \E q, k, t : pkg' = [pkg EXCEPT ![q].arrays[k] = t]
      /\ unloaded' = unloaded /\ obj' = obj
  BY DEF GenerateArrayDef
<1>2. ASSUME NEW q \in Elements(unloaded)
      PROVE  /\ pkg'[q].domain = pkg[q].domain /\ pkg'[q].pending = pkg[q].pending
             /\ pkg'[q].locals = pkg[q].locals /\ pkg'[q].imports = pkg[q].imports
             /\ DOMAIN pkg'[q].arrays = DOMAIN pkg[q].arrays
  <2>1. q \in Packages /\ DOMAIN pkg[q] = PackageFields
    BY DEF Inv, Shape, Elements
  <2> QED
    BY <1>1, <2>1 DEF PackageFields
<1>3. \A o : Kept(o)
  BY <1>1 DEF Kept
<1> QED
  BY <1>1, <1>2, <1>3, PlacesKept

LEMMA FinishPlaces ==
  ASSUME PlacesInv, FinishPackageLoad
  PROVE  PlacesInv'
<1>1. Elements(unloaded') = {} /\ obj' = obj
  BY NoneUnderWay DEF FinishPackageLoad
<1> QED
  BY <1>1 DEF PlacesInv, BuiltInsInv, ListsInv, MadeInv, ImportsInv

LEMMA PlacesStep == Inv /\ PlacesInv /\ [Next]_vars => PlacesInv'
  BY Moves, RestPlaces, OpenedPlaces, CreatePlaces, ReadPlaces, ImportPlaces, ArrayPlaces,
     CollectPlaces, FinishPlaces

LEMMA InitPlaces == Init => PlacesInv
<1> SUFFICES ASSUME Init PROVE PlacesInv
  OBVIOUS
<1>1. Elements(unloaded) = {}
  BY NoneUnderWay DEF Init
<1>2. ASSUME NEW b \in BuiltIns
      PROVE  obj[b].of = CoreDomain /\ obj[b].type = TypeType /\ ~obj[b].unread
  <2>1. obj[b] = BuiltInObject
    BY BuiltInsAre DEF Init
  <2> QED
    BY <2>1 DEF BuiltInObject, NoObject
<1> QED
  BY <1>1, <1>2 DEF PlacesInv, BuiltInsInv, ListsInv, MadeInv, ImportsInv

-----------------------------------------------------------------------------
(***************************************************************************)
(* What is found before anything is read.                                  *)
(***************************************************************************)

EarlyPhases == {"arrays", "create arrays"} \cup LatePhases

LEMMA EarlyElsewhere ==
  ASSUME phase' \notin EarlyPhases
  PROVE  EarlyInv'
  BY DEF EarlyInv, EarlyPhases

\* A step that leaves the symbols under way alone.
LEMMA EarlyKept ==
  ASSUME Shape, EarlyInv, unloaded' = unloaded,
         \A p \in Elements(unloaded) : pkg'[p].locals = pkg[p].locals /\ pkg'[p].domain = pkg[p].domain,
         phase' \in LatePhases => phase \in LatePhases,
         phase' \in {"arrays", "create arrays"} =>
           /\ phase' = phase /\ cursor' = cursor
           /\ \A p \in Elements(unloaded) : pkg'[p].imports = pkg[p].imports,
         phase' = "create arrays" => \A p \in Elements(unloaded) : pkg'[p].arrays = pkg[p].arrays
  PROVE  EarlyInv'
<1>1. LocalSlots' = LocalSlots
  BY SlotsKept
<1>2. \A c \in LocalSlots : Early(c) => Early(c)'
  BY SlotFacts DEF Early, EarlyAt
<1>3. phase' \in {"arrays", "create arrays"} => BuiltInsImported'
  BY DEF EarlyInv, BuiltInsImported
<1>4. phase' = "create arrays" => ArraysGenerated'
  BY DEF EarlyInv, ArraysGenerated
<1>5. phase' = "create arrays" => \A c \in LocalSlots' : ~Before(cursor, c)' => Early(c)'
  <2> SUFFICES ASSUME phase' = "create arrays"
               PROVE  \A c \in LocalSlots' : ~Before(cursor, c)' => Early(c)'
    OBVIOUS
  <2>1. \A c \in LocalSlots : ~Before(cursor, c) => Early(c)
    BY DEF EarlyInv
  <2>2. \A c \in LocalSlots : Before(cursor, c)' <=> Before(cursor, c)
    BY DEF Before
  <2> QED
    BY <1>1, <1>2, <2>1, <2>2
<1>6. phase' \in LatePhases => \A c \in LocalSlots' : Early(c)'
  BY <1>1, <1>2 DEF EarlyInv
<1> QED
  BY <1>3, <1>4, <1>5, <1>6 DEF EarlyInv

\* The place of another symbol of the same package, which the loop comes to before.
LEMMA EarlierSlot ==
  ASSUME Shape, NEW c \in LocalSlots, IsNext(c, LocalSlots),
         NEW j \in DOMAIN pkg[unloaded[c[1]]].locals,
         j \in Nat, c[2] \in Nat, j < c[2]
  PROVE  <<c[1], j>> \in LocalSlots /\ ~Before(cursor, <<c[1], j>>)
<1>1. c[1] \in DOMAIN unloaded /\ c[1] \in Nat
  BY DEF LocalSlots, Shape
<1>2. <<c[1], j>> \in LocalSlots
  BY <1>1 DEF LocalSlots
<1>3. <<c[1], j>> # c /\ ~Before(c, <<c[1], j>>)
  BY <1>1 DEF Before
<1> QED
  BY <1>2, <1>3 DEF IsNext

\* The built-in objects come first in their file.
LEMMA BuiltInsFirst ==
  ASSUME NEW d, NEW j, NEW k \in 1..MaxLocals, IsBuiltIn(d, j), ~IsBuiltIn(d, k)
  PROVE  j \in Nat /\ k \in Nat /\ j < k
<1>1. j \in 1..NumBuiltIns /\ k \notin 1..NumBuiltIns
  BY DEF IsBuiltIn
<1>2. NumBuiltIns \in Nat /\ MaxLocals \in Nat
  BY FileAssumption, PackageAssumption
<1> QED
  BY <1>1, <1>2

\* What a round of CreateInitialObjects does, in which every symbol before the
\* cursor has been found.
LEMMA FoundEarly ==
  ASSUME Inv, PlacesInv, BuiltInsImported, ArraysGenerated,
         \A b \in LocalSlots : ~Before(cursor, b) => Early(b),
         NEW c \in LocalSlots, CreateInitialObject(c),
         NEW p, p = unloaded[c[1]], NEW k, k = c[2],
         NEW new, new = SymbolHere(Here(c))
  PROVE  LET d == pkg[p].domain
         IN /\ IsBuiltIn(d, k) => new.object # Null
            /\ ~IsBuiltIn(d, k) /\ KnownEarly(d, Local(d, k).type) => new.type # Null
            /\ new.type \in Critical => new.object # Null
<1> DEFINE s == pkg[p].locals[k]
           d == pkg[p].domain
           ref == Local(d, k).type
           name == SymbolName(p, k)
           h == Here(c)
<1>1. /\ p \in Elements(unloaded) /\ p \in Packages /\ k \in DOMAIN pkg[p].locals
      /\ c[1] \in DOMAIN unloaded /\ c = <<c[1], c[2]>>
  <2>1. p \in Elements(unloaded) /\ p \in Packages /\ k \in DOMAIN pkg[p].locals
    BY SlotFacts DEF Inv
  <2> QED
    BY <2>1 DEF LocalSlots
<1>2. /\ d \in DOMAIN Files /\ DOMAIN pkg[p].locals = DOMAIN Files[d].locals
      /\ DOMAIN pkg[p].imports = DOMAIN Files[d].imports
      /\ DOMAIN pkg[p].arrays = DOMAIN Files[d].arrays
      /\ IsReference(ref, d) /\ k \in 1..MaxLocals /\ <<p, k>> # Null
  <2>1. /\ d \in DOMAIN Files /\ DOMAIN pkg[p].locals = DOMAIN Files[d].locals
        /\ DOMAIN pkg[p].imports = DOMAIN Files[d].imports
        /\ DOMAIN pkg[p].arrays = DOMAIN Files[d].arrays
    BY <1>1 DEF Inv, Shape, LoadingInv, PlacesInv, ListsInv
  <2>2. IsReference(ref, d) /\ k \in 1..MaxLocals
    BY <1>1, <2>1, FileAssumption
  <2> QED
    BY <1>1, <2>1, <2>2, ObjectsOf DEF Inv
<1>3. PICK creates : creates = CreatesHere(h)
  OBVIOUS
<1>4. /\ s.type # Null => new.type = s.type
      /\ s.type = Null => new.type = Resolve(p, ref)
      /\ s.object # Null => new.object = s.object
      /\ creates => new.object = <<p, k>>
  <2>1. Becomes(p, k, new, creates, InitialObject(h))
    BY <1>3, SymbolHereHas
  <2> QED
    BY <2>1 DEF Becomes
<1>5. IsBuiltIn(d, k) => new.object # Null
  <2> SUFFICES ASSUME IsBuiltIn(d, k), s.object = Null PROVE new.object # Null
    BY <1>4
  <2>1. name \in Unshared /\ gst[name] = <<BuiltIn, k>>
    BY BuiltInNamed DEF IsBuiltIn, SymbolName, PlacesInv
  <2>2. gst[name] # Null
    <3>1. <<BuiltIn, k>> \in Objects
      BY BuiltInsAre DEF IsBuiltIn, BuiltIns
    <3> QED
      BY <2>1, <3>1, PackageAssumption
  <2>3. ~s.checked
    <3>1. SymbolOK(p, k)
      BY <1>1 DEF Inv, SymbolsInv
    <3> QED
      BY <2>1, <2>2, <3>1 DEF SymbolOK
  <2>4. name # Null
    BY <2>1, PackageAssumption DEF Unshared
  <2> QED
    BY <2>2, <2>3, <2>4, SymbolHereIs
<1>6. ~IsBuiltIn(d, k) /\ KnownEarly(d, ref) => new.type # Null
  <2> SUFFICES ASSUME ~IsBuiltIn(d, k), KnownEarly(d, ref), s.type = Null
               PROVE  Resolve(p, ref) # Null
    BY <1>4
  <2>1. CASE ref[1] = "array"
    <3>1. ref[2] \in DOMAIN pkg[p].arrays /\ Resolve(p, ref) = pkg[p].arrays[ref[2]]
      BY <1>2, <2>1 DEF IsReference, Resolve
    <3> QED
      BY <1>1, <3>1 DEF ArraysGenerated
  <2>2. CASE ref[1] = "import" /\ Files[d].imports[ref[2]] \in BuiltInNames
    <3>1. ref[2] \in DOMAIN pkg[p].imports /\ Resolve(p, ref) = pkg[p].imports[ref[2]]
      BY <1>2, <2>2 DEF IsReference, Resolve
    <3> QED
      BY <1>1, <2>2, <3>1 DEF BuiltInsImported
  <2>3. CASE ref[1] = "local" /\ IsBuiltIn(d, ref[2])
    <3> DEFINE b == <<c[1], ref[2]>>
    <3>1. ref[2] \in DOMAIN pkg[p].locals /\ Resolve(p, ref) = pkg[p].locals[ref[2]].object
      BY <1>2, <2>3 DEF IsReference, Resolve
    <3>2. ref[2] \in Nat /\ k \in Nat /\ ref[2] < k
      BY <1>2, <2>3, BuiltInsFirst
    <3>3. IsNext(c, LocalSlots)
      BY DEF CreateInitialObject
    <3>4. b \in LocalSlots /\ ~Before(cursor, b)
      BY <3>1, <3>2, <3>3, EarlierSlot DEF Inv
    <3>5. b[1] = c[1] /\ b[2] = ref[2]
      OBVIOUS
    <3> HIDE DEF b
    <3>6. Early(b)
      BY <3>4
    <3> QED
      BY <2>3, <3>1, <3>5, <3>6 DEF Early, EarlyAt
  <2> QED
    BY <2>1, <2>2, <2>3 DEF KnownEarly
<1>7. new.type \in Critical => new.object # Null
  <2> SUFFICES ASSUME new.type \in Critical, s.object = Null PROVE new.object # Null
    BY <1>4
  <2>1. /\ h.is = s /\ h.file.name = name /\ new.type = TypeHere(h)
        /\ new.object = IF DuplicateHere(h) THEN gst[name]
                        ELSE IF CreatesHere(h) THEN <<p, k>> ELSE s.object
    BY DEF Here, SymbolName, SymbolHere
  <2> HIDE DEF h
  <2>2. DuplicateHere(h) => gst[name] # Null
    BY <2>1 DEF DuplicateHere
  <2>3. TypeIsRead(new.type) /\ new.type # Null
    <3>1. CASE new.type \in BuiltIns
      BY <3>1, PackageAssumption DEF TypeIsRead, PlacesInv, BuiltInsInv
    <3>2. CASE \E o \in BuiltIns : new.type = ArrayType(o)
      BY <3>2, PackageAssumption DEF TypeIsRead, IsArrayType, ArrayType
    <3> QED
      BY <3>1, <3>2, BuiltInAssumption
  <2>4. ~DuplicateHere(h) => CreatesHere(h)
    BY <2>1, <2>3 DEF CreatesHere, TypeReady
  <2> QED
    BY <1>2, <2>1, <2>2, <2>4
<1> QED
  BY <1>5, <1>6, <1>7

\* A step of CreateInitialObjects.
LEMMA EarlyCreate ==
  ASSUME Inv, PlacesInv, EarlyInv, NEW c \in LocalSlots, CreateInitialObject(c)
  PROVE  EarlyInv'
<1>1. PICK p, k : p = unloaded[c[1]] /\ k = c[2]
  OBVIOUS
<1>2. PICK new : new = SymbolHere(Here(c))
  OBVIOUS
<1>0. PICK creates : creates = CreatesHere(Here(c))
  OBVIOUS
<1> DEFINE initial == InitialObject(Here(c))
<1>3. /\ p \in Elements(unloaded) /\ p \in Packages /\ k \in DOMAIN pkg[p].locals
      /\ \A q \in Packages :
           /\ pkg'[q].domain = pkg[q].domain /\ pkg'[q].pending = pkg[q].pending
           /\ pkg'[q].imports = pkg[q].imports /\ pkg'[q].arrays = pkg[q].arrays
           /\ DOMAIN pkg'[q].locals = DOMAIN pkg[q].locals
           /\ \A j \in DOMAIN pkg[q].locals :
                pkg'[q].locals[j] = IF q = p /\ j = k THEN new ELSE pkg[q].locals[j]
      /\ gst' = gst /\ unloaded' = unloaded
      /\ creates => obj'[<<p, k>>] = initial /\ pkg[p].locals[k].object = Null
      /\ \A o \in Objects : Live(o) => obj'[o] = obj[o]
      /\ ~creates => obj' = obj
  BY <1>0, <1>1, <1>2, CreateFrame
<1> HIDE DEF initial
<1>4. phase' = phase /\ cursor' = c /\ IsNext(c, LocalSlots)
  BY DEF CreateInitialObject
<1>5. LocalSlots' = LocalSlots /\ Elements(unloaded) \subseteq Packages
  <2>1. \A i \in DOMAIN unloaded : unloaded[i] \in Packages
    BY DEF Inv, Shape
  <2>2. \A i \in DOMAIN unloaded : DOMAIN pkg'[unloaded[i]].locals = DOMAIN pkg[unloaded[i]].locals
    BY <1>3, <2>1
  <2> QED
    BY <1>3, <2>1, <2>2 DEF LocalSlots, Elements
<1>6. ASSUME NEW b \in LocalSlots, Early(b), ~(unloaded[b[1]] = p /\ b[2] = k)
      PROVE  Early(b)'
  <2>1. unloaded[b[1]] \in Packages /\ b[2] \in DOMAIN pkg[unloaded[b[1]]].locals
    BY SlotFacts DEF Inv
  <2> QED
    BY <1>3, <1>6, <2>1 DEF Early, EarlyAt
<1>7. pkg'[p].locals[k] = new /\ pkg'[p].domain = pkg[p].domain
  BY <1>3
<1>8. CASE phase = "create arrays"
  <2>0. /\ BuiltInsImported /\ ArraysGenerated
        /\ \A b \in LocalSlots : ~Before(cursor, b) => Early(b)
    BY <1>8 DEF EarlyInv
  <2>1. EarlyAt(p, k)'
    BY <1>1, <1>2, <1>7, <2>0, FoundEarly DEF EarlyAt
  <2>2. ASSUME NEW b \in LocalSlots, ~Before(c, b)
        PROVE  Early(b)'
    <3>1. CASE unloaded[b[1]] = p /\ b[2] = k
      BY <1>3, <2>1, <3>1 DEF Early
    <3>2. CASE ~(unloaded[b[1]] = p /\ b[2] = k)
      <4>1. b = c \/ ~Before(cursor, b)
        BY <1>4, <2>2 DEF IsNext
      <4>2. Early(b)
        BY <1>1, <2>0, <3>2, <4>1
      <4> QED
        BY <1>6, <3>2, <4>2
    <3> QED
      BY <3>1, <3>2
  <2>3. BuiltInsImported' /\ ArraysGenerated'
    BY <1>3, <1>5, <2>0 DEF BuiltInsImported, ArraysGenerated
  <2> QED
    BY <1>4, <1>5, <1>8, <2>2, <2>3 DEF EarlyInv, LatePhases, Before
<1>9. CASE phase = "create"
  <2>1. \A b \in LocalSlots : Early(b)
    BY <1>9 DEF EarlyInv, LatePhases
  <2>2. EarlyAt(p, k)
    BY <1>1, <2>1 DEF Early
  <2>3. EarlyAt(p, k)'
    <3> DEFINE s == pkg[p].locals[k]
               d == pkg[p].domain
    <3>2. /\ s.type # Null => new.type = s.type
          /\ s.type = Null => new.type = Resolve(p, Local(d, k).type)
          /\ s.object # Null => new.object = s.object
      <4>1. Becomes(p, k, new, creates, InitialObject(Here(c)))
        BY <1>0, <1>1, <1>2, SymbolHereHas
      <4> QED
        BY <4>1 DEF Becomes
    <3>3. IsReference(Local(d, k).type, d)
      BY <1>3, FileAssumption DEF Inv, Shape, LoadingInv
    <3>4. new.type \in Critical /\ s.type = Null => KnownEarly(d, Local(d, k).type)
      BY <1>3, <3>2, <3>3, ResolvedEarly
    <3> QED
      BY <1>7, <2>2, <3>2, <3>4 DEF EarlyAt
  <2>4. \A b \in LocalSlots : Early(b)'
    BY <1>3, <1>6, <2>1, <2>3 DEF Early
  <2> QED
    BY <1>4, <1>5, <1>9, <2>4 DEF EarlyInv
<1>10. CASE phase = "create critical"
  BY <1>4, <1>10, EarlyElsewhere DEF EarlyPhases, LatePhases
<1> QED
  BY <1>8, <1>9, <1>10 DEF CreateInitialObject

\* Names of built-in objects are always found.
LEMMA EarlyImports ==
  ASSUME Inv, PlacesInv, EarlyInv, ResolveImports
  PROVE  EarlyInv'
<1>1. /\ pkg' = [q \in Packages |-> IF q \in Elements(unloaded)
                                    THEN [pkg[q] EXCEPT !.imports = Resolved(q)] ELSE pkg[q]]
      /\ unloaded' = unloaded
      /\ \/ phase \in LatePhases /\ phase' \in LatePhases
         \/ phase' = "create critical"
         \/ phase' = "arrays"
  BY DEF ResolveImports, EnterPhase, LatePhases
<1>2. ASSUME NEW q \in Elements(unloaded)
      PROVE  /\ q \in Packages
             /\ pkg'[q].domain = pkg[q].domain /\ pkg'[q].locals = pkg[q].locals
             /\ pkg'[q].imports = Resolved(q) /\ DOMAIN Resolved(q) = DOMAIN pkg[q].imports
  <2>1. q \in Packages /\ DOMAIN pkg[q] = PackageFields
    BY DEF Inv, Shape, Elements
  <2> QED
    BY <1>1, <2>1 DEF PackageFields, Resolved
<1>3. BuiltInsImported'
  <2> SUFFICES ASSUME NEW q \in Elements(unloaded), NEW i \in DOMAIN pkg[q].imports,
                      Files[pkg[q].domain].imports[i] \in BuiltInNames
               PROVE  Resolved(q)[i] # Null
    <3>1. \A q \in Elements(unloaded) :
            pkg'[q].domain = pkg[q].domain /\ pkg'[q].imports = Resolved(q)
      BY <1>2
    <3>2. \A q \in Elements(unloaded) : DOMAIN Resolved(q) = DOMAIN pkg[q].imports
      BY <1>2
    <3>3. Elements(unloaded)' = Elements(unloaded)
      BY <1>1
    <3> QED
      BY <3>1, <3>2, <3>3 DEF BuiltInsImported
  <2> DEFINE n == Files[pkg[q].domain].imports[i]
  <2>1. PICK k \in 1..NumBuiltIns : n = Local(CoreDomain, k).name
    BY DEF BuiltInNames
  <2>2. gst[n] = <<BuiltIn, k>>
    BY <2>1, BuiltInNamed DEF PlacesInv
  <2>3. <<BuiltIn, k>> # Null
    BY BuiltInsAre, PackageAssumption DEF BuiltIns
  <2>4. ImportPackageObject(n) # Null
    BY <2>2, <2>3 DEF ImportPackageObject
  <2> QED
    BY <2>4 DEF Resolved
<1>4. CASE phase' = "arrays"
  BY <1>3, <1>4 DEF EarlyInv, LatePhases
<1>5. CASE phase' = "create critical"
  BY <1>5, EarlyElsewhere DEF EarlyPhases, LatePhases
<1>6. CASE phase \in LatePhases /\ phase' \in LatePhases
  <2>1. phase' \notin {"arrays", "create arrays"}
    BY <1>6 DEF LatePhases
  <2> QED
    BY <1>1, <1>2, <1>6, <2>1, EarlyKept DEF Inv
<1> QED
  BY <1>1, <1>4, <1>5, <1>6

LEMMA EarlyStep == Inv /\ PlacesInv /\ EarlyInv /\ [Next]_vars => EarlyInv'
<1> SUFFICES ASSUME Inv, PlacesInv, EarlyInv, [Next]_vars PROVE EarlyInv'
  OBVIOUS
<1>0. Shape
  BY DEF Inv
<1>1. CASE \/ \E p \in Packages : OpenPackage(p)
           \/ DependenciesOpen
           \/ \E d \in Domains, p \in Packages : AddUnloadedPackageFails(d, p)
           \/ \E S \in SUBSET NewTypes : HardenStructuresInterrupted(S)
           \/ \E e : Throw(e)
           \/ FinishPackageLoad
  <2>1. phase' \in {"dependencies", "create critical", "idle"}
    BY <1>1 DEF OpenPackage, DependenciesOpen, EnterPhase, AddUnloadedPackageFails,
       HardenStructuresInterrupted, Throw, End, FinishPackageLoad
  <2> QED
    BY <2>1, EarlyElsewhere DEF EarlyPhases, LatePhases
<1>2. CASE \E c \in ImportSlots, p \in Packages : OpenDependency(c, p)
  <2>1. phase' = "dependencies"
    BY <1>2 DEF OpenDependency
  <2> QED
    BY <2>1, EarlyElsewhere DEF EarlyPhases, LatePhases
<1>3. CASE \E c \in LocalSlots : CreateInitialObject(c)
  BY <1>3, EarlyCreate
<1>4. CASE ObjectsCreated
  <2>1. pkg' = pkg /\ unloaded' = unloaded /\ LoopEnds(LocalSlots)
    BY <1>4 DEF ObjectsCreated
  <2>2. CASE phase = "create critical" /\ phase' = "import critical"
    BY <2>2, EarlyElsewhere DEF EarlyPhases, LatePhases
  <2>3. CASE phase = "create arrays" /\ phase' = "read critical"
    <3>1. \A c \in LocalSlots : Early(c)
      BY <2>1, <2>3 DEF EarlyInv, LoopEnds
    <3>2. pkg' = pkg /\ unloaded' = unloaded
      BY <2>1
    <3>3. LocalSlots' = LocalSlots
      BY <3>2 DEF LocalSlots
    <3>4. \A c \in LocalSlots : Early(c)'
      BY <3>1, <3>2 DEF Early, EarlyAt
    <3> QED
      BY <2>3, <3>3, <3>4 DEF EarlyInv
  <2>4. CASE phase = "create" /\ phase' = "import"
    <3>1. phase \in LatePhases /\ phase' \notin {"arrays", "create arrays"}
      BY <2>4 DEF LatePhases
    <3> QED
      BY <1>0, <2>1, <3>1, EarlyKept
  <2> QED
    BY <1>4, <2>2, <2>3, <2>4 DEF ObjectsCreated, EnterPhase
<1>5. CASE ResolveImports
  BY <1>5, EarlyImports
<1>6. CASE \E c \in ArraySlots : GenerateArrayDef(c)
  <2>1. /\ \E q, k, t : pkg' = [pkg EXCEPT ![q].arrays[k] = t]
        /\ unloaded' = unloaded /\ phase = "arrays" /\ phase' = phase /\ cursor' = cursor
    BY <1>6 DEF GenerateArrayDef
  <2>2. ASSUME NEW q \in Elements(unloaded)
        PROVE  /\ pkg'[q].domain = pkg[q].domain
               /\ pkg'[q].locals = pkg[q].locals /\ pkg'[q].imports = pkg[q].imports
    <3>1. q \in Packages /\ DOMAIN pkg[q] = PackageFields
      BY <1>0 DEF Shape, Elements
    <3> QED
      BY <1>0, <2>1, <3>1 DEF PackageFields, Shape
  <2>3. phase' \notin LatePhases /\ phase' # "create arrays"
    BY <2>1 DEF LatePhases
  <2> QED
    BY <1>0, <2>1, <2>2, <2>3, EarlyKept
<1>7. CASE ArrayDefsGenerated
  <2>1. /\ phase = "arrays" /\ phase' = "create arrays" /\ cursor' = Beginning
        /\ pkg' = pkg /\ unloaded' = unloaded
        /\ \A c \in ArraySlots : pkg[unloaded[c[1]]].arrays[c[2]] # Null
    BY <1>7 DEF ArrayDefsGenerated, EnterPhase
  <2>2. BuiltInsImported'
    BY <2>1 DEF EarlyInv, BuiltInsImported
  <2>3. ArraysGenerated
    <3> SUFFICES ASSUME NEW i \in DOMAIN unloaded, NEW k \in DOMAIN pkg[unloaded[i]].arrays
                 PROVE  pkg[unloaded[i]].arrays[k] # Null
      BY DEF ArraysGenerated, Elements
    <3>1. <<i, k>> \in ArraySlots
      BY DEF ArraySlots
    <3> QED
      BY <2>1, <3>1
  <2>4. LocalSlots' = LocalSlots /\ ArraysGenerated'
    <3>1. pkg' = pkg /\ unloaded' = unloaded
      BY <2>1
    <3>2. LocalSlots' = LocalSlots
      BY <3>1 DEF LocalSlots
    <3>3. ArraysGenerated'
      BY <2>3, <3>1 DEF ArraysGenerated, Elements
    <3> QED
      BY <3>2, <3>3
  <2>5. \A c \in LocalSlots' : Before(cursor, c)'
    BY <1>0, <2>1, <2>4, BeforeAll DEF Before
  <2> QED
    BY <2>1, <2>2, <2>4, <2>5 DEF EarlyInv, LatePhases
<1>8. CASE \E c \in LocalSlots : \/ DeserializeObject(c) \/ DeferObject(c)
                                 \/ ResolveDefault(c) \/ PassOver(c)
  <2>1. pkg' = pkg /\ unloaded' = unloaded /\ phase' = phase /\ phase \in {"read critical", "read"}
    BY <1>8 DEF DeserializeObject, DeferObject, ResolveDefault, PassOver, Reading
  <2>2. phase \in LatePhases /\ phase' \notin {"arrays", "create arrays"}
    BY <2>1 DEF LatePhases
  <2> QED
    BY <1>0, <2>1, <2>2, EarlyKept
<1>9. CASE ObjectsRead \/ HardenStructures \/ ValidateStructures
  <2>1. /\ pkg' = pkg /\ unloaded' = unloaded
        /\ phase \in {"read critical", "read", "harden", "validate"}
        /\ phase' \in {"read critical", "read", "harden", "create", "validate", "finish"}
    BY <1>9 DEF ObjectsRead, HardenStructures, ValidateStructures, EnterPhase
  <2>2. phase \in LatePhases /\ phase' \notin {"arrays", "create arrays"}
    BY <2>1 DEF LatePhases
  <2> QED
    BY <1>0, <2>1, <2>2, EarlyKept
<1>10. CASE CollectGarbage
  <2>1. unloaded' = unloaded /\ phase' = phase /\ cursor' = cursor
        /\ \A p \in Elements(unloaded) : pkg'[p] = pkg[p]
    BY <1>10, CollectFrame
  <2> QED
    BY <1>0, <2>1, EarlyKept
<1>11. CASE ClientStep
  <2>1. phase' \in {"open", "idle"}
    BY <1>11 DEF ClientStep, LoadPackage, LookupSymbol, LoadObject, DropRef, Start, Idle
  <2> QED
    BY <2>1, EarlyElsewhere DEF EarlyPhases, LatePhases
<1>12. CASE UNCHANGED vars
  BY <1>0, <1>12, EarlyKept DEF vars
<1>13. CASE \/ \E d \in Domains : FileMissing(d) \/ PackageAllocationFails(d)
            \/ \E c \in LocalSlots : CreateInitialObjectFails(c) \/ DefaultFails(c)
            \/ ImportsUnresolved \/ ArrayDefFails \/ UnresolvableDependency
            \/ HardenStructuresFails \/ ValidateStructuresFails \/ AllocationFails
  <2>1. \E e : Throw(e)
    BY <1>13 DEF FileMissing, PackageAllocationFails, CreateInitialObjectFails, DefaultFails,
       ImportsUnresolved, ArrayDefFails, UnresolvableDependency, HardenStructuresFails,
       ValidateStructuresFails, AllocationFails
  <2> QED
    BY <1>1, <2>1
<1> QED
  BY <1>1, <1>2, <1>3, <1>4, <1>5, <1>6, <1>7, <1>8, <1>9, <1>10, <1>11, <1>12, <1>13
  DEF Next, LoadStep

-----------------------------------------------------------------------------
(***************************************************************************)
(* What the two loops that read objects leave behind.                      *)
(***************************************************************************)

LEMMA ReadElsewhere ==
  ASSUME phase' \notin LatePhases, DOMAIN round' = DOMAIN NoRound
  PROVE  ReadInv'
  BY DEF ReadInv, LatePhases

\* The symbols under way are as they were, and their objects have not become
\* unread.
SameSymbols ==
  /\ unloaded' = unloaded
  /\ \A p \in Elements(unloaded) :
       /\ pkg'[p].locals = pkg[p].locals
       /\ \A k \in DOMAIN pkg[p].locals :
            LET o == pkg[p].locals[k].object IN o \in Objects => Kept(o)

LEMMA ReadHereKept ==
  ASSUME Inv, PlacesInv, SameSymbols
  PROVE  /\ LocalSlots' = LocalSlots
         /\ \A c \in LocalSlots : ReadHere(c) => ReadHere(c)'
         /\ \A c \in LocalSlots : CriticalReadHere(c) => CriticalReadHere(c)'
<1>1. LocalSlots' = LocalSlots
  BY SlotsKept DEF Inv, SameSymbols
<1>2. ASSUME NEW c \in LocalSlots
      PROVE  /\ ReadHere(c) => ReadHere(c)'
             /\ CriticalReadHere(c) => CriticalReadHere(c)'
  <2>1. PICK p, k : p = unloaded[c[1]] /\ k = c[2]
    OBVIOUS
  <2>2. p \in Elements(unloaded) /\ k \in DOMAIN pkg[p].locals
    BY <2>1, SlotFacts DEF Inv
  <2> DEFINE o == pkg[p].locals[k].object
  <2>3. o # Null => o \in Objects
    BY <2>2 DEF PlacesInv, MadeInv, Made
  <2>4. o \in Objects => (obj'[o].unread => obj[o].unread)
    BY <2>2 DEF SameSymbols, Kept
  <2>5. pkg'[p].locals = pkg[p].locals /\ unloaded' = unloaded
    BY <2>2 DEF SameSymbols
  <2>6. ReadHere(c) => ReadHere(c)'
    BY <2>1, <2>3, <2>4, <2>5 DEF ReadHere
  <2> QED
    BY <2>1, <2>5, <2>6 DEF CriticalReadHere
<1> QED
  BY <1>1, <1>2

\* A step within a round, or one that is none.
LEMMA ReadKept ==
  ASSUME Inv, PlacesInv, ReadInv, SameSymbols,
         phase' = phase, cursor' = cursor, round' = round
  PROVE  ReadInv'
<1>1. /\ LocalSlots' = LocalSlots
      /\ \A c \in LocalSlots : ReadHere(c) => ReadHere(c)'
      /\ \A c \in LocalSlots : CriticalReadHere(c) => CriticalReadHere(c)'
  BY ReadHereKept
<1>2. \A c \in LocalSlots : Before(cursor, c)' <=> Before(cursor, c)
  BY DEF Before
<1> QED
  BY <1>1, <1>2 DEF ReadInv

\* A loop begins.
LEMMA ReadBegins ==
  ASSUME Inv, PlacesInv, SameSymbols, phase' \notin {"validate", "finish"},
         round' = NoRound, cursor' = Beginning,
         phase' \in LatePhases \ {"read critical"} => \A c \in LocalSlots : CriticalReadHere(c)
  PROVE  ReadInv'
<1>1. /\ LocalSlots' = LocalSlots
      /\ \A c \in LocalSlots : CriticalReadHere(c) => CriticalReadHere(c)'
  BY ReadHereKept
<1>2. \A c \in LocalSlots : Before(cursor, c)'
  <2>1. \A c \in LocalSlots : Before(Beginning, c)
    BY BeforeAll DEF Inv
  <2> QED
    BY <2>1 DEF Before
<1> QED
  BY <1>1, <1>2 DEF ReadInv

\* The last round of CreateInitialObjects creates no critical object.
LEMMA ReadCreate ==
  ASSUME Inv, PlacesInv, EarlyInv, ReadInv, NEW c \in LocalSlots, CreateInitialObject(c)
  PROVE  ReadInv'
<1>1. PICK p, k : p = unloaded[c[1]] /\ k = c[2]
  OBVIOUS
<1>2. PICK new : new = SymbolHere(Here(c))
  OBVIOUS
<1>3. PICK creates : creates = CreatesHere(Here(c))
  OBVIOUS
<1> DEFINE s == pkg[p].locals[k]
           d == pkg[p].domain
           initial == InitialObject(Here(c))
<1>4. /\ p \in Elements(unloaded) /\ p \in Packages /\ k \in DOMAIN pkg[p].locals
      /\ \A q \in Packages :
           /\ pkg'[q].domain = pkg[q].domain /\ pkg'[q].pending = pkg[q].pending
           /\ pkg'[q].imports = pkg[q].imports /\ pkg'[q].arrays = pkg[q].arrays
           /\ DOMAIN pkg'[q].locals = DOMAIN pkg[q].locals
           /\ \A j \in DOMAIN pkg[q].locals :
                pkg'[q].locals[j] = IF q = p /\ j = k THEN new ELSE pkg[q].locals[j]
      /\ gst' = gst /\ unloaded' = unloaded
      /\ creates => obj'[<<p, k>>] = initial /\ s.object = Null
      /\ \A o \in Objects : Live(o) => obj'[o] = obj[o]
      /\ ~creates => obj' = obj
  BY <1>1, <1>2, <1>3, CreateFrame
<1> HIDE DEF initial
<1>5. /\ s.type # Null => new.type = s.type
      /\ s.type = Null => new.type = Resolve(p, Local(d, k).type)
      /\ s.object # Null => new.object = s.object /\ (new.duplicate <=> s.duplicate)
  <2>1. Becomes(p, k, new, creates, InitialObject(Here(c)))
    BY <1>1, <1>2, <1>3, SymbolHereHas
  <2> QED
    BY <2>1 DEF Becomes
<1>6. /\ phase \in {"create critical", "create arrays", "create"}
      /\ phase' = phase /\ DOMAIN round' = DOMAIN round
  BY DEF CreateInitialObject
<1>7. LocalSlots' = LocalSlots
  <2>1. \A i \in DOMAIN unloaded : unloaded[i] \in Packages
    BY DEF Inv, Shape
  <2>2. \A i \in DOMAIN unloaded : DOMAIN pkg'[unloaded[i]].locals = DOMAIN pkg[unloaded[i]].locals
    BY <1>4, <2>1
  <2> QED
    BY <1>4, <2>2 DEF LocalSlots
<1>8. CASE phase # "create"
  <2>1. phase' \notin LatePhases
    BY <1>6, <1>8 DEF LatePhases
  <2> QED
    BY <1>6, <2>1, ReadElsewhere DEF ReadInv
<1>9. CASE phase = "create"
  <2>1. \A b \in LocalSlots : Early(b)
    BY <1>9 DEF EarlyInv, LatePhases
  <2>2. \A b \in LocalSlots : CriticalReadHere(b)
    BY <1>9 DEF ReadInv, LatePhases
  <2>3. s.type = Null /\ new.type \in Critical => s.object # Null /\ s.duplicate
    <3> SUFFICES ASSUME s.type = Null, new.type \in Critical
                 PROVE  s.object # Null /\ s.duplicate
      OBVIOUS
    <3>1. IsReference(Local(d, k).type, d)
      BY <1>4, FileAssumption DEF Inv, Shape, LoadingInv
    <3>2. KnownEarly(d, Local(d, k).type)
      BY <1>4, <1>5, <3>1, ResolvedEarly
    <3>3. EarlyAt(p, k)
      BY <1>1, <2>1 DEF Early
    <3>4. s.object # Null
      BY <3>2, <3>3 DEF EarlyAt
    <3>5. Made(p, k)
      BY <1>4 DEF PlacesInv, MadeInv
    <3> QED
      BY <3>4, <3>5 DEF Made
  <2>4. new.type \in Critical => s.object # Null
    <3>1. EarlyAt(p, k)
      BY <1>1, <2>1 DEF Early
    <3> QED
      BY <1>5, <2>3, <3>1 DEF EarlyAt
  <2>5. ASSUME NEW b \in LocalSlots
        PROVE  CriticalReadHere(b)'
    <3>1. PICK q, j : q = unloaded[b[1]] /\ j = b[2]
      OBVIOUS
    <3>2. q \in Elements(unloaded) /\ q \in Packages /\ j \in DOMAIN pkg[q].locals
      BY <3>1, SlotFacts DEF Inv
    <3> DEFINE t == pkg[q].locals[j]
    <3>3. t.object # Null => t.object \in Objects /\ Live(t.object)
      BY <3>2 DEF PlacesInv, MadeInv, Made
    <3>4. t.object # Null => obj'[t.object] = obj[t.object]
      BY <1>4, <3>3
    <3>5. t.type \in Critical /\ t.object # Null /\ ~t.duplicate => ~obj[t.object].unread
      BY <2>2, <3>1 DEF CriticalReadHere, ReadHere
    <3>6. CASE q = p /\ j = k
      <4>1. pkg'[q].locals[j] = new
        BY <1>4, <3>6
      <4>2. new.type \in Critical /\ new.object # Null /\ ~new.duplicate =>
              t.type \in Critical /\ t.object # Null /\ ~t.duplicate /\ new.object = t.object
        BY <1>5, <2>3, <2>4, <3>6
      <4> QED
        BY <1>4, <3>1, <3>4, <3>5, <4>1, <4>2 DEF CriticalReadHere, ReadHere
    <3>7. CASE ~(q = p /\ j = k)
      <4>1. pkg'[q].locals[j] = t
        BY <1>4, <3>2, <3>7
      <4> QED
        BY <1>4, <3>1, <3>4, <3>5, <4>1 DEF CriticalReadHere, ReadHere
    <3> QED
      BY <3>6, <3>7
  <2> QED
    BY <1>6, <1>7, <1>9, <2>5 DEF ReadInv
<1> QED
  BY <1>6, <1>8, <1>9

\* A step that leaves the symbols under way, their objects and the list alone.
LEMMA Untouched ==
  ASSUME \/ UNCHANGED <<pkg, obj, unloaded>>
         \/ SameObjects /\ UNCHANGED <<pkg, unloaded>>
  PROVE  SameSymbols
<1>1. \A o \in Objects : Kept(o)
  BY DEF SameObjects, Kept
<1> QED
  BY <1>1 DEF SameSymbols

\* A step of the loop that reads the critical objects, or the others: if the
\* object at c was not put off and should be read now, it has been.
LEMMA ReadProceeds ==
  ASSUME Inv, PlacesInv, ReadInv, SameSymbols, NEW c \in LocalSlots,
         IsNext(c, LocalSlots), cursor' = c, phase' = phase,
         phase \in {"read critical", "read"},
         DOMAIN round' = DOMAIN round, round.defer => round'.defer,
         ~round'.defer => IF ReadingCritical THEN CriticalReadHere(c)' ELSE ReadHere(c)'
  PROVE  ReadInv'
<1>1. /\ LocalSlots' = LocalSlots
      /\ \A b \in LocalSlots : ReadHere(b) => ReadHere(b)'
      /\ \A b \in LocalSlots : CriticalReadHere(b) => CriticalReadHere(b)'
  BY ReadHereKept
<1>2. \A b \in LocalSlots : ~Before(cursor, b)' => b = c \/ ~Before(cursor, b)
  BY DEF IsNext, Before
<1>3. CASE phase = "read critical"
  <2>1. ASSUME NEW b \in LocalSlots, ~Before(cursor, b)', ~round'.defer
        PROVE  CriticalReadHere(b)'
    BY <1>1, <1>2, <1>3, <2>1 DEF ReadInv, ReadingCritical
  <2> QED
    BY <1>1, <1>3, <2>1 DEF ReadInv
<1>4. CASE phase = "read"
  <2>1. ASSUME NEW b \in LocalSlots, ~Before(cursor, b)', ~round'.defer
        PROVE  ReadHere(b)'
    BY <1>1, <1>2, <1>4, <2>1 DEF ReadInv, ReadingCritical
  <2>2. \A b \in LocalSlots : CriticalReadHere(b)'
    BY <1>1, <1>4 DEF ReadInv, LatePhases
  <2> QED
    BY <1>1, <1>4, <2>1, <2>2 DEF ReadInv
<1> QED
  BY <1>3, <1>4

LEMMA ReadDeserialize ==
  ASSUME Inv, PlacesInv, ReadInv, NEW c \in LocalSlots, DeserializeObject(c)
  PROVE  ReadInv'
<1>1. PICK p, k : p = unloaded[c[1]] /\ k = c[2]
  OBVIOUS
<1>2. /\ pkg[p].locals[k].object = <<p, k>> /\ <<p, k>> \in Objects
      /\ pkg' = pkg /\ unloaded' = unloaded
      /\ \A o \in Objects : Kept(o)
      /\ ~obj'[<<p, k>>].unread
  <2>1. ReadsOne(p, k)
    BY <1>1, ReadFrame
  <2> QED
    BY <2>1 DEF ReadsOne, Kept
<1>3. SameSymbols
  BY <1>2 DEF SameSymbols
<1>4. ReadHere(c)'
  BY <1>1, <1>2 DEF ReadHere
<1>5. CriticalReadHere(c)'
  BY <1>4 DEF CriticalReadHere
<1>6. /\ IsNext(c, LocalSlots) /\ cursor' = c /\ phase' = phase
      /\ phase \in {"read critical", "read"}
      /\ round' = [round EXCEPT !.any = TRUE]
  BY DEF DeserializeObject, Reading
<1>7. DOMAIN round' = DOMAIN round /\ (round.defer => round'.defer)
  <2>1. "defer" \in DOMAIN round
    BY DEF ReadInv, NoRound
  <2>2. round'.defer = round.defer
    BY <1>6, <2>1
  <2> QED
    BY <1>6, <2>2
<1> QED
  BY <1>3, <1>4, <1>5, <1>6, <1>7, ReadProceeds

\* An object is put off, or passed over since it has been read or is read in the
\* other loop.
LEMMA ReadPasses ==
  ASSUME Inv, PlacesInv, ReadInv, NEW c \in LocalSlots,
         DeferObject(c) \/ ResolveDefault(c) \/ PassOver(c)
  PROVE  ReadInv'
<1>1. /\ IsNext(c, LocalSlots) /\ cursor' = c /\ phase' = phase
      /\ phase \in {"read critical", "read"}
  BY DEF DeferObject, ResolveDefault, PassOver, Reading
<1>2. SameSymbols
  <2>1. CASE DeferObject(c) \/ PassOver(c)
    BY <2>1, Untouched DEF DeferObject, PassOver, Reading
  <2>2. CASE ResolveDefault(c)
    <3>1. SameObjects
      BY <2>2, Stages DEF Inv, Rest
    <3> QED
      BY <2>2, <3>1, Untouched DEF ResolveDefault, Reading
  <2> QED
    BY <2>1, <2>2
<1>3. CASE DeferObject(c) \/ ResolveDefault(c)
  <2>1. \/ round' = [round EXCEPT !.defer = TRUE]
        \/ \E x : round' = [round EXCEPT !.defer = TRUE, !.any = x]
    BY <1>3 DEF DeferObject, ResolveDefault
  <2>2. "defer" \in DOMAIN round
    BY DEF ReadInv, NoRound
  <2>3. DOMAIN round' = DOMAIN round /\ round'.defer
    BY <2>1, <2>2
  <2> QED
    BY <1>1, <1>2, <2>3, ReadProceeds
<1>4. CASE PassOver(c)
  <2>1. UNCHANGED <<pkg, obj, round, unloaded>> /\ ~ToBeRead(unloaded[c[1]], c[2])
    BY <1>4 DEF PassOver, Reading
  <2>2. PICK p, k : p = unloaded[c[1]] /\ k = c[2]
    OBVIOUS
  <2> DEFINE s == pkg[p].locals[k]
  <2>3. Made(p, k)
    BY <2>2, SlotFacts DEF Inv, PlacesInv, MadeInv
  <2>4. s.object # Null /\ ~s.duplicate => s.type # Null
    BY <2>3 DEF Made
  <2>5. s.object # Null /\ ~s.duplicate /\ obj[s.object].unread =>
          ~(IsCritical(p, k) <=> ReadingCritical)
    <3>1. IsCritical(p, k) \in BOOLEAN
      BY DEF IsCritical
    <3>2. ReadingCritical \in BOOLEAN
      BY DEF ReadingCritical
    <3> QED
      BY <2>1, <2>2, <2>4, <3>1, <3>2, Zenon DEF ToBeRead, IsOwn
  <2>6. ReadingCritical => CriticalReadHere(c)
    BY <2>2, <2>5 DEF CriticalReadHere, ReadHere, IsCritical
  <2>7. ~ReadingCritical => ReadHere(c)
    <3>1. ~ReadingCritical => CriticalReadHere(c)
      BY <1>1 DEF ReadInv, LatePhases, ReadingCritical
    <3>2. ~ReadingCritical /\ s.object # Null /\ ~s.duplicate /\ obj[s.object].unread =>
            IsCritical(p, k)
      BY <2>5 DEF IsCritical
    <3>3. CriticalReadHere(c) /\ s.object # Null /\ ~s.duplicate /\ IsCritical(p, k) =>
            ~obj[s.object].unread
      BY <2>2 DEF CriticalReadHere, ReadHere, IsCritical
    <3> QED
      BY <2>2, <3>1, <3>2, <3>3 DEF ReadHere
  <2>8. (CriticalReadHere(c) => CriticalReadHere(c)') /\ (ReadHere(c) => ReadHere(c)')
    BY <1>2, ReadHereKept
  <2> QED
    BY <1>1, <1>2, <2>1, <2>6, <2>7, <2>8, ReadProceeds
<1> QED
  BY <1>3, <1>4

\* The end of a loop that reads objects.
LEMMA ReadEnds ==
  ASSUME Inv, PlacesInv, ReadInv, ObjectsRead
  PROVE  ReadInv'
<1>1. SameSymbols
  BY Untouched DEF ObjectsRead
<1>2. /\ LocalSlots' = LocalSlots
      /\ \A b \in LocalSlots : ReadHere(b) => ReadHere(b)'
      /\ \A b \in LocalSlots : CriticalReadHere(b) => CriticalReadHere(b)'
  BY <1>1, ReadHereKept
<1>3. LoopEnds(LocalSlots) /\ round' = NoRound /\ cursor' = Beginning
  BY DEF ObjectsRead, EnterPhase
<1>4. CASE phase' = phase /\ phase \in {"read critical", "read"}
  <2>1. phase' \in LatePhases \ {"read critical"} => \A c \in LocalSlots : CriticalReadHere(c)
    BY <1>4 DEF ReadInv
  <2> QED
    BY <1>1, <1>3, <1>4, <2>1, ReadBegins
<1>5. CASE phase = "read critical" /\ phase' = "harden" /\ ~round.defer
  <2>1. \A c \in LocalSlots : CriticalReadHere(c)
    BY <1>3, <1>5 DEF ReadInv, LoopEnds
  <2> QED
    BY <1>1, <1>3, <1>5, <2>1, ReadBegins
<1>6. CASE phase = "read" /\ phase' = "validate" /\ ~round.defer
  <2>1. \A c \in LocalSlots : ReadHere(c) /\ CriticalReadHere(c)
    BY <1>3, <1>6 DEF ReadInv, LoopEnds, CriticalReadHere
  <2> QED
    BY <1>2, <1>3, <1>6, <2>1 DEF ReadInv
<1> QED
  BY <1>4, <1>5, <1>6 DEF ObjectsRead, EnterPhase, ReadingCritical

LEMMA ReadStep == Inv /\ PlacesInv /\ EarlyInv /\ ReadInv /\ [Next]_vars => ReadInv'
<1> SUFFICES ASSUME Inv, PlacesInv, EarlyInv, ReadInv, [Next]_vars PROVE ReadInv'
  OBVIOUS
<1>0. DOMAIN round = DOMAIN NoRound
  BY DEF ReadInv
<1>1. CASE \/ \E p \in Packages : OpenPackage(p)
           \/ DependenciesOpen
           \/ ArrayDefsGenerated
           \/ \E d \in Domains, p \in Packages : AddUnloadedPackageFails(d, p)
           \/ \E S \in SUBSET NewTypes : HardenStructuresInterrupted(S)
           \/ \E e : Throw(e)
           \/ FinishPackageLoad
  <2>1. /\ phase' \in {"dependencies", "create critical", "create arrays", "idle"}
        /\ round' = NoRound
    BY <1>1 DEF OpenPackage, DependenciesOpen, ArrayDefsGenerated, EnterPhase,
       AddUnloadedPackageFails, HardenStructuresInterrupted, Throw, End, FinishPackageLoad
  <2> QED
    BY <2>1, ReadElsewhere DEF LatePhases
<1>2. CASE \/ \E c \in ImportSlots, p \in Packages : OpenDependency(c, p)
           \/ \E c \in ArraySlots : GenerateArrayDef(c)
  <2>1. phase' \in {"dependencies", "arrays"} /\ round' = round
    BY <1>2 DEF OpenDependency, GenerateArrayDef
  <2> QED
    BY <1>0, <2>1, ReadElsewhere DEF LatePhases
<1>3. CASE \E c \in LocalSlots : CreateInitialObject(c)
  BY <1>3, ReadCreate
<1>4. CASE ObjectsCreated
  <2>1. SameSymbols
    BY <1>4, Untouched DEF ObjectsCreated
  <2>2. CASE phase' = "import critical" /\ round' = round
    BY <1>0, <2>2, ReadElsewhere DEF LatePhases
  <2>3. CASE /\ phase = "create arrays" /\ phase' = "read critical"
             /\ round' = NoRound /\ cursor' = Beginning
    BY <2>1, <2>3, ReadBegins
  <2>4. CASE phase = "create" /\ phase' = "import" /\ round' = NoRound /\ cursor' = Beginning
    <3>1. \A c \in LocalSlots : CriticalReadHere(c)
      BY <2>4 DEF ReadInv, LatePhases
    <3> QED
      BY <2>1, <2>4, <3>1, ReadBegins
  <2> QED
    BY <1>4, <2>2, <2>3, <2>4 DEF ObjectsCreated, EnterPhase
<1>5. CASE ResolveImports
  <2>1. SameSymbols
    <3>1. /\ pkg' = [q \in Packages |-> IF q \in Elements(unloaded)
                                        THEN [pkg[q] EXCEPT !.imports = Resolved(q)] ELSE pkg[q]]
          /\ unloaded' = unloaded /\ obj' = obj
      BY <1>5 DEF ResolveImports
    <3>2. \A q \in Elements(unloaded) : pkg'[q].locals = pkg[q].locals
      <4>1. \A q \in Elements(unloaded) : q \in Packages /\ DOMAIN pkg[q] = PackageFields
        BY DEF Inv, Shape, Elements
      <4> QED
        BY <3>1, <4>1 DEF PackageFields
    <3> QED
      BY <3>1, <3>2 DEF SameSymbols, Kept
  <2>2. round' = NoRound /\ cursor' = Beginning
    BY <1>5 DEF ResolveImports, EnterPhase
  <2>3. CASE phase = "import" /\ phase' = "read"
    <3>1. \A c \in LocalSlots : CriticalReadHere(c)
      BY <2>3 DEF ReadInv, LatePhases
    <3> QED
      BY <2>1, <2>2, <2>3, <3>1, ReadBegins
  <2>4. CASE phase' \in {"create critical", "arrays"}
    BY <2>2, <2>4, ReadElsewhere DEF LatePhases
  <2> QED
    BY <1>5, <2>3, <2>4 DEF ResolveImports, EnterPhase
<1>6. CASE \E c \in LocalSlots : \/ DeserializeObject(c) \/ DeferObject(c)
                                 \/ ResolveDefault(c) \/ PassOver(c)
  BY <1>6, ReadDeserialize, ReadPasses
<1>7. CASE ObjectsRead
  BY <1>7, ReadEnds
<1>8. CASE HardenStructures
  <2>1. SameSymbols
    <3>1. SameObjects
      BY <1>8, Stages DEF Inv, Rest
    <3> QED
      BY <1>8, <3>1, Untouched DEF HardenStructures, EnterPhase
  <2>2. phase = "harden" /\ phase' = "create" /\ round' = NoRound /\ cursor' = Beginning
    BY <1>8 DEF HardenStructures, EnterPhase
  <2>3. \A c \in LocalSlots : CriticalReadHere(c)
    BY <2>2 DEF ReadInv, LatePhases
  <2> QED
    BY <2>1, <2>2, <2>3, ReadBegins
<1>9. CASE ValidateStructures
  <2>1. SameSymbols
    BY <1>9, Untouched DEF ValidateStructures, EnterPhase
  <2>2. phase = "validate" /\ phase' = "finish" /\ round' = NoRound
    BY <1>9 DEF ValidateStructures, EnterPhase
  <2>3. \A c \in LocalSlots : CriticalReadHere(c) /\ ReadHere(c)
    BY <2>2 DEF ReadInv, LatePhases
  <2>4. LocalSlots' = LocalSlots /\ \A c \in LocalSlots : CriticalReadHere(c)' /\ ReadHere(c)'
    BY <2>1, <2>3, ReadHereKept
  <2> QED
    BY <2>2, <2>4 DEF ReadInv
<1>10. CASE CollectGarbage
  <2>1. /\ unloaded' = unloaded /\ phase' = phase /\ cursor' = cursor /\ round' = round
        /\ \A p \in Elements(unloaded) :
             /\ pkg'[p] = pkg[p]
             /\ \A k \in DOMAIN pkg[p].locals :
                  LET o == pkg[p].locals[k].object IN o \in Objects => obj'[o] = obj[o]
    BY <1>10, CollectFrame
  <2>2. SameSymbols
    BY <2>1 DEF SameSymbols, Kept
  <2> QED
    BY <2>1, <2>2, ReadKept
<1>11. CASE ClientStep
  <2>1. phase' \in {"open", "idle"} /\ round' = round
    BY <1>11 DEF ClientStep, LoadPackage, LookupSymbol, LoadObject, DropRef, Start, Idle
  <2> QED
    BY <1>0, <2>1, ReadElsewhere DEF LatePhases
<1>12. CASE UNCHANGED vars
  BY <1>12, Untouched, ReadKept DEF vars
<1>13. CASE \/ \E d \in Domains : FileMissing(d) \/ PackageAllocationFails(d)
            \/ \E c \in LocalSlots : CreateInitialObjectFails(c) \/ DefaultFails(c)
            \/ ImportsUnresolved \/ ArrayDefFails \/ UnresolvableDependency
            \/ HardenStructuresFails \/ ValidateStructuresFails \/ AllocationFails
  <2>1. \E e : Throw(e)
    BY <1>13 DEF FileMissing, PackageAllocationFails, CreateInitialObjectFails, DefaultFails,
       ImportsUnresolved, ArrayDefFails, UnresolvableDependency, HardenStructuresFails,
       ValidateStructuresFails, AllocationFails
  <2> QED
    BY <1>1, <2>1
<1> QED
  BY <1>1, <1>2, <1>3, <1>4, <1>5, <1>6, <1>7, <1>8, <1>9, <1>10, <1>11, <1>12, <1>13
  DEF Next, LoadStep
-----------------------------------------------------------------------------
(***************************************************************************)
(* Loaded packages.                                                        *)
(***************************************************************************)

\* A symbol of a loaded package is as it was, and so is its object.
LEMMA ReadyKept ==
  ASSUME NEW p, NEW k, Ready(p, k),
         pkg'[p].locals[k] = pkg[p].locals[k], pkg'[p].domain = pkg[p].domain,
         LET o == pkg[p].locals[k].object IN o \in Objects /\ Live(o) => Kept(o),
         LET o == pkg[p].locals[k].object
             name == SymbolName(p, k)
         IN name \in Unshared /\ o # Null /\ gst[name] = o => gst'[name] = o
  PROVE  Ready(p, k)'
<1> DEFINE s == pkg[p].locals[k]
           o == s.object
           name == SymbolName(p, k)
<1>1. SymbolName(p, k)' = name
  BY DEF SymbolName
<1>2. CASE name = Null
  BY <1>1, <1>2 DEF Ready
<1>3. CASE name # Null
  <2>1. /\ s.type # Null
        /\ o # Null /\ o \in Objects /\ Live(o)
        /\ ~obj[o].unread /\ NameOf(o) = name
        /\ name \in Unshared => obj[o].type = s.type /\ gst[name] = o
    BY <1>3 DEF Ready
  <2>2. obj'[o].of = obj[o].of /\ obj'[o].type = obj[o].type /\ (obj'[o].unread => obj[o].unread)
    BY <2>1 DEF Kept
  <2>3. Live(o)' /\ NameOf(o)' = name
    BY <2>1, <2>2 DEF Live, NameOf, SymbolOf
  <2>4. name \in Unshared => gst'[name] = o
    BY <2>1
  <2> QED
    BY <1>1, <2>1, <2>2, <2>3, <2>4 DEF Ready
<1> QED
  BY <1>2, <1>3

\* No loaded package is under way.
LEMMA LoadedAside ==
  ASSUME PlacesInv, NEW p, Loaded(p)
  PROVE  p \notin Elements(unloaded)
  BY DEF PlacesInv, ListsInv, Loaded

\* A step that makes no package loaded, leaves the symbols of those that are and
\* the objects that live alone.
LEMMA LoadedKept ==
  ASSUME PackagesReady,
         \A p \in Packages : Loaded(p)' =>
           /\ Loaded(p)
           /\ pkg'[p].domain = pkg[p].domain
           /\ pkg'[p].locals = pkg[p].locals
           /\ \A k \in DOMAIN pkg[p].locals :
                LET o == pkg[p].locals[k].object
                IN /\ o \in Objects /\ Live(o) => Kept(o)
                   /\ \A n \in Unshared : o # Null /\ gst[n] = o => gst'[n] = o
  PROVE  PackagesReady'
<1> SUFFICES ASSUME NEW p \in Packages, Loaded(p)', NEW k \in DOMAIN pkg'[p].locals
             PROVE  Ready(p, k)'
  BY DEF PackagesReady
<1>1. Loaded(p) /\ pkg'[p].domain = pkg[p].domain /\ pkg'[p].locals = pkg[p].locals
  OBVIOUS
<1>2. k \in DOMAIN pkg[p].locals
  BY <1>1
<1>3. Ready(p, k)
  BY <1>1, <1>2 DEF PackagesReady
<1>4. LET o == pkg[p].locals[k].object
      IN /\ o \in Objects /\ Live(o) => Kept(o)
         /\ \A n \in Unshared : o # Null /\ gst[n] = o => gst'[n] = o
  BY <1>2
<1> QED
  BY <1>1, <1>3, <1>4, ReadyKept

\* The symbols of a package are ready when its load is finished.
LEMMA FinishReady ==
  ASSUME Inv, PlacesInv, CreatedInv, ReadInv, FinishPackageLoad,
         NEW p \in Elements(unloaded), NEW k \in DOMAIN pkg[p].locals
  PROVE  Ready(p, k)
<1>1. PICK i \in DOMAIN unloaded : unloaded[i] = p
  BY DEF Elements
<1>2. <<i, k>> \in LocalSlots
  BY <1>1 DEF LocalSlots
<1>3. EverySymbolCreated /\ \A c \in LocalSlots : ReadHere(c)
  BY DEF FinishPackageLoad, CreatedInv, ReadInv
<1> DEFINE c == <<i, k>>
           s == pkg[p].locals[k]
           o == s.object
           d == pkg[p].domain
           name == SymbolName(p, k)
<1>4. s.type # Null /\ o # Null
  <2>1. \A b \in LocalSlots :
          LET t == pkg[unloaded[b[1]]].locals[b[2]] IN t.type # Null /\ t.object # Null
    BY <1>3 DEF FinishPackageLoad, EverySymbolCreated
  <2> QED
    BY <1>1, <1>2, <2>1
<1>5. ~s.duplicate => ~obj[o].unread
  BY <1>1, <1>2, <1>3, <1>4 DEF ReadHere
<1>6. /\ o \in Objects /\ Live(o) /\ NameOf(o) = name
      /\ s.duplicate => ~obj[o].unread /\ (name \in Unshared => o \in BuiltIns)
      /\ ~s.duplicate => obj[o].type = s.type
      /\ IsBuiltIn(d, k) => s.type = TypeType
  BY <1>4 DEF PlacesInv, MadeInv, Made
<1>7. name \in Unshared => gst[name] = o
  BY <1>5, <1>6 DEF Inv, GlobalsInv
<1>8. ASSUME name \in Unshared, s.duplicate
      PROVE  obj[o].type = s.type
  <2>1. o \in BuiltIns /\ name \in BuiltInNames
    BY <1>6, <1>8, BuiltInFound DEF PlacesInv
  <2>2. d \in DOMAIN Files /\ k \in DOMAIN Files[d].locals
    <3>1. p \in Packages
      BY DEF Inv, Shape, Elements
    <3> QED
      BY <3>1, ObjectsOf DEF Inv
  <2>3. IsBuiltIn(d, k)
    BY <2>1, <2>2, PlaceOfName DEF SymbolName
  <2> QED
    BY <1>6, <2>1, <2>3 DEF PlacesInv, BuiltInsInv
<1> QED
  BY <1>4, <1>5, <1>6, <1>7, <1>8 DEF Ready

\* What FinishPackageLoad keeps of a package.
LEMMA FinishFrame ==
  ASSUME Inv, FinishPackageLoad, NEW p \in Packages
  PROVE  /\ pkg'[p].domain = pkg[p].domain
         /\ DOMAIN pkg'[p].locals = DOMAIN pkg[p].locals
         /\ p \notin Elements(unloaded) => /\ pkg'[p].locals = pkg[p].locals
                                           /\ pkg'[p].pending = pkg[p].pending
         /\ \A k \in DOMAIN pkg[p].locals :
              SymbolName(p, k) # Null => pkg'[p].locals[k] = pkg[p].locals[k]
         /\ obj' = obj /\ gst' = gst
<1>1. pkg' = FinishedPackages \/ \E q : pkg' = [FinishedPackages EXCEPT ![q].first = Null]
  BY DEF FinishPackageLoad
<1>2. obj' = obj /\ gst' = gst
  BY DEF FinishPackageLoad
<1>3. DOMAIN pkg[p] = PackageFields
  BY DEF Inv, Shape
<1>4. /\ Finished(p).domain = pkg[p].domain
      /\ DOMAIN Finished(p) = PackageFields
      /\ Finished(p).locals =
           [k \in DOMAIN pkg[p].locals |->
              IF Local(pkg[p].domain, k).name = Null
              THEN [pkg[p].locals[k] EXCEPT !.object = Null, !.type = Null]
              ELSE pkg[p].locals[k]]
  BY <1>3 DEF Finished, PackageFields
<1>5. /\ pkg'[p].domain = FinishedPackages[p].domain
      /\ pkg'[p].locals = FinishedPackages[p].locals
      /\ pkg'[p].pending = FinishedPackages[p].pending
  <2>1. DOMAIN FinishedPackages = Packages /\ DOMAIN FinishedPackages[p] = PackageFields
    BY <1>3, <1>4 DEF FinishedPackages
  <2> QED
    BY <1>1, <2>1 DEF PackageFields
<1>6. FinishedPackages[p] = IF p \in Elements(unloaded) THEN Finished(p) ELSE pkg[p]
  BY DEF FinishedPackages
<1> QED
  BY <1>2, <1>4, <1>5, <1>6, ZenonT(40) DEF SymbolName

LEMMA FinishLoaded ==
  ASSUME Inv, PlacesInv, CreatedInv, ReadInv, PackagesReady, FinishPackageLoad
  PROVE  PackagesReady'
<1> SUFFICES ASSUME NEW p \in Packages, Loaded(p)', NEW k \in DOMAIN pkg'[p].locals
             PROVE  Ready(p, k)'
  BY DEF PackagesReady
<1>1. /\ pkg'[p].domain = pkg[p].domain
      /\ k \in DOMAIN pkg[p].locals
      /\ p \notin Elements(unloaded) => pkg'[p].pending = pkg[p].pending
      /\ SymbolName(p, k) # Null => pkg'[p].locals[k] = pkg[p].locals[k]
      /\ obj' = obj /\ gst' = gst
  BY FinishFrame
<1>2. Ready(p, k)
  <2>1. CASE p \in Elements(unloaded)
    BY <1>1, <2>1, FinishReady
  <2>2. CASE p \notin Elements(unloaded)
    <3>1. Loaded(p)
      BY <1>1, <2>2 DEF Loaded
    <3> QED
      BY <1>1, <3>1 DEF PackagesReady
  <2> QED
    BY <2>1, <2>2
<1>3. CASE SymbolName(p, k) = Null
  BY <1>1, <1>3 DEF Ready, SymbolName
<1>4. CASE SymbolName(p, k) # Null
  <2>1. pkg'[p].locals[k] = pkg[p].locals[k] /\ pkg'[p].domain = pkg[p].domain
    BY <1>1, <1>4
  <2>2. \A o : Kept(o)
    BY <1>1 DEF Kept
  <2>3. gst' = gst
    BY <1>1
  <2> QED
    BY <1>2, <2>1, <2>2, <2>3, ReadyKept
<1> QED
  BY <1>3, <1>4

\* An object that is read does not take the name of another.
LEMMA ReadLoaded ==
  ASSUME Inv, PackagesReady, NEW c \in LocalSlots, DeserializeObject(c)
  PROVE  PackagesReady'
<1>1. PICK p, k : p = unloaded[c[1]] /\ k = c[2]
  OBVIOUS
<1>2. /\ pkg' = pkg
      /\ \A o \in Objects : Kept(o)
      /\ \A n \in Names : n # SymbolName(p, k) => gst'[n] = gst[n]
      /\ SymbolName(p, k) \in Unshared => gst[SymbolName(p, k)] = Null
  <2>1. ReadsOne(p, k)
    BY <1>1, ReadFrame
  <2> QED
    BY <2>1 DEF ReadsOne, Kept
<1>3. \A o, n : n \in Unshared /\ o # Null /\ gst[n] = o => gst'[n] = o
  BY <1>2 DEF Unshared
<1>4. \A q : Loaded(q)' => Loaded(q)
  BY <1>2 DEF Loaded
<1> QED
  BY <1>2, <1>3, <1>4, LoadedKept

LEMMA CreateLoaded ==
  ASSUME Inv, PlacesInv, PackagesReady, NEW c \in LocalSlots, CreateInitialObject(c)
  PROVE  PackagesReady'
<1>1. PICK p, k : p = unloaded[c[1]] /\ k = c[2]
  OBVIOUS
<1>2. /\ p \in Elements(unloaded) /\ p \in Packages
      /\ pkg' = [pkg EXCEPT ![p].locals[k] = SymbolHere(Here(c))]
      /\ gst' = gst
  BY <1>1, SlotFacts, CreateInitialObjectDoes DEF Inv
<1>3. \A o \in Objects : Live(o) => Kept(o)
  <2>1. PICK new, creates : new = SymbolHere(Here(c)) /\ creates = CreatesHere(Here(c))
    OBVIOUS
  <2>2. \A o \in Objects : Live(o) => obj'[o] = obj[o]
    BY <1>1, <2>1, CreateFrame
  <2> QED
    BY <2>2 DEF Kept
<1>4. \A q \in Packages : q # p => pkg'[q] = pkg[q]
  BY <1>2 DEF Inv, Shape
<1>5. pkg'[p].pending = pkg[p].pending
  BY <1>2 DEF Inv, Shape, PackageFields
<1>6. ~Loaded(p)'
  BY <1>2, <1>5 DEF PlacesInv, ListsInv, Loaded
<1>7. ASSUME NEW q \in Packages, Loaded(q)'
      PROVE  Loaded(q) /\ pkg'[q] = pkg[q]
  BY <1>4, <1>6, <1>7 DEF Loaded
<1> QED
  BY <1>2, <1>3, <1>7, LoadedKept

LEMMA LoadedStep ==
  Inv /\ PlacesInv /\ CreatedInv /\ ReadInv /\ PackagesReady /\ [Next]_vars => PackagesReady'
<1> SUFFICES ASSUME Inv, PlacesInv, CreatedInv, ReadInv, PackagesReady, [Next]_vars
             PROVE  PackagesReady'
  OBVIOUS
<1>1. CASE Rest
  <2>1. \A o \in Objects : Kept(o)
    BY <1>1 DEF Rest, SameObjects, Kept
  <2>2. pkg' = pkg /\ gst' = gst
    BY <1>1 DEF Rest
  <2> QED
    BY <2>1, <2>2, LoadedKept DEF Loaded
<1>2. CASE \E d \in Domains, p \in Packages : Opened(d, p)
  <2>1. PICK d \in Domains, p \in Packages : Opened(d, p)
    BY <1>2
  <2>2. /\ pkg'[p] = NewPackage(d)
        /\ \A q \in Packages : q # p => pkg'[q] = pkg[q]
        /\ obj' = obj /\ gst' = gst
    BY <2>1, OpenedFrame
  <2>3. ~Loaded(p)'
    BY <2>2 DEF Loaded, NewPackage, NoPackage
  <2>4. \A o : Kept(o)
    BY <2>2 DEF Kept
  <2>5. ASSUME NEW q \in Packages, Loaded(q)'
        PROVE  Loaded(q) /\ pkg'[q] = pkg[q]
    BY <2>2, <2>3, <2>5 DEF Loaded
  <2> QED
    BY <2>2, <2>4, <2>5, LoadedKept
<1>3. CASE \E c \in LocalSlots : CreateInitialObject(c)
  BY <1>3, CreateLoaded
<1>4. CASE \E c \in LocalSlots : DeserializeObject(c)
  BY <1>4, ReadLoaded
<1>5. CASE ResolveImports \/ \E c \in ArraySlots : GenerateArrayDef(c)
  <2>1. obj' = obj /\ gst' = gst
    BY <1>5 DEF ResolveImports, GenerateArrayDef
  <2>2. ASSUME NEW q \in Packages
        PROVE  /\ pkg'[q].domain = pkg[q].domain /\ pkg'[q].pending = pkg[q].pending
               /\ pkg'[q].locals = pkg[q].locals
    <3>1. DOMAIN pkg = Packages /\ DOMAIN pkg[q] = PackageFields
      BY DEF Inv, Shape
    <3>2. CASE ResolveImports
      <4>1. pkg'[q] = pkg[q] \/ pkg'[q] = [pkg[q] EXCEPT !.imports = Resolved(q)]
        BY <3>2 DEF ResolveImports
      <4> QED
        BY <3>1, <4>1 DEF PackageFields
    <3>3. CASE \E c \in ArraySlots : GenerateArrayDef(c)
      <4>1. \E r, k, t : pkg' = [pkg EXCEPT ![r].arrays[k] = t]
        BY <3>3 DEF GenerateArrayDef
      <4> QED
        BY <3>1, <4>1 DEF PackageFields
    <3> QED
      BY <1>5, <3>2, <3>3
  <2>3. \A o : Kept(o)
    BY <2>1 DEF Kept
  <2>4. \A q \in Packages : Loaded(q)' => Loaded(q)
    BY <2>2 DEF Loaded
  <2> QED
    BY <2>1, <2>2, <2>3, <2>4, LoadedKept
<1>6. CASE FinishPackageLoad
  BY <1>6, FinishLoaded
<1>7. CASE CollectGarbage
  <2>1. \A p \in Packages :
          \/ pkg'[p].domain = Null
          \/ /\ pkg'[p] = pkg[p]
             /\ \A k \in DOMAIN pkg[p].locals :
                  LET o == pkg[p].locals[k].object
                  IN o \in Objects =>
                       /\ obj'[o] = obj[o]
                       /\ \A n \in Names : gst[n] = o => gst'[n] = o
    BY <1>7, CollectFrame
  <2> SUFFICES ASSUME NEW p \in Packages, Loaded(p)', NEW k \in DOMAIN pkg'[p].locals
               PROVE  Ready(p, k)'
    BY DEF PackagesReady
  <2>2. pkg'[p] = pkg[p] /\ Loaded(p) /\ k \in DOMAIN pkg[p].locals
    BY <2>1 DEF Loaded
  <2> DEFINE o == pkg[p].locals[k].object
  <2>3. Ready(p, k)
    BY <2>2 DEF PackagesReady
  <2>4. o \in Objects => /\ obj'[o] = obj[o]
                         /\ \A n \in Names : gst[n] = o => gst'[n] = o
    <3>1. pkg'[p].domain # Null
      BY DEF Loaded
    <3> QED
      BY <2>1, <2>2, <3>1
  <2>5. o \in Objects => Kept(o)
    BY <2>4 DEF Kept
  <2>6. CASE SymbolName(p, k) = Null
    BY <2>2, <2>6 DEF Ready, SymbolName
  <2>7. CASE SymbolName(p, k) # Null
    <3>1. o \in Objects
      BY <2>3, <2>7 DEF Ready
    <3>2. SymbolName(p, k) \in Unshared /\ gst[SymbolName(p, k)] = o =>
            gst'[SymbolName(p, k)] = o
      BY <2>4, <3>1 DEF Unshared
    <3> QED
      BY <2>2, <2>3, <2>5, <3>2, ReadyKept
  <2> QED
    BY <2>6, <2>7
<1> QED
  BY <1>1, <1>2, <1>3, <1>4, <1>5, <1>6, <1>7, Moves

-----------------------------------------------------------------------------
(***************************************************************************)
(* Theorems.                                                               *)
(***************************************************************************)

LEMMA InitReady == Init => EarlyInv /\ ReadInv /\ CreatedInv /\ PackagesReady
<1> SUFFICES ASSUME Init PROVE EarlyInv /\ ReadInv /\ CreatedInv /\ PackagesReady
  OBVIOUS
<1>1. phase = "idle" /\ round = NoRound
  BY DEF Init
<1>2. EarlyInv /\ ReadInv /\ CreatedInv
  BY <1>1 DEF EarlyInv, ReadInv, CreatedInv, EverySymbolCreated, LatePhases
<1>3. \A p \in Packages : ~Loaded(p)
  BY DEF Init, Loaded, NoPackage
<1> QED
  BY <1>2, <1>3 DEF PackagesReady

\* Whatever loads came before, whichever of them failed, and whenever garbage was
\* collected: each named symbol of a package that is loaded has an object, which
\* has been read and has that name, and if no other file may define the name, the
\* table of symbols gives that object for it, and it has the type that was read.
\* It is what LoadPackage promises (rdx_objectmanager.cpp).
THEOREM LoadedPackagesReady == Spec => []PackagesReady
  BY InitPlaces, InitReady, PlacesStep, EarlyStep, ReadStep, CreatedStep, LoadedStep,
     Invariance, PTL DEF Spec

\* Loaded packages are complete, if no file defines a name that others may define
\* too: two packages of one load that do are the case that is left, since the
\* table of symbols then keeps only the object that was read last.
THEOREM LoadedPackagesComplete ==
  ASSUME \A d \in DOMAIN Files : \A k \in DOMAIN Files[d].locals :
           Local(d, k).name \notin Duplicables
  PROVE  Spec => []PackagesComplete
<1>1. Inv /\ PackagesReady => PackagesComplete
  <2> SUFFICES ASSUME Inv, PackagesReady,
                      NEW p \in Packages, Loaded(p), NEW k \in DOMAIN pkg[p].locals,
                      SymbolName(p, k) # Null
               PROVE  LET s == pkg[p].locals[k]
                      IN /\ s.object # Null /\ s.type # Null
                         /\ IsRead(s.object)
                         /\ obj[s.object].type = s.type
                         /\ gst[SymbolName(p, k)] = s.object
    BY DEF PackagesComplete, SymbolName
  <2>1. SymbolName(p, k) \in Unshared
    <3>1. pkg[p].domain \in DOMAIN Files /\ k \in DOMAIN Files[pkg[p].domain].locals
          /\ SymbolName(p, k) \in Names \cup {Null}
      BY ObjectsOf DEF Inv
    <3> QED
      BY <3>1 DEF Unshared, SymbolName
  <2>2. Ready(p, k)
    BY DEF PackagesReady
  <2> QED
    BY <2>1, <2>2 DEF Ready, IsRead
<1> QED
  BY <1>1, Invariance, LoadedPackagesReady, PTL
=============================================================================
