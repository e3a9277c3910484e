-------------------------- MODULE TextReaderProofs --------------------------
(***************************************************************************)
(* Proofs about TextReader (rdx_serialize.cpp) for every file, every size  *)
(* of the buffer and of the front load that covers the look ahead.         *)
(*                                                                         *)
(* The invariant says what the window is: the bytes of the file from the   *)
(* reader's position up to the stream's, and at least a front load of them *)
(* unless the file ends.  From that a look ahead sees the same bytes as a  *)
(* reader without a buffer, and every turn is one of that reader's.        *)
(***************************************************************************)
EXTENDS TextReader, TLAPS

ToldInside ==
  /\ told \in Seq(Nat)
  /\ \A k \in DOMAIN told : told[k] <= Len(file.text)

Inv == TypeOK /\ WindowIsText /\ LooksFarEnough /\ ToldInside

LEMMA FileText == ASSUME file \in Files PROVE file.text \in Seq(Bytes) /\ Len(file.text) \in Nat
BY ReaderAssumption

LEMMA Sizes ==
  Capacity \in Nat /\ BufferFrontload \in Nat /\ BufferFrontload <= Capacity
    /\ LookAhead <= BufferFrontload /\ LookAhead \in Nat
<1>1. Keyword \in Seq(Bytes)
  BY TokenAssumption
<1>2. Len(Keyword) \in Nat
  BY <1>1
<1>3. LookAhead \in Nat
  BY <1>2 DEF LookAhead
<1> QED
  BY <1>3, ReaderAssumption DEF Capacity

LEMMA LeastOf ==
  \A a, b \in Int :
    Least(a, b) \in Int /\ Least(a, b) <= a /\ Least(a, b) <= b
      /\ (Least(a, b) = a \/ Least(a, b) = b)
BY DEF Least

(* What RefillBacklog leaves when the stream is at at, avail bytes after   *)
(* the position: the window is the file's text again, and long enough.     *)
LEMMA Refilled ==
  ASSUME file \in Files,
         NEW mem \in [0..Capacity - 1 -> Bytes], NEW offset \in Nat, NEW avail \in Nat,
         NEW pos \in Nat, offset + avail <= Capacity, pos + avail <= Len(file.text),
         \A i \in 0..Capacity - 1 : i < avail => mem[offset + i] = file.text[pos + i + 1],
         RefillBacklog(mem, offset, avail, pos + avail)
  PROVE  /\ memory' \in [0..Capacity - 1 -> Bytes]
         /\ bufferOffset' \in Nat /\ backlogAvailable' \in Nat /\ streamPosition' \in Nat
         /\ bufferOffset' + backlogAvailable' <= Capacity
         /\ streamPosition' = pos + backlogAvailable'
         /\ streamPosition' <= Len(file.text)
         /\ \A i \in 0..Capacity - 1 :
              i < backlogAvailable' => memory'[bufferOffset' + i] = file.text[pos + i + 1]
         /\ backlogAvailable' < BufferFrontload => streamPosition' = Len(file.text)
<1>t. Len(file.text) \in Nat /\ \A k \in 1..Len(file.text) : file.text[k] \in Bytes
  BY FileText
<1>s. Capacity \in Nat /\ BufferFrontload \in Nat /\ BufferFrontload <= Capacity
  BY Sizes
<1>1. CASE ~RunsLow(avail)
  <2>1. memory' = mem /\ bufferOffset' = offset /\ backlogAvailable' = avail
          /\ streamPosition' = pos + avail
    BY <1>1 DEF RefillBacklog
  <2>2. ~(avail < BufferFrontload)
    BY <1>1 DEF RunsLow
  <2> QED
    BY <2>1, <2>2, <1>t, <1>s
<1>2. CASE RunsLow(avail)
  <2> DEFINE got == Least(Capacity - avail, Len(file.text) - (pos + avail))
  <2>1. /\ memory' = Loaded(Moved(mem, offset, avail), avail, pos + avail, got)
        /\ bufferOffset' = 0 /\ backlogAvailable' = avail + got
        /\ streamPosition' = pos + avail + got
    BY <1>2 DEF RefillBacklog
  <2>a. Capacity - avail \in Nat /\ Len(file.text) - (pos + avail) \in Nat
    BY <1>t, <1>s
  <2> DEFINE room == Capacity - avail
             left == Len(file.text) - (pos + avail)
  <2>i. room \in Int /\ left \in Int
    BY <2>a
  <2> HIDE DEF room, left
  <2>l. Least(room, left) \in Int /\ Least(room, left) <= room /\ Least(room, left) <= left
          /\ (Least(room, left) = room \/ Least(room, left) = left)
    BY <2>i, LeastOf
  <2>b. /\ got \in Int /\ got <= Capacity - avail /\ got <= Len(file.text) - (pos + avail)
        /\ (got = Capacity - avail \/ got = Len(file.text) - (pos + avail))
    BY <2>l DEF room, left
  <2> HIDE DEF got
  <2>2. got \in Nat /\ avail + got <= Capacity /\ pos + avail + got <= Len(file.text)
    BY <2>a, <2>b, <1>t, <1>s
  <2>3. avail + got = Capacity \/ pos + avail + got = Len(file.text)
    BY <2>a, <2>b, <1>t, <1>s
  <2> DEFINE moved == Moved(mem, offset, avail)
  <2>4. /\ moved \in [0..Capacity - 1 -> Bytes]
        /\ \A i \in 0..Capacity - 1 : i < avail => moved[i] = file.text[pos + i + 1]
    BY <1>s DEF Moved
  <2> HIDE DEF moved
  <2>5. /\ memory' \in [0..Capacity - 1 -> Bytes]
        /\ \A i \in 0..Capacity - 1 : i < avail + got => memory'[i] = file.text[pos + i + 1]
    <3>1. memory' = Loaded(moved, avail, pos + avail, got)
      BY <2>1 DEF moved
    <3>2. ASSUME NEW i \in 0..Capacity - 1, avail <= i, i < avail + got
          PROVE  /\ (pos + avail) + (i - avail) + 1 = pos + i + 1
                 /\ pos + i + 1 \in 1..Len(file.text)
      BY <3>2, <2>2, <1>t, <1>s, SMTT(30)
    <3>3. ASSUME NEW i \in 0..Capacity - 1
          PROVE  /\ Loaded(moved, avail, pos + avail, got)[i] \in Bytes
                 /\ i < avail + got
                      => Loaded(moved, avail, pos + avail, got)[i] = file.text[pos + i + 1]
      <4>1. CASE avail <= i /\ i < avail + got
        BY <4>1, <3>2, <1>t DEF Loaded
      <4>2. CASE ~(avail <= i /\ i < avail + got)
        BY <4>2, <2>4, <2>2, <1>s DEF Loaded
      <4> QED BY <4>1, <4>2
    <3>4. Loaded(moved, avail, pos + avail, got)
            = [i \in 0..Capacity - 1 |-> Loaded(moved, avail, pos + avail, got)[i]]
      BY DEF Loaded
    <3> QED BY <3>1, <3>3, <3>4
  <2>6. streamPosition' = pos + backlogAvailable' /\ streamPosition' <= Len(file.text)
    BY <2>1, <2>2, <1>t
  <2>7. bufferOffset' + backlogAvailable' <= Capacity
    BY <2>1, <2>2
  <2>8. \A i \in 0..Capacity - 1 :
          i < backlogAvailable' => memory'[bufferOffset' + i] = file.text[pos + i + 1]
    BY <2>1, <2>5, <1>s
  <2>9. backlogAvailable' < BufferFrontload => streamPosition' = Len(file.text)
    BY <2>1, <2>2, <2>3, <1>t, <1>s
  <2> QED
    BY <2>1, <2>2, <2>5, <2>6, <2>7, <2>8, <2>9
<1> QED
  BY <1>1, <1>2

(* A turn takes no more bytes than it looked at.                           *)
LEMMA TookSeen ==
  ASSUME NEW p, NEW t, NEW seen \in Seq(Bytes), NEW sequence
  PROVE  Lexed(p, t, seen, sequence).took \in 0..Len(seen)
<1>0. Len(seen) \in Nat /\ (seen # <<>> => Len(seen) >= 1)
  OBVIOUS
<1>w. ASSUME NEW a, NEW b, NEW n PROVE Went(a, b, n).took = n
  BY DEF Went
<1>1. Between(t, seen).took \in 0..Len(seen)
  BY <1>0, <1>w DEF Between
<1>2. Lead(t, seen).took \in 0..Len(seen)
  <2>1. CASE seen = <<>>
    BY <2>1, <1>0, <1>w DEF Lead
  <2>2. CASE seen # <<>>
    BY <2>2, <1>0, <1>w DEF Lead
  <2> QED BY <2>1, <2>2
<1>3. Trail(t, seen).took \in 0..Len(seen)
  BY <1>0, <1>w DEF Trail
<1>4. Escape(t, seen, sequence).took \in 0..Len(seen)
  BY <1>0, <1>w DEF Escape
<1>5. Body(t, seen, sequence).took \in 0..Len(seen)
  <2>1. CASE seen = <<>>
    BY <2>1, <1>0, <1>w DEF Body
  <2>2. CASE seen # <<>>
    BY <2>2, <1>0, <1>w, <1>4 DEF Body
  <2> QED BY <2>1, <2>2
<1> QED
  BY <1>1, <1>2, <1>3, <1>5 DEF Lexed

(* The bytes looked at are those of the file after the position.           *)
LEMMA Sees ==
  ASSUME Inv
  PROVE  /\ PeekBytes(LookAhead) = Plain!Upcoming(file.text, position, LookAhead)
         /\ PeekBytes(LookAhead) \in Seq(Bytes)
         /\ Len(PeekBytes(LookAhead)) <= backlogAvailable
<1>t. file.text \in Seq(Bytes) /\ Len(file.text) \in Nat
  BY FileText DEF Inv, TypeOK
<1>s. /\ Capacity \in Nat /\ BufferFrontload \in Nat /\ LookAhead \in Nat
      /\ LookAhead <= BufferFrontload
  BY Sizes
<1>1. Least(LookAhead, backlogAvailable)
        = IF LookAhead <= Len(file.text) - position THEN LookAhead ELSE Len(file.text) - position
  BY <1>t, <1>s DEF Inv, TypeOK, WindowIsText, LooksFarEnough, Least
<1>2. /\ Least(LookAhead, backlogAvailable) \in Nat
      /\ Least(LookAhead, backlogAvailable) <= backlogAvailable
  BY <1>s DEF Inv, TypeOK, Least
<1>3. ASSUME NEW i \in 1..Least(LookAhead, backlogAvailable)
      PROVE  memory[bufferOffset + i - 1] = file.text[position + i]
  <2>1. i - 1 \in 0..Capacity - 1 /\ i - 1 < backlogAvailable
    BY <1>2, <1>s DEF Inv, TypeOK, WindowIsText
  <2>2. memory[bufferOffset + (i - 1)] = file.text[position + (i - 1) + 1]
    BY <2>1 DEF Inv, WindowIsText
  <2>3. bufferOffset + (i - 1) = bufferOffset + i - 1 /\ position + (i - 1) + 1 = position + i
    BY DEF Inv, TypeOK
  <2> QED BY <2>2, <2>3
<1>4. PeekBytes(LookAhead) = [i \in 1..Least(LookAhead, backlogAvailable) |-> file.text[position + i]]
  BY <1>3 DEF PeekBytes
<1>5. ASSUME NEW i \in 1..Least(LookAhead, backlogAvailable)
      PROVE  file.text[position + i] \in Bytes
  BY <1>2, <1>t DEF Inv, TypeOK, WindowIsText
<1>6. PeekBytes(LookAhead) \in Seq(Bytes)
        /\ Len(PeekBytes(LookAhead)) = Least(LookAhead, backlogAvailable)
  BY <1>4, <1>5, <1>2
<1> QED
  BY <1>1, <1>2, <1>4, <1>6 DEF Plain!Upcoming

LEMMA InitInv == Init => Inv
<1> SUFFICES ASSUME Init PROVE Inv
  OBVIOUS
<1>t. file \in Files /\ file.text \in Seq(Bytes) /\ Len(file.text) \in Nat
  BY FileText DEF Init
<1>s. Capacity \in Nat /\ BufferFrontload \in Nat /\ BufferFrontload <= Capacity
  BY Sizes
<1>1. PICK old \in Bytes :
        LET got == Least(Capacity, Len(file.text))
        IN /\ memory = Loaded([i \in 0..Capacity - 1 |-> old], 0, 0, got)
           /\ backlogAvailable = got /\ streamPosition = got
  BY DEF Init
<1> DEFINE got == Least(Capacity, Len(file.text))
<1>2. got \in Nat /\ got <= Capacity /\ got <= Len(file.text)
        /\ (got = Capacity \/ got = Len(file.text))
  BY <1>t, <1>s DEF Least
<1>3. memory = Loaded([i \in 0..Capacity - 1 |-> old], 0, 0, got)
        /\ backlogAvailable = got /\ streamPosition = got /\ bufferOffset = 0 /\ position = 0
        /\ told = <<>>
  BY <1>1 DEF Init
<1> HIDE DEF got
<1>4. ASSUME NEW i \in 0..Capacity - 1
      PROVE  /\ memory[i] \in Bytes
             /\ i < got => memory[i] = file.text[i + 1]
  <2>1. memory[i] = IF 0 <= i /\ i < 0 + got THEN file.text[0 + (i - 0) + 1] ELSE old
    BY <1>3 DEF Loaded
  <2>2. i < got => i + 1 \in 1..Len(file.text)
    BY <1>2, <1>t
  <2> QED BY <2>1, <2>2, <1>t, <1>2
<1>5. memory \in [0..Capacity - 1 -> Bytes]
  BY <1>3, <1>4 DEF Loaded
<1>6. TypeOK
  BY <1>3, <1>5, <1>2, <1>t DEF TypeOK
<1>7. WindowIsText
  BY <1>3, <1>2, <1>4, <1>s, <1>t, SMTT(30) DEF WindowIsText
<1>8. LooksFarEnough
  BY <1>3, <1>2, <1>s, <1>t DEF LooksFarEnough
<1> QED
  BY <1>6, <1>7, <1>8, <1>3 DEF Inv, ToldInside

(* A turn that takes bytes keeps the window, and moves by what it took.    *)
LEMMA ReadKeeps ==
  ASSUME Inv, NEW n \in Nat, n <= backlogAvailable, ReadBytes(n), UNCHANGED file
  PROVE  /\ position' = position + n /\ position' <= Len(file.text)
         /\ TypeOK' /\ WindowIsText' /\ LooksFarEnough'
<1>t. file \in Files /\ file.text \in Seq(Bytes) /\ Len(file.text) \in Nat
  BY FileText DEF Inv, TypeOK
<1>s. Capacity \in Nat
  BY Sizes
<1>1. Least(n, backlogAvailable) = n
  BY DEF Inv, TypeOK, Least
<1>2. Least(n - n, Len(file.text) - streamPosition) = 0
  BY <1>t DEF Inv, TypeOK, WindowIsText, Least
<1>3. /\ position' = position + n + 0
      /\ RefillBacklog(memory, bufferOffset + n, backlogAvailable - n, streamPosition + 0)
  BY <1>1, <1>2 DEF ReadBytes
<1> DEFINE offset == bufferOffset + n
           avail == backlogAvailable - n
           pos == position + n
<1>4. /\ offset \in Nat /\ avail \in Nat /\ pos \in Nat
      /\ offset + avail <= Capacity /\ pos + avail <= Len(file.text)
      /\ streamPosition + 0 = pos + avail /\ position' = pos
  BY <1>3, <1>t, <1>s DEF Inv, TypeOK, WindowIsText
<1>5. ASSUME NEW i \in 0..Capacity - 1, i < avail
      PROVE  memory[offset + i] = file.text[pos + i + 1]
  <2>1. n + i \in 0..Capacity - 1 /\ n + i < backlogAvailable
    BY <1>5, <1>s DEF Inv, TypeOK, WindowIsText
  <2>2. memory[bufferOffset + (n + i)] = file.text[position + (n + i) + 1]
    BY <2>1 DEF Inv, WindowIsText
  <2>3. bufferOffset + (n + i) = offset + i /\ position + (n + i) + 1 = pos + i + 1
    BY DEF Inv, TypeOK
  <2> QED BY <2>2, <2>3
<1>6. RefillBacklog(memory, offset, avail, pos + avail)
  BY <1>3, <1>4
<1>7. memory \in [0..Capacity - 1 -> Bytes]
  BY DEF Inv, TypeOK
<1> HIDE DEF offset, avail, pos
<1>8. /\ memory' \in [0..Capacity - 1 -> Bytes]
      /\ bufferOffset' \in Nat /\ backlogAvailable' \in Nat /\ streamPosition' \in Nat
      /\ bufferOffset' + backlogAvailable' <= Capacity
      /\ streamPosition' = pos + backlogAvailable'
      /\ streamPosition' <= Len(file.text)
      /\ \A i \in 0..Capacity - 1 :
           i < backlogAvailable' => memory'[bufferOffset' + i] = file.text[pos + i + 1]
      /\ backlogAvailable' < BufferFrontload => streamPosition' = Len(file.text)
  BY <1>t, <1>4, <1>5, <1>6, <1>7, Refilled
<1>9. position' = pos /\ file' = file /\ pos \in Nat
  BY <1>4
<1>10. TypeOK'
  BY <1>8, <1>9, <1>t DEF TypeOK
<1>11. WindowIsText' /\ LooksFarEnough'
  BY <1>8, <1>9 DEF WindowIsText, LooksFarEnough
<1>12. position' <= Len(file.text)
  BY <1>4, <1>t
<1> QED
  BY <1>10, <1>11, <1>12, <1>9 DEF pos

LEMMA SeekKeeps ==
  ASSUME Inv, NEW at \in Nat, at <= Len(file.text), SeekStart(at), UNCHANGED file
  PROVE  position' = at /\ TypeOK' /\ WindowIsText' /\ LooksFarEnough'
<1>t. file \in Files /\ Len(file.text) \in Nat /\ memory \in [0..Capacity - 1 -> Bytes]
  BY FileText DEF Inv, TypeOK
<1>s. Capacity \in Nat
  BY Sizes
<1>1. RefillBacklog(memory, 0, 0, at + 0) /\ position' = at
  BY DEF SeekStart
<1>2. \A i \in 0..Capacity - 1 : i < 0 => memory[0 + i] = file.text[at + i + 1]
  BY <1>s
<1>3. /\ memory' \in [0..Capacity - 1 -> Bytes]
      /\ bufferOffset' \in Nat /\ backlogAvailable' \in Nat /\ streamPosition' \in Nat
      /\ bufferOffset' + backlogAvailable' <= Capacity
      /\ streamPosition' = at + backlogAvailable'
      /\ streamPosition' <= Len(file.text)
      /\ \A i \in 0..Capacity - 1 :
           i < backlogAvailable' => memory'[bufferOffset' + i] = file.text[at + i + 1]
      /\ backlogAvailable' < BufferFrontload => streamPosition' = Len(file.text)
  BY <1>t, <1>s, <1>1, <1>2, Refilled
<1> QED
  BY <1>1, <1>3, <1>t DEF TypeOK, WindowIsText, LooksFarEnough

(* Every turn keeps the invariant and is a turn of the plain reader.       *)
LEMMA TurnStep ==
  ASSUME Inv, NEW sequence, sequence \in Sequences(PeekBytes(LookAhead)), Turn(sequence)
  PROVE  Inv' /\ Plain!Next
<1> DEFINE seen == PeekBytes(LookAhead)
           w == Lexed(phase, token, seen, sequence)
<1>t. Len(file.text) \in Nat
  BY FileText DEF Inv, TypeOK
<1>1. /\ seen = Plain!Upcoming(file.text, position, LookAhead)
      /\ seen \in Seq(Bytes) /\ Len(seen) <= backlogAvailable
  BY Sees
<1>2. w.took \in 0..Len(seen)
  BY <1>1, TookSeen
<1>3. /\ phase \notin {"done", "failed"} /\ phase' = w.phase /\ token' = w.token
      /\ (IF w.took = 0 THEN UNCHANGED window ELSE ReadBytes(w.took))
      /\ Finished(w) /\ UNCHANGED <<file, seeks>>
  BY DEF Turn
<1>n. w.took \in Nat /\ w.took <= backlogAvailable
  BY <1>1, <1>2 DEF Inv, TypeOK
<1>4. /\ position' = position + w.took /\ position' <= Len(file.text)
      /\ TypeOK' /\ WindowIsText' /\ LooksFarEnough'
  <2>1. CASE w.took = 0
    <3>1. UNCHANGED <<file, window>>
      BY <1>3, <2>1
    <3> QED
      BY <3>1, <2>1, <1>t DEF Inv, TypeOK, WindowIsText, LooksFarEnough, window
  <2>2. CASE w.took # 0
    <3> HIDE DEF w
    <3> QED BY <1>3, <1>n, <2>2, ReadKeeps
  <2> QED BY <2>1, <2>2
<1>5. position' \in Nat /\ file' = file
  BY <1>3, <1>4 DEF TypeOK
<1>6. ToldInside'
  <2>1. told' = told \/ told' = Append(told, position')
    BY <1>3 DEF Finished
  <2>2. position' <= Len(file'.text)
    BY <1>4, <1>5
  <2>3. CASE told' = told
    BY <2>3, <1>5 DEF Inv, ToldInside
  <2>4. CASE told' = Append(told, position')
    BY <2>4, <2>2, <1>5 DEF Inv, ToldInside
  <2> QED BY <2>1, <2>3, <2>4
<1>7. Plain!Turn(sequence)
  <2>1. Plain!Finished(w, position')
    BY <1>3 DEF Finished, Plain!Finished
  <2> QED BY <1>1, <1>3, <1>4, <2>1 DEF Plain!Turn
<1>8. Plain!Next
  BY <1>1, <1>7 DEF Plain!Next
<1> QED
  BY <1>4, <1>6, <1>8 DEF Inv

LEMMA SeekStep ==
  ASSUME Inv, NEW k \in DOMAIN told, Seek(k)
  PROVE  Inv' /\ Plain!Next
<1>1. told[k] \in Nat /\ told[k] <= Len(file.text) /\ k \in 1..Len(told) /\ Len(told) \in Nat
  BY DEF Inv, ToldInside
<1>2. /\ phase \in {"between", "done"} /\ SeekStart(told[k])
      /\ phase' = "between" /\ token' = NoToken
      /\ read' = SubSeq(read, 1, k) /\ told' = SubSeq(told, 1, k) /\ file' = file
  BY DEF Seek
<1>3. position' = told[k] /\ TypeOK' /\ WindowIsText' /\ LooksFarEnough'
  BY <1>1, <1>2, SeekKeeps
<1>4. ToldInside'
  <2>1. told' \in Seq(Nat) /\ Len(told') = k /\ \A j \in 1..k : told'[j] = told[j]
    BY <1>1, <1>2 DEF Inv, ToldInside
  <2> QED BY <2>1, <1>1, <1>2, SMTT(30) DEF Inv, ToldInside
<1>5. Plain!Next
  BY <1>2, <1>3 DEF Plain!Next, Plain!Seek
<1> QED
  BY <1>3, <1>4, <1>5 DEF Inv

LEMMA Step == Inv /\ [Next]_vars => Inv' /\ [Plain!Next]_(Plain!vars)
<1> SUFFICES ASSUME Inv, [Next]_vars PROVE Inv' /\ [Plain!Next]_(Plain!vars)
  OBVIOUS
<1>1. CASE Parse
  BY <1>1, TurnStep DEF Parse
<1>2. CASE \E k \in DOMAIN told : Seek(k)
  BY <1>2, SeekStep
<1>3. CASE UNCHANGED vars
  <2>1. Inv'
    BY <1>3 DEF Inv, TypeOK, WindowIsText, LooksFarEnough, ToldInside, vars, window
  <2>2. UNCHANGED (Plain!vars)
    BY <1>3 DEF vars, window, Plain!vars
  <2> QED BY <2>1, <2>2
<1> QED
  BY <1>1, <1>2, <1>3 DEF Next

(* The window of the parser always is the file's text at its position.     *)
THEOREM WindowCorrect == Spec => []WindowIsText
<1>1. Inv => WindowIsText
  BY DEF Inv
<1> QED
  BY InitInv, Step, <1>1, PTL DEF Spec

(* A look ahead within the front load is only cut short by the file's end. *)
THEOREM LookAheadEnough == Spec => []LooksFarEnough
<1>1. Inv => LooksFarEnough
  BY DEF Inv
<1> QED
  BY InitInv, Step, <1>1, PTL DEF Spec

(* The parser with its buffer is a reader that looks at the file itself:   *)
(* refilling, moving and dropping the buffer cannot be observed.           *)
THEOREM ReadsLikePlain == Spec => PlainReader
<1>1. Init => Plain!Init
  BY DEF Init, Plain!Init
<1> QED
  BY <1>1, InitInv, Step, PTL DEF Spec, PlainReader
=============================================================================
