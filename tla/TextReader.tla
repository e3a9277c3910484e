----------------------------- MODULE TextReader -----------------------------
(***************************************************************************)
(* The reader of text packages (rdxCTextFileParser, rdx_serialize.cpp).    *)
(*                                                                         *)
(* The parser keeps a buffer of bytes it has read ahead of its position,   *)
(* m_backlog.  Reading takes bytes from the front of what is available;    *)
(* when less than the front load is left the rest is moved to the start of *)
(* the buffer and the buffer filled from the stream.  Seeking drops it.    *)
(***************************************************************************)
EXTENDS TextTokens

CONSTANTS
  Files,             \* files: [text, tokens, known], with known if the text
                     \* was written from the tokens
  BufferSize,        \* BUFFER_SIZE
  BufferFrontload,   \* BUFFER_FRONTLOAD
  MaxSeeks           \* bounds how often a reader starts inside the file

LookAhead == IF Len(Keyword) < 3 THEN 3 ELSE Len(Keyword) + 1

ASSUME ReaderAssumption ==
  /\ \A f \in Files : f.text \in Seq(Bytes)
  /\ BufferSize \in Nat /\ BufferFrontload \in Nat /\ LookAhead <= BufferFrontload
  /\ MaxSeeks \in Nat

VARIABLES
  file,
  memory,              \* m_backlog
  bufferOffset,        \* m_bufferOffset
  position,            \* m_position
  backlogAvailable,    \* m_backlogAvailable
  streamPosition,      \* where the stream is
  phase, token, read, told,
  seeks                \* how often one did

window == <<memory, bufferOffset, position, backlogAvailable, streamPosition>>
vars == <<file, window, phase, token, read, told, seeks>>

Capacity == BufferSize + BufferFrontload
Least(a, b) == IF a <= b THEN a ELSE b

Unmoved(mem, offset, avail) == mem

RunsOut(avail) == avail = 0

(* The buffer, of which avail bytes from offset on are in use and whose    *)
(* stream is at at, after RefillBacklog.                                   *)
Moved(mem, offset, avail) ==
  [i \in 0..Capacity - 1 |-> IF i < avail THEN mem[offset + i] ELSE mem[i]]

Loaded(mem, avail, at, got) ==
  [i \in 0..Capacity - 1 |->
     IF avail <= i /\ i < avail + got THEN file.text[at + (i - avail) + 1] ELSE mem[i]]

RunsLow(avail) == avail < BufferFrontload

RefillBacklog(mem, offset, avail, at) ==
  LET got == Least(Capacity - avail, Len(file.text) - at)
  IN IF RunsLow(avail)
     THEN /\ memory' = Loaded(Moved(mem, offset, avail), avail, at, got)
          /\ bufferOffset' = 0
          /\ backlogAvailable' = avail + got
          /\ streamPosition' = at + got
     ELSE /\ memory' = mem /\ bufferOffset' = offset
          /\ backlogAvailable' = avail /\ streamPosition' = at

PeekBytes(count) ==
  [i \in 1..Least(count, backlogAvailable) |-> memory[bufferOffset + i - 1]]

(* What the buffer does not hold is read past it.                          *)
ReadBytes(count) ==
  LET sz == Least(count, backlogAvailable)
      more == Least(count - sz, Len(file.text) - streamPosition)
  IN /\ position' = position + sz + more
     /\ RefillBacklog(memory, bufferOffset + sz, backlogAvailable - sz, streamPosition + more)

SeekStartKept(offset) ==
  /\ position' = offset
  /\ RefillBacklog(memory, bufferOffset, backlogAvailable, offset)

SeekStart(offset) ==
  /\ position' = offset
  /\ RefillBacklog(memory, 0, 0, offset)

-----------------------------------------------------------------------------
(* The parser is on the native stack, its buffer not initialized; the      *)
(* stream is at the start of the file.                                     *)
Init ==
  /\ file \in Files
  /\ \E old \in Bytes :
       LET got == Least(Capacity, Len(file.text))
       IN /\ memory = Loaded([i \in 0..Capacity - 1 |-> old], 0, 0, got)
          /\ backlogAvailable = got /\ streamPosition = got
  /\ bufferOffset = 0 /\ position = 0
  /\ phase = "between" /\ token = NoToken /\ read = <<>> /\ told = <<>> /\ seeks = 0

Finished(w) ==
  IF phase = "trail" /\ w.phase = "between"
  THEN /\ read' = Append(read, [quoted |-> w.token.quoted, bytes |-> Content(w.token),
                                checked |-> w.token.checked, plain |-> w.token.plain])
       /\ told' = Append(told, position')
  ELSE UNCHANGED <<read, told>>

Turn(sequence) ==
  /\ phase \notin {"done", "failed"}
  /\ LET w == Lexed(phase, token, PeekBytes(LookAhead), sequence)
     IN /\ phase' = w.phase /\ token' = w.token
        /\ IF w.took = 0 THEN UNCHANGED window ELSE ReadBytes(w.took)
        /\ Finished(w)
  /\ UNCHANGED <<file, seeks>>

(* An object is read by a parser of its own, on the same stream, from the  *)
(* position that the manifest's scan was told.                             *)
Seek(k) ==
  /\ phase \in {"between", "done"} /\ seeks < MaxSeeks
  /\ SeekStart(told[k])
  /\ phase' = "between" /\ token' = NoToken
  /\ read' = SubSeq(read, 1, k) /\ told' = SubSeq(told, 1, k)
  /\ seeks' = seeks + 1
  /\ UNCHANGED file

Parse == \E sequence \in Sequences(PeekBytes(LookAhead)) : Turn(sequence)

Next == Parse \/ \E k \in DOMAIN told : Seek(k)

(* The loops of the parser run until they end.                             *)
Spec == Init /\ [][Next]_vars /\ WF_vars(Parse)
-----------------------------------------------------------------------------
TypeOK ==
  /\ file \in Files
  /\ memory \in [0..Capacity - 1 -> Bytes]
  /\ bufferOffset \in Nat /\ position \in Nat
  /\ backlogAvailable \in Nat /\ streamPosition \in Nat

(* The bytes in use lie inside the buffer and are the bytes of the file    *)
(* from the reader's position on, up to where the stream is.               *)
WindowIsText ==
  /\ bufferOffset + backlogAvailable <= Capacity
  /\ streamPosition = position + backlogAvailable
  /\ streamPosition <= Len(file.text)
  /\ \A i \in 0..Capacity - 1 :
       i < backlogAvailable => memory[bufferOffset + i] = file.text[position + i + 1]

(* A look ahead that fits in the front load is only cut short by the end   *)
(* of the file: RefillBacklog comes early enough.                          *)
LooksFarEnough ==
  backlogAvailable < BufferFrontload => streamPosition = Len(file.text)

(* With this a reader behaves like one that has no buffer.                 *)
Plain == INSTANCE TextCursor
PlainReader == Plain!Init /\ [][Plain!Next]_(Plain!vars)

(* What was written as a string, or as a word without special bytes, is    *)
(* read back as it was, token by token, also by a reader that goes back to *)
(* where an earlier token ended; tokens that fit the static buffer, that   *)
(* is: of longer ones the flushed part is lost.                            *)
TokensReadBack ==
  file.known =>
    /\ phase # "failed"
    /\ phase = "done" => Len(read) = Len(file.tokens)
    /\ \A k \in DOMAIN read :
         /\ read[k].quoted = file.tokens[k].quoted
         /\ Len(read[k].bytes) = Len(file.tokens[k].bytes)
         /\ Len(read[k].bytes) <= StaticSize => read[k].bytes = file.tokens[k].bytes

(* When the scan takes the bytes at hand for a keyword then the token it   *)
(* skips is that word; and it sees every keyword that is not preceded by   *)
(* white space nor written with escapes.                                   *)
KeywordsSeen ==
  \A k \in DOMAIN read :
    /\ read[k].checked => ~read[k].quoted /\ read[k].bytes = Keyword
    /\ read[k].plain /\ ~read[k].quoted /\ read[k].bytes = Keyword => read[k].checked

(* The scan of a file ends, whatever the file holds: no token is empty of  *)
(* progress.                                                               *)
ReaderStops == []<>(phase \in {"done", "failed"})
=============================================================================
