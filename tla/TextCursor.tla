----------------------------- MODULE TextCursor -----------------------------
(***************************************************************************)
(* What a reader of text packages does, without a buffer: it looks at the  *)
(* bytes of the file from its position on.  TextReader shows that the      *)
(* parser of rdx_serialize.cpp, which reads ahead, does just this.         *)
(***************************************************************************)
EXTENDS Integers, Sequences

CONSTANTS
  Lexed(_, _, _, _),   \* one turn of the tokens' loops, as in TextTokens
  Sequences(_),        \* what the buffer of an escape sequence may hold
  NoToken, Content(_), \* the token not begun, and the bytes of one that ended
  Files,      \* files, with what was written to them
  LookAhead   \* how many bytes are looked at at once

VARIABLES
  file,       \* the file: a text, and the tokens it was written from
  position,   \* where the reader is
  phase,      \* the loop of ParseToken it is in
  token,      \* the token it is reading
  read,       \* the tokens it has read
  told        \* where it was, by Tell, after each of them

vars == <<file, position, phase, token, read, told>>

Upcoming(text, at, n) ==
  [i \in 1..(IF n <= Len(text) - at THEN n ELSE Len(text) - at) |-> text[at + i]]

Init ==
  /\ file \in Files
  /\ position = 0 /\ phase = "between" /\ token = NoToken
  /\ read = <<>> /\ told = <<>>

Finished(w, at) ==
  IF phase = "trail" /\ w.phase = "between"
  THEN /\ read' = Append(read, [quoted |-> w.token.quoted, bytes |-> Content(w.token),
                                checked |-> w.token.checked, plain |-> w.token.plain])
       /\ told' = Append(told, at)
  ELSE UNCHANGED <<read, told>>

Turn(sequence) ==
  /\ phase \notin {"done", "failed"}
  /\ LET w == Lexed(phase, token, Upcoming(file.text, position, LookAhead), sequence)
     IN /\ phase' = w.phase /\ token' = w.token
        /\ position' = position + w.took
        /\ Finished(w, position')
  /\ UNCHANGED file

(* The package is read in pieces: the reader goes to where a token ended.  *)
Seek(k) ==
  /\ phase \in {"between", "done"}
  /\ position' = told[k] /\ phase' = "between" /\ token' = NoToken
  /\ read' = SubSeq(read, 1, k) /\ told' = SubSeq(told, 1, k)
  /\ UNCHANGED file

Next ==
  \/ \E sequence \in Sequences(Upcoming(file.text, position, LookAhead)) : Turn(sequence)
  \/ \E k \in DOMAIN told : Seek(k)

Spec == Init /\ [][Next]_vars
=============================================================================
