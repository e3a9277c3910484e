---------------------------- MODULE MCTextReader ----------------------------
(***************************************************************************)
(* Every file of up to three bytes, and files written from tokens, some    *)
(* longer than the parser's static buffer.                                 *)
(***************************************************************************)
EXTENDS TextReader, SequencesExt

(* newline, space, quote, 0, 1, colon, a, backslash                           *)
MCBytes == {10, 32, 39, 48, 49, 58, 97, 92}
MCKeyword == <<97, 97>>

Strings(B, n) == UNION {[1..k -> B] : k \in 0..n}

Written(t) ==
  IF t.quoted THEN <<Quote>> \o FlattenSeq([i \in 1..Len(t.bytes) |-> Encoded(t.bytes[i])]) \o <<Quote>>
  ELSE t.bytes

Token(q, s) == [quoted |-> q, bytes |-> s]
ShortTokens == {Token(TRUE, s) : s \in Strings({10, 39, 92}, 1)} \cup {Token(FALSE, s) : s \in Strings({97, 49}, 2) \ {<<>>}}
LongTokens == {Token(TRUE, s) : s \in Strings({10, 39, 49, 92}, 3)}
Sources == {<<t>> : t \in LongTokens} \cup {<<s, t>> : s, t \in ShortTokens}
             \cup {<<s, Token(FALSE, MCKeyword), t>> : s, t \in ShortTokens}

MCFiles ==
  {[text |-> s, tokens |-> <<>>, known |-> FALSE] : s \in Strings(MCBytes, 3)}
  \cup {[text |-> FlattenSeq([i \in 1..Len(s) |-> Written(s[i]) \o <<10>>]),
         tokens |-> s, known |-> TRUE] : s \in Sources}
=============================================================================
