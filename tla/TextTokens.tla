----------------------------- MODULE TextTokens -----------------------------
(***************************************************************************)
(* The tokens of a text package (rdxCTextFileParser::ParseToken in         *)
(* rdx_serialize.cpp) and the bytes that strings are written as            *)
(* (WriteEncodedStringBytes in rdx_objectmanager.cpp).                     *)
(*                                                                         *)
(* A token is a run of bytes up to white space or punctuation, or a quoted *)
(* string in which a backslash escapes a quote, a backslash or two decimal *)
(* digits.  The parser looks at the next byte or bytes, at most three, and *)
(* then takes them; one application of Lexed is one turn of its loops.     *)
(***************************************************************************)
EXTENDS Integers, Sequences

CONSTANTS
  Bytes,        \* the bytes of a file, as numbers
  Keyword,      \* a word that the manifest's scan looks for
  StaticSize    \* STATIC_STRING_SIZE

Foreign == -1   \* a byte that is not of the file

ASSUME TokenAssumption ==
  Bytes \subseteq 0..255 /\ Keyword \in Seq(Bytes) /\ StaticSize \in Nat \ {0}

Quote == 39
Backslash == 92
IsWhitespace(b) == b <= 32
IsPunctuation(b) == b \in {58, 123, 125, 44}
IsDigit(b) == b \in 48..57

EncodedBare(b) ==
  CASE b < 32 -> <<Backslash, 48 + (b \div 10), 48 + (b % 10)>>
    [] b = Quote -> <<Backslash, b>>
    [] OTHER -> <<b>>

(* The bytes of one byte of a string in a file.                            *)
Encoded(b) ==
  CASE b < 32 -> <<Backslash, 48 + (b \div 10), 48 + (b % 10)>>
    [] b \in {Backslash, Quote} -> <<Backslash, b>>
    [] OTHER -> <<b>>

(* The buffer of a long token: the bytes flushed before are replaced by    *)
(* whatever the array object itself consists of.                           *)
FlushBytes(flushed, static) == [i \in 1..Len(flushed) |-> Foreign] \o static

NoToken == [quoted |-> FALSE, checked |-> FALSE, plain |-> TRUE,
            first |-> TRUE, static |-> <<>>, flushed |-> <<>>]

Content(t) ==
  IF t.flushed = <<>> THEN t.static ELSE FlushBytes(t.flushed, t.static)

Stored(t, b) ==
  IF Len(t.static) = StaticSize
  THEN [t EXCEPT !.flushed = FlushBytes(t.flushed, t.static), !.static = <<b>>, !.first = FALSE]
  ELSE [t EXCEPT !.static = Append(@, b), !.first = FALSE]

CheckTokenPrefix(seen) ==
  Len(seen) >= Len(Keyword) /\ SubSeq(seen, 1, Len(Keyword)) = Keyword

(* The scan compares the bytes at hand with a word, and the byte after.    *)
CheckToken(seen) ==
  /\ Len(seen) >= Len(Keyword)
  /\ SubSeq(seen, 1, Len(Keyword)) = Keyword
  /\ \/ Len(seen) = Len(Keyword)
     \/ IsWhitespace(seen[Len(Keyword) + 1])
     \/ IsPunctuation(seen[Len(Keyword) + 1])

Went(phase, token, took) == [phase |-> phase, token |-> token, took |-> took]

(* The loop of the manifest: while a byte is left, the next token.         *)
Between(t, seen) ==
  IF seen = <<>> THEN Went("done", t, 0)
  ELSE Went("lead", [NoToken EXCEPT !.checked = CheckToken(seen),
                                    !.plain = ~IsWhitespace(seen[1])], 0)

LeadOverEnd(t, seen) ==
  CASE seen = <<>> -> Went("lead", t, 0)
    [] seen # <<>> /\ IsWhitespace(seen[1]) -> Went("lead", t, 1)
    [] seen # <<>> /\ seen[1] = Quote -> Went("body", [t EXCEPT !.quoted = TRUE], 1)
    [] OTHER -> Went("body", t, 0)

Lead(t, seen) ==
  CASE seen = <<>> -> Went("failed", t, 0)
    [] seen # <<>> /\ IsWhitespace(seen[1]) -> Went("lead", t, 1)
    [] seen # <<>> /\ seen[1] = Quote -> Went("body", [t EXCEPT !.quoted = TRUE], 1)
    [] OTHER -> Went("body", t, 0)

(* What the buffer of an escape sequence may hold: PeekBytes copies fewer  *)
(* bytes than asked for where the file ends, and the rest is whatever was  *)
(* there before.                                                           *)
Sequences(seen) ==
  IF seen # <<>> /\ seen[1] = Backslash
  THEN {[i \in 1..3 |-> IF i <= Len(seen) THEN seen[i] ELSE old[i]] :
          old \in [Len(seen) + 1..3 -> Bytes]}
  ELSE {<<>>}

Escape(t, seen, sequence) ==
  LET escaped == [t EXCEPT !.plain = FALSE]
      taken(n) == IF n <= Len(seen) THEN n ELSE Len(seen)
  IN CASE sequence[2] \in {Backslash, Quote} ->
            Went("body", Stored(escaped, sequence[2]), taken(2))
       [] IsDigit(sequence[2]) /\ IsDigit(sequence[3]) ->
            Went("body", Stored(escaped, (sequence[2] - 48) * 10 + (sequence[3] - 48)), taken(3))
       [] OTHER -> Went("failed", t, 0)

EndsWord(t, b) == IsWhitespace(b) \/ (IsPunctuation(b) /\ ~t.first)

Body(t, seen, sequence) ==
  CASE seen = <<>> -> Went(IF t.quoted THEN "failed" ELSE "trail", t, 0)
    [] seen # <<>> /\ t.quoted /\ seen[1] = Quote -> Went("trail", t, 1)
    [] seen # <<>> /\ ~t.quoted /\ EndsWord(t, seen[1]) -> Went("trail", t, 0)
    [] OTHER -> IF seen[1] = Backslash THEN Escape(t, seen, sequence)
                ELSE Went("body", Stored(t, seen[1]), 1)

Trail(t, seen) ==
  IF seen # <<>> /\ IsWhitespace(seen[1])
  THEN Went("trail", t, 1)
  ELSE Went("between", t, 0)

(* One turn: the phase and the token after it, and the bytes it took.      *)
Lexed(phase, t, seen, sequence) ==
  CASE phase = "between" -> Between(t, seen)
    [] phase = "lead" -> Lead(t, seen)
    [] phase = "body" -> Body(t, seen, sequence)
    [] OTHER -> Trail(t, seen)
=============================================================================
