------------------------------ MODULE JsonText -------------------------------
(***************************************************************************)
(* What a text says, as ValueParser is to understand it: the grammar of an *)
(* array of scalars, read from left to right.  It is no model of the code, *)
(* and has none of its buffers, limits and numbers of a fixed width: the   *)
(* text is never written to, a string is the bytes its characters stand    *)
(* for, and a number is its digits and its exponent, however many.         *)
(*                                                                         *)
(* A text is a function of its offsets, t, and n is its length.            *)
(***************************************************************************)
EXTENDS InputText

\* The byte at an offset, or none at the end.
NoByte == -1
ByteAt(t, n, i) == IF i \in 0 .. n - 1 THEN t[i] ELSE NoByte

\* The bytes from an offset up to another.
Slice(t, from, to) == [k \in 1 .. to - from |-> t[from + k - 1]]

Blank == {Tab, LineFeed, CarriageReturn, Space}

\* The first byte from at on that is not blank, or the end.
Token(t, n, at) ==
    CHOOSE q \in at .. n :
        /\ \A i \in at .. q - 1 : t[i] \in Blank
        /\ q < n => t[q] \notin Blank

-----------------------------------------------------------------------------
(***************************************************************************)
(* Characters.                                                             *)
(***************************************************************************)
\* What the character at an offset is: its length in the text, and the bytes
\* it stands for.
Char(width, bytes) == [width |-> width, bytes |-> bytes]
NoChar == Char(0, <<>>)

ShortEscapes ==
    {<<34, 34>>, <<92, 92>>, <<47, 47>>, <<98, 8>>, <<102, 12>>, <<110, 10>>,
     <<114, 13>>, <<116, 9>>}

HexValue ==
    [c \in (48 .. 57) \cup (65 .. 70) \cup (97 .. 102) |->
        IF c <= 57 THEN c - 48 ELSE IF c <= 70 THEN c - 55 ELSE c - 87]

\* Does the byte at i, the j-th of an escape \uXXXX\uXXXX, fit there?
HexPlaces == (2 .. 5) \cup (8 .. 11)
Fits(t, n, i, j) ==
    LET c == ByteAt(t, n, i + j)
    IN  \/ j \in {0, 6} /\ c = Backslash
        \/ j \in {1, 7} /\ c = LetterU
        \/ j \in HexPlaces /\ c \in DOMAIN HexValue

Escaped(t, n, i) == \A j \in 0 .. 5 : Fits(t, n, i, j)
CodeUnit(t, i) ==
    4096 * HexValue[t[i + 2]] + 256 * HexValue[t[i + 3]]
        + 16 * HexValue[t[i + 4]] + HexValue[t[i + 5]]

Leads == 55296 .. 56319
Trails == 56320 .. 57343
CodePoint(lead, trail) == 65536 + (lead - 55296) * 1024 + (trail - 56320)

\* UTF-8.
Utf8Bytes(c) ==
    LET low == 128 + (c % 64)
        middle == 128 + ((c \div 64) % 64)
        high == 128 + ((c \div 4096) % 64)
    IN  IF c < 128 THEN <<c>>
        ELSE IF c < 2048 THEN <<192 + (c \div 64), low>>
        ELSE IF c < 65536 THEN <<224 + (c \div 4096), middle, low>>
        ELSE <<240 + (c \div 262144), high, middle, low>>

\* How long a sequence its first byte announces, read leniently: also a byte
\* that is no first byte of a character in UTF-8 announces one, and stands for
\* itself with those that follow it.
Announced(c) == IF c < 224 THEN 2 ELSE IF c < 240 THEN 3 ELSE 4
Continues(t, n, i) == ByteAt(t, n, i) \in 128 .. 191

\* UTF-8 is strict: a sequence is that of a code point, which is no surrogate,
\* in its shortest form.
Decoded(bytes) ==
    LET low(k) == bytes[k] % 64
    IN  CASE Len(bytes) = 1 -> bytes[1]
          [] Len(bytes) = 2 -> (bytes[1] % 32) * 64 + low(2)
          [] Len(bytes) = 3 -> (bytes[1] % 16) * 4096 + low(2) * 64 + low(3)
          [] Len(bytes) = 4 -> (bytes[1] % 8) * 262144 + low(2) * 4096
                                   + low(3) * 64 + low(4)
IsUtf8(bytes) ==
    /\ Decoded(bytes) <= 1114111 /\ Decoded(bytes) \notin Leads \cup Trails
    /\ bytes = Utf8Bytes(Decoded(bytes))

Character(t, n, i) ==
    LET c == ByteAt(t, n, i)
        e == ByteAt(t, n, i + 1)
    IN  CASE c \in (32 .. 127) \ {Quote, Backslash} -> Char(1, <<c>>)
          [] /\ c \in 128 .. 247
             /\ \A k \in 1 .. Announced(c) - 1 : Continues(t, n, i + k) ->
                 Char(Announced(c), Slice(t, i, i + Announced(c)))
          [] c = Backslash /\ \E pair \in ShortEscapes : pair[1] = e ->
                 Char(2, <<(CHOOSE pair \in ShortEscapes : pair[1] = e)[2]>>)
          [] Escaped(t, n, i) /\ CodeUnit(t, i) \notin Leads ->
                 Char(6, Utf8Bytes(CodeUnit(t, i)))
          [] /\ Escaped(t, n, i) /\ CodeUnit(t, i) \in Leads
             /\ Escaped(t, n, i + 6) /\ CodeUnit(t, i + 6) \in Trails ->
                 Char(12, Utf8Bytes(CodePoint(CodeUnit(t, i),
                                              CodeUnit(t, i + 6))))
          [] OTHER -> NoChar

\* Where a text may be said to be wrong, if no character begins at i: there,
\* or within what the beginning of an escape or of a sequence has led to
\* expect, and at the latest after a hexadecimal digit that is none.
NoCharacterAt(t, n, i) ==
    {i + k : k \in {j \in 0 .. 12 :
        \/ \A l \in 0 .. j - 1 : Fits(t, n, i, l)
        \/ /\ j - 1 \in HexPlaces /\ ByteAt(t, n, i + j - 1) # NoByte
           /\ \A l \in 0 .. j - 2 : Fits(t, n, i, l)
        \/ /\ ByteAt(t, n, i) \in 128 .. 247
           /\ j \in 1 .. 3 /\ \A l \in 1 .. j - 1 : Continues(t, n, i + l)}}

-----------------------------------------------------------------------------
(***************************************************************************)
(* Reading.                                                                *)
(***************************************************************************)
\* A number so far: its digits, how many of them are behind the point, and
\* its exponent.
NoDigits(negative) ==
    [negative |-> negative, mantissa |-> 0, fraction |-> 0,
     down |-> FALSE, exponent |-> 0, whole |-> TRUE]

NumberOf(m) ==
    [type |-> "number", negative |-> m.negative, mantissa |-> m.mantissa,
     fraction |-> m.fraction,
     power |-> (IF m.down THEN -m.exponent ELSE m.exponent) - m.fraction,
     whole |-> m.whole]

\* How far reading has come: the offset and the place in the grammar, the
\* values so far, the bytes of the string and the number being read, and has
\* an escape stood for a line break, and has a sequence been no UTF-8?
Progress(at, place, says, bytes, number, breaks, lax) ==
    [at |-> at, place |-> place, says |-> says, bytes |-> bytes,
     number |-> number, breaks |-> breaks, lax |-> lax]

Beginning == Progress(0, "text", <<>>, <<>>, NoDigits(FALSE), FALSE, FALSE)

\* Reading goes on at q, or is past a value.
To(s, q, place) ==
    Progress(q, place, s.says, <<>>, NoDigits(FALSE), s.breaks, s.lax)
Past(s, q, value) ==
    Progress(q, "more", Append(s.says, value), <<>>, NoDigits(FALSE),
             s.breaks, s.lax)

Words ==
    {[name |-> "null", bytes |-> <<110, 117, 108, 108>>],
     [name |-> "false", bytes |-> <<102, 97, 108, 115, 101>>],
     [name |-> "true", bytes |-> <<116, 114, 117, 101>>]}
WordsAt(t, n, i) ==
    {word \in Words :
        \A k \in DOMAIN word.bytes : ByteAt(t, n, i + k - 1) = word.bytes[k]}

\* At the first byte of a value.
BeginValue(t, n, s, q) ==
    LET c == ByteAt(t, n, q)
    IN  CASE c = Quote -> To(s, q + 1, "string")
          [] c = Minus ->
                 Progress(q + 1, "integer", s.says, <<>>, NoDigits(TRUE),
                          s.breaks, s.lax)
          [] c \in Digits -> To(s, q, "integer")
          [] WordsAt(t, n, q) # {} ->
                 LET word == CHOOSE w \in WordsAt(t, n, q) : TRUE
                 IN  Past(s, q + Len(word.bytes), [type |-> word.name])
          [] OTHER -> s

\* Between the tokens of an array.
AfterToken(t, n, s) ==
    LET q == Token(t, n, s.at)
        c == ByteAt(t, n, q)
    IN  CASE s.place = "text" /\ c = OpenBracket -> To(s, q + 1, "first")
          [] s.place \in {"first", "more"} /\ c = CloseBracket ->
                 To(s, q + 1, "end")
          [] s.place = "more" /\ c = Comma -> To(s, q + 1, "value")
          [] s.place = "value" \/ (s.place = "first" /\ c # CloseBracket) ->
                 BeginValue(t, n, s, q)
          [] OTHER -> s

\* In a string.
AfterCharacter(t, n, s) ==
    LET char == Character(t, n, s.at)
    IN  IF ByteAt(t, n, s.at) = Quote
        THEN Past(s, s.at + 1, [type |-> "string", bytes |-> s.bytes])
        ELSE IF char = NoChar THEN s
        ELSE Progress(s.at + char.width, "string", s.says, s.bytes \o char.bytes,
                    s.number,
                    s.breaks \/ \E k \in DOMAIN char.bytes :
                                    char.bytes[k] \in {LineFeed, CarriageReturn},
                    s.lax \/ (ByteAt(t, n, s.at) > 127 /\ ~IsUtf8(char.bytes)))

\* In a number.
NumberPlaces == {"integer", "zero", "digits", "point", "fraction", "mark",
                 "sign", "exponent"}

\* The bytes with which a number that might end here goes on.
Following ==
    [zero |-> {Dot} \cup ExponentMarks,
     digits |-> {Dot} \cup ExponentMarks \cup Digits,
     fraction |-> ExponentMarks \cup Digits,
     exponent |-> Digits]

\* The byte at s.at is read.
Onto(s, place, number) ==
    Progress(s.at + 1, place, s.says, <<>>, number, s.breaks, s.lax)

WithDigit(m, c) == [m EXCEPT !.mantissa = 10 * @ + DigitOf(c)]
WithFractionDigit(m, c) ==
    [m EXCEPT !.mantissa = 10 * @ + DigitOf(c), !.fraction = @ + 1]
WithExponentDigit(m, c) == [m EXCEPT !.exponent = 10 * @ + DigitOf(c)]
NotWhole(m) == [m EXCEPT !.whole = FALSE]
WithSign(m, c) == [m EXCEPT !.down = (c = Minus)]

AfterDigit(t, n, s) ==
    LET c == ByteAt(t, n, s.at)
        m == s.number
    IN  CASE s.place = "integer" /\ c = Zero -> Onto(s, "zero", m)
          [] \/ s.place = "integer" /\ c \in Digits \ {Zero}
             \/ s.place = "digits" /\ c \in Digits ->
                 Onto(s, "digits", WithDigit(m, c))
          [] s.place \in {"point", "fraction"} /\ c \in Digits ->
                 Onto(s, "fraction", WithFractionDigit(m, c))
          [] s.place \in {"mark", "sign", "exponent"} /\ c \in Digits ->
                 Onto(s, "exponent", WithExponentDigit(m, c))
          [] s.place \in {"zero", "digits"} /\ c = Dot ->
                 Onto(s, "point", NotWhole(m))
          [] s.place \in {"zero", "digits", "fraction"} /\ c \in ExponentMarks ->
                 Onto(s, "mark", NotWhole(m))
          [] s.place = "mark" /\ c \in {Plus, Minus} ->
                 Onto(s, "sign", WithSign(m, c))
          [] /\ s.place \in DOMAIN Following
             /\ c # NoByte /\ c \notin Following[s.place] ->
                 Past(s, s.at, NumberOf(m))
          [] OTHER -> s

\* One token, character or digit further, or s again if there is none.
After(t, n, s) ==
    CASE s.place \in {"text", "first", "value", "more"} -> AfterToken(t, n, s)
      [] s.place = "string" -> AfterCharacter(t, n, s)
      [] s.place \in NumberPlaces -> AfterDigit(t, n, s)
      [] OTHER -> s

Readings(t, n) ==
    LET reading[k \in Nat] ==
            IF k = 0 THEN Beginning ELSE After(t, n, reading[k - 1])
    IN  reading

\* The text read as far as it can be: a step comes to a later offset or, at
\* the same one, from before a number to its first digit, or past its last.
Read(t, n) ==
    LET s == Readings(t, n)
        k == CHOOSE l \in 0 .. 3 * n + 3 : After(t, n, s[l]) = s[l]
    IN  s[k]

\* A text is an array of scalars if it can be read to its end, and JSON only if
\* it is UTF-8 besides.
IsArray(t, n, s) == s.place = "end" /\ Token(t, n, s.at) = n
IsJson(t, n, s) == IsArray(t, n, s) /\ ~s.lax

\* The offsets at which a text that can be read no further may be said to be
\* wrong.
Offends(t, n, s) ==
    CASE s.place = "string" -> NoCharacterAt(t, n, s.at)
      [] s.place \in NumberPlaces -> {s.at}
      [] OTHER -> {Token(t, n, s.at)}
=============================================================================
