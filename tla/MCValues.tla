------------------------------ MODULE MCValues -------------------------------
(***************************************************************************)
(* The texts ValueParser is run on.  A text is put together from parts,    *)
(* each with what it says by the definition of JSON and of UTF-8, so that  *)
(* nothing here is read off the parser.                                    *)
(***************************************************************************)
EXTENDS ValueParser, SequencesExt

\* A part of a text: its bytes, the values it says, the offsets in it at which
\* it is wrong so that nothing behind counts, does an escape in it stand for a
\* line break, and the offsets of what is no UTF-8 but read as if it were.
LaxPart(raw, says, wrong, breaks, lax) ==
    [raw |-> raw, says |-> says, wrong |-> wrong, breaks |-> breaks, lax |-> lax]
Part(raw, says, wrong, breaks) == LaxPart(raw, says, wrong, breaks, {})
Plain(raw) == Part(raw, <<>>, {}, FALSE)
Wrong(raw) == Part(raw, <<>>, 0 .. Len(raw), FALSE)

Glue(a, b) ==
    LaxPart(a.raw \o b.raw,
            IF a.wrong = {} THEN a.says \o b.says ELSE a.says,
            IF a.wrong = {} THEN {Len(a.raw) + i : i \in b.wrong} ELSE a.wrong,
            a.breaks \/ b.breaks,
            a.lax \cup {Len(a.raw) + i : i \in b.lax})
Join(parts) == FoldLeft(Glue, Plain(<<>>), parts)

TextOf(part) ==
    [text |-> [i \in 0 .. Len(part.raw) - 1 |-> part.raw[i + 1]],
     length |-> Len(part.raw), denotes |-> part.says,
     wrong |-> part.wrong \cup part.lax, breaks |-> part.breaks,
     lax |-> part.lax # {}]

-----------------------------------------------------------------------------
(***************************************************************************)
(* Strings, by their code points.                                          *)
(***************************************************************************)
Utf8(c) ==
    LET n == CHOOSE k \in 1 .. 4 :
                 /\ c < <<128, 2048, 65536, 1114112>>[k]
                 /\ k > 1 => c >= <<128, 2048, 65536>>[k - 1]
    IN  [i \in 1 .. n |->
            IF i = 1
            THEN <<0, 192, 224, 240>>[n] + (c \div (64 ^ (n - 1)))
            ELSE 128 + ((c \div (64 ^ (n - i))) % 64)]

\* A hexadecimal digit, the letters in one case or the other.
Hex(n, letters) == IF n < 10 THEN 48 + n ELSE letters + n - 10
Utf16(n, letters) ==
    <<Backslash, LetterU>> \o
    [i \in 1 .. 4 |-> Hex((n \div (16 ^ (4 - i))) % 16, letters)]
Escape(c) ==
    IF c < 65536 THEN Utf16(c, 97)
    ELSE Utf16(55296 + ((c - 65536) \div 1024), 65)
             \o Utf16(56320 + ((c - 65536) % 1024), 97)

\* A piece of a string, and the bytes it stands for, given as those of a value.
Piece(raw, bytes) == Part(raw, bytes, {}, {10, 13} \cap ToSet(bytes) # {})

LiteralPieces ==
    {Piece(Utf8(c), Utf8(c)) : c \in {97, 127, 128, 2047, 2048, 65535, 65536,
                                      1114111}}
EscapedPieces ==
    {Piece(Escape(c), Utf8(c)) : c \in {0, 10, 127, 128, 2047, 2048, 55295,
                                        56320, 57344, 65535, 65536, 1114111}}
ShortPieces ==
    {Piece(<<Backslash, e[1]>>, <<e[2]>>) :
        e \in {<<34, 34>>, <<92, 92>>, <<47, 47>>, <<98, 8>>, <<102, 12>>,
               <<110, 10>>, <<114, 13>>, <<116, 9>>}}
RunPieces ==
    {Piece([i \in 1 .. n |-> 97 + i], [i \in 1 .. n |-> 97 + i]) : n \in 3 .. 5}
Pieces == LiteralPieces \cup EscapedPieces \cup ShortPieces \cup RunPieces

\* One of each kind, for the longer strings.
FewPieces ==
    {Piece(Utf8(98), Utf8(98)), Piece(Utf8(2048), Utf8(2048)),
     Piece(Escape(128), Utf8(128)), Piece(Escape(65536), Utf8(65536)),
     Piece(<<Backslash, 110>>, <<10>>)}

\* An unprintable character, an unknown escape, digits that are none, a lead
\* surrogate without its trail, and bytes that are no UTF-8.
WrongPieces ==
    {Wrong(raw) : raw \in
        {<<1>>, <<LineFeed>>, <<31>>, <<Backslash, 120>>,
         <<Backslash, LetterU, 48, 103, 48, 48>>,
         <<Backslash, LetterU, 48, CarriageReturn, LineFeed, 48>>,
         Utf16(55296, 97), Utf16(55296, 97) \o <<97, 97, 97, 97>>,
         Utf16(56319, 97) \o <<Backslash, 110, 97, 97, 97, 97>>,
         Utf16(55296, 97) \o Utf16(65, 97), Utf16(55296, 97) \o Utf16(57344, 97),
         Utf16(55296, 97) \o <<Backslash, LetterU, 100, 99, 48, 47>>,
         <<255>>, <<248>>, <<194, 97>>, <<223, 192>>, <<224, 97, 128>>,
         <<239, 128, 192>>, <<240, 97, 128, 128>>, <<240, 144, 97, 128>>,
         <<247, 128, 128, 97>>}}

\* Bytes that are no UTF-8 and that the parser takes for it: characters in a
\* longer form than the shortest, bytes that continue a sequence at the head of
\* one, a surrogate, and code points beyond the last.
LaxPieces ==
    {LaxPart(raw, raw, {}, FALSE, 0 .. Len(raw) - 1) : raw \in
        {<<192, 128>>, <<193, 191>>, <<128, 128>>, <<191, 191>>,
         <<224, 128, 128>>, <<224, 159, 191>>, <<237, 160, 128>>,
         <<237, 191, 191>>, <<240, 128, 128, 128>>, <<240, 143, 191, 191>>,
         <<244, 144, 128, 128>>, <<245, 128, 128, 128>>, <<247, 191, 191, 191>>}}

\* What is at the ends of what is UTF-8.
StrictPieces ==
    {Piece(raw, raw) : raw \in
        {<<194, 128>>, <<223, 191>>, <<224, 160, 128>>, <<237, 159, 191>>,
         <<238, 128, 128>>, <<240, 144, 128, 128>>, <<244, 143, 191, 191>>}}

StringOf(pieces) ==
    LET s == Join(pieces)
    IN  Join(<<Plain(<<Quote>>),
               IF s.wrong = {}
               THEN [s EXCEPT !.says = <<[type |-> "string", bytes |-> s.says]>>]
               ELSE [s EXCEPT !.says = <<>>],
               Plain(<<Quote>>)>>)

-----------------------------------------------------------------------------
(***************************************************************************)
(* Numbers, by their digits.                                               *)
(***************************************************************************)
Ten(digits) == FoldLeft(LAMBDA n, c : 10 * n + c, 0, digits)
Written(digits) == [i \in DOMAIN digits |-> 48 + digits[i]]
DigitsOf(n) ==
    IF n < 10 THEN <<n>>
    ELSE IF n < 100 THEN <<n \div 10, n % 10>>
    ELSE IF n < 1000 THEN <<n \div 100, (n \div 10) % 10, n % 10>>
    ELSE <<n \div 1000, (n \div 100) % 10, (n \div 10) % 10, n % 10>>
Zeros(n) == [i \in 1 .. n |-> 0]

\* A sign, digits, those of a fraction (none: no point), and the spelling and
\* the value of an exponent (no spelling: no exponent).
Number(minus, digits, fraction, spelled, power) ==
    Part((IF minus THEN <<Minus>> ELSE <<>>) \o Written(digits)
             \o (IF fraction = <<>> THEN <<>> ELSE <<Dot>> \o Written(fraction))
             \o spelled,
         <<[type |-> "number", negative |-> minus,
            mantissa |-> Ten(digits \o fraction), fraction |-> Len(fraction),
            power |-> power - Len(fraction),
            whole |-> fraction = <<>> /\ spelled = <<>>]>>,
         {}, FALSE)

Integers == {Number(minus, DigitsOf(n), <<>>, <<>>, 0) :
                minus \in BOOLEAN, n \in (0 .. 450) \cup {1799, 1999}}

\* How an exponent is written, and what it is.
Exponents ==
    {<<<<>>, 0>>, <<<<101, 48>>, 0>>, <<<<69, 43, 49>>, 1>>, <<<<101, 50>>, 2>>,
     <<<<101, 45, 49>>, -1>>, <<<<101, 48, 51>>, 3>>, <<<<101, 45, 51>>, -3>>,
     <<<<69, 45, 52>>, -4>>, <<<<69, 45, 53>>, -5>>, <<<<101, 51, 50>>, 32>>, <<<<101, 54, 52>>, 64>>,
     <<<<101, 45, 51, 50, 48>>, -320>>}
Doubles ==
    {Number(minus, DigitsOf(n), fraction, e[1], e[2]) :
        minus \in BOOLEAN, n \in {0, 1, 3, 17, 31, 32, 64, 65, 179, 253, 1000},
        fraction \in {<<>>, <<0>>, <<5>>, <<0, 1>>, <<9, 9>>, <<1, 2, 5>>,
                      <<0, 0, 0, 0>>, <<1, 1, 1, 1>>},
        e \in Exponents}

\* More digits behind the point than an int can count, and an exponent that
\* makes up for them: these are 0.5, 1, and 10.
Absurd ==
    {Number(FALSE, <<0>>, Append(Zeros(n), 5), <<101, 51, 53>>, 35) : n \in {35}}
        \cup {Number(FALSE, <<0>>, Append(Zeros(n), 1), <<101, 51, 53>>, 35) :
                 n \in {33, 34}}

\* "-", "-x", "1.", "1.x", "1e", "1e+", "1e-x".
WrongNumbers ==
    {Wrong(raw) : raw \in
        {<<Minus>>, <<Minus, 120>>, <<49, Dot>>, <<49, Dot, 120>>, <<48, 101>>,
         <<49, 101, Plus>>, <<49, 69, Minus, 120>>}}

Literally(name) == Part(Spelling[name], <<[type |-> name]>>, {}, FALSE)
WrongLiterals ==
    {Wrong(raw) : raw \in {<<110, 117, 108, 97>>, <<116, 114, 117, 117>>,
                           <<102, 97, 108, 115, 115>>, <<102, 111, 108, 115, 101>>,
                           <<120>>, <<0>>}}

-----------------------------------------------------------------------------
(***************************************************************************)
(* Texts.                                                                  *)
(***************************************************************************)
Open == Plain(<<OpenBracket>>)
Close_ == Plain(<<CloseBracket>>)
Separators ==
    {Plain(raw) : raw \in {<<Comma>>, <<Comma, LineFeed>>,
                           <<CarriageReturn, LineFeed, Comma, Tab>>,
                           <<Comma, CarriageReturn>>}}

Strings ==
    {StringOf(<<>>)} \cup {StringOf(<<a>>) : a \in Pieces}
        \cup {StringOf(<<a, b>>) : a, b \in Pieces}
        \cup {StringOf(<<a, b, c>>) : a, b, c \in FewPieces}
        \cup {StringOf(<<a, b>>) : a \in LaxPieces \cup StrictPieces,
                                  b \in FewPieces}
        \cup {StringOf(<<b, a>>) : a \in LaxPieces, b \in FewPieces}
WrongStrings ==
    {StringOf(<<w>>) : w \in WrongPieces}
        \cup {StringOf(<<a, w>>) : a \in LaxPieces, w \in WrongPieces}
        \cup {StringOf(<<a, w>>) : a \in FewPieces, w \in WrongPieces}
FewStrings == {StringOf(<<>>)} \cup {StringOf(<<a>>) : a \in FewPieces}

\* An array of one value.
Ones ==
    {Join(<<Open, v, Close_>>) :
        v \in Strings \cup WrongStrings \cup Integers \cup Doubles
                 \cup Absurd \cup WrongNumbers \cup WrongLiterals
                 \cup {Literally(name) : name \in Literals}}

\* Two values: what was parsed first is behind what is parsed next.
Twos ==
    {Join(<<Open, a, s, b, Close_>>) :
        a \in FewStrings \cup {Literally("true"), Number(TRUE, <<7>>, <<>>, <<>>, 0)},
        s \in Separators,
        b \in FewStrings \cup {StringOf(<<w>>) : w \in WrongPieces}
                 \cup WrongNumbers \cup WrongLiterals
                 \cup {Number(FALSE, <<8>>, <<5>>, <<>>, 0)}}

\* What is wrong with an array, or is none.
Odd ==
    {Wrong(<<>>), Wrong(<<Space, LineFeed>>), Wrong(<<CloseBracket>>),
     Join(<<Plain(<<Space>>), Open, Plain(<<Space>>), Close_, Plain(<<LineFeed>>)>>),
     Join(<<Open, Close_, Wrong(<<Comma>>)>>),
     Join(<<Open, Wrong(<<Comma>>), Close_>>),
     Join(<<Open, StringOf(<<>>), Plain(<<Space>>), Wrong(<<48>>), Close_>>),
     Join(<<Open, Number(FALSE, <<0>>, <<>>, <<>>, 0), Wrong(<<49>>), Close_>>),
     Join(<<Open, StringOf(<<>>), Plain(<<Comma>>), Wrong(<<CloseBracket>>)>>)}

\* A text that ends anywhere, at the latest before its last byte.
Long ==
    <<Open, StringOf(<<Piece(Utf8(97), Utf8(97)), Piece(Escape(233), Utf8(233)),
                       Piece(Escape(65536), Utf8(65536)),
                       Piece(Utf8(128), Utf8(128)),
                       Piece(Utf8(2048), Utf8(2048)),
                       Piece(Utf8(65536), Utf8(65536)),
                       Piece(<<Backslash, 116>>, <<9>>)>>),
      Plain(<<Comma, LineFeed>>),
      Number(TRUE, <<1, 0>>, <<5, 1>>, <<101, 43, 49, 50>>, 12),
      Plain(<<Comma>>), Literally("true"), Plain(<<Comma>>), Literally("null"),
      Plain(<<Comma>>), Literally("false"), Plain(<<Comma>>),
      Number(TRUE, <<0>>, <<>>, <<101, 45, 49>>, -1), Plain(<<Space>>), Close_>>

\* A number is read only when the byte behind it is.
IsNumber(part) == part.says # <<>> /\ part.says[1].type = "number"
CutAt(part, n) == Wrong(SubSeq(part.raw, 1, n))
CutsIn(k) ==
    (IF k > 1 /\ IsNumber(Long[k - 1]) THEN 1 ELSE 0)
        .. (Len(Long[k].raw) - (IF IsNumber(Long[k]) THEN 0 ELSE 1))
Cuts ==
    UNION {{Join(Append(SubSeq(Long, 1, k - 1), CutAt(Long[k], n))) :
                n \in CutsIn(k)} : k \in 1 .. Len(Long)}

\* A .cfg has no negative numbers.
LeastExponent == -4

Texts == {TextOf(t) : t \in Ones \cup Twos \cup Odd \cup Cuts \cup {Join(Long)}}
=============================================================================
