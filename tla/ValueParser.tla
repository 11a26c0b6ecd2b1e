----------------------------- MODULE ValueParser -----------------------------
(***************************************************************************)
(* parser<Allocator>::parse() of include/sajson.h over the bytes of an     *)
(* array of scalars: what strings, numbers and literals come out as, and   *)
(* where a failure is said to be.  SajsonParser has nesting, objects and   *)
(* the memory; here the structure is a flat array and the data is real.    *)
(*                                                                         *)
(* A definition whose name ends in _bug is no part of the specification:   *)
(* it is the definition that follows with a defect a programmer might have *)
(* made, for which some property must fail.                                *)
(***************************************************************************)
EXTENDS StringDecoder, NumberParser, JsonText

\* The texts to parse, each with what it says:
\*   text     the bytes: offset -> byte
\*   length   how many
\*   denotes  the values written in it, in order, up to the first that is wrong:
\*            the bytes of a string, the sign, digits and exponent of a number
\*   wrong    the offsets at which it goes wrong, none if it is JSON
\*   breaks   does an escape in it stand for a line break?
\*   lax      is a sequence of bytes in one of its strings no UTF-8, though each
\*            byte but the first is one that continues a sequence?
CONSTANT Documents

ASSUME DocumentsAssumption ==
    \A doc \in Documents :
        /\ doc.length \in Nat
        /\ doc.text \in [0 .. doc.length - 1 -> Bytes]

\* A text says what it says as it is read from left to right.
ASSUME MeaningAssumption ==
    \A doc \in Documents :
        LET s == Read(doc.text, doc.length)
        IN  /\ doc.denotes = s.says
            /\ doc.wrong = {} <=> IsJson(doc.text, doc.length, s)
            /\ ~IsArray(doc.text, doc.length, s) =>
                  Offends(doc.text, doc.length, s) \subseteq doc.wrong
            /\ s.breaks => doc.breaks
            /\ s.lax => doc.lax

\* No array or object is in the array, nor is the text an object: the parser
\* takes such a text, along the ways that SajsonParser has.
ASSUME FlatAssumption ==
    \A doc \in Documents :
        LET s == Read(doc.text, doc.length)
            c == ByteAt(doc.text, doc.length, Token(doc.text, doc.length, s.at))
        IN  /\ s.place = "text" => c # OpenBrace
            /\ s.place \in {"first", "value"} => c \notin {OpenBracket, OpenBrace}

vars == <<textVars, stringVars, numberVars>>

Init ==
    /\ document \in Documents
    /\ input_end = document.length
    /\ input = document.text
    /\ p = 0
    /\ pc = "root"
    /\ values = <<>>
    /\ error = NoError
    /\ start = 0 /\ end = 0
    /\ negative = FALSE /\ try_double = FALSE
    /\ u = 0 /\ d = 0
    /\ exponent = 0 /\ negativeExponent = FALSE /\ exp = 0

-----------------------------------------------------------------------------
(***************************************************************************)
(* The literals.                                                           *)
(***************************************************************************)
Literals == {"null", "false", "true"}

\* The bytes of a literal, and how a misspelled one is reported.
Spelling ==
    [null |-> <<110, 117, 108, 108>>,
     false |-> <<102, 97, 108, 115, 101>>,
     true |-> <<116, 114, 117, 101>>]
Misspelled ==
    [null |-> "EXPECTED_NULL", false |-> "EXPECTED_FALSE",
     true |-> "EXPECTED_TRUE"]

Literal(name, at) ==
    /\ input[at] = Spelling[name][1]
    /\ LET n == Len(Spelling[name])
       IN  \/ /\ ~has_remaining_characters(at, n)
              /\ Fail(at, "UNEXPECTED_END")
           \/ /\ has_remaining_characters(at, n)
              /\ \E i \in 2 .. n : input[at + i - 1] # Spelling[name][i]
              /\ Fail(at, Misspelled[name])
           \/ /\ has_remaining_characters(at, n)
              /\ \A i \in 2 .. n : input[at + i - 1] = Spelling[name][i]
              /\ Push([type |-> name], at + n)
              /\ UNCHANGED input

-----------------------------------------------------------------------------
(***************************************************************************)
(* The array.                                                              *)
(***************************************************************************)
ParseRoot ==
    /\ pc = "root"
    /\ \/ /\ OnlySpaceFrom(p)
          /\ Fail(input_end, "MISSING_ROOT_ELEMENT")
       \/ \E q \in p .. input_end - 1 :
             /\ SkipsTo(p, q)
             /\ \/ /\ input[q] # OpenBracket
                   /\ Fail(q, "BAD_ROOT")
                \/ /\ input[q] = OpenBracket
                   /\ Goto(q + 1, "array_close_or_element")
                   /\ UNCHANGED input
    /\ UNCHANGED <<stringVars, numberVars>>

ArrayCloseOrElement ==
    /\ pc = "array_close_or_element"
    /\ \/ /\ OnlySpaceFrom(p)
          /\ Fail(input_end, "UNEXPECTED_END")
       \/ \E q \in p .. input_end - 1 :
             /\ SkipsTo(p, q)
             /\ Goto(q, IF input[q] = CloseBracket THEN "pop_array"
                                                   ELSE "next_element")
             /\ UNCHANGED input
    /\ UNCHANGED <<stringVars, numberVars>>

\* next_element: p comes to its first byte, and the switch on that byte
\* follows.
NextElement ==
    /\ pc = "next_element"
    /\ \/ /\ OnlySpaceFrom(p)
          /\ Fail(input_end, "UNEXPECTED_END")
       \/ \E q \in p .. input_end - 1 :
             /\ SkipsTo(p, q)
             /\ Goto(q, "switch")
             /\ UNCHANGED input
    /\ UNCHANGED <<stringVars, numberVars>>

StartsValue ==
    Digits \cup {Minus, Quote} \cup {Spelling[name][1] : name \in Literals}

Switch ==
    /\ pc = "switch"
    /\ \/ /\ \/ /\ input[p] = 0
                /\ Fail(p, "UNEXPECTED_END")
             \/ \E name \in Literals : Literal(name, p)
             \/ /\ input[p] = Comma
                /\ Fail(p, "UNEXPECTED_COMMA")
             \/ /\ input[p] \notin StartsValue \cup {0, Comma}
                /\ Fail(p, "EXPECTED_VALUE")
          /\ UNCHANGED <<stringVars, numberVars>>
       \/ /\ input[p] \in Digits \cup {Minus}
          /\ StartNumber
          /\ UNCHANGED stringVars
       \/ /\ input[p] = Quote
          /\ StartString
          /\ UNCHANGED numberVars

StructureCloseOrComma ==
    /\ pc = "structure_close_or_comma"
    /\ \/ /\ OnlySpaceFrom(p)
          /\ Fail(input_end, "UNEXPECTED_END")
       \/ \E q \in p .. input_end - 1 :
             /\ SkipsTo(p, q)
             /\ \/ /\ input[q] = CloseBracket
                   /\ Goto(q, "pop_array")
                   /\ UNCHANGED input
                \/ /\ input[q] = Comma
                   /\ Goto(q + 1, "next_element")
                   /\ UNCHANGED input
                \/ /\ input[q] \notin {CloseBracket, Comma}
                   /\ Fail(q, "EXPECTED_COMMA")
    /\ UNCHANGED <<stringVars, numberVars>>

\* The array is installed, and it was the root.
PopArray ==
    /\ pc = "pop_array"
    /\ \/ /\ OnlySpaceFrom(p + 1)
          /\ Goto(input_end, "done")
          /\ UNCHANGED input
       \/ \E q \in p + 1 .. input_end - 1 :
             /\ SkipsTo(p + 1, q)
             /\ Fail(q, "EXPECTED_END_OF_INPUT")
    /\ UNCHANGED <<stringVars, numberVars>>

Next ==
    \/ ParseRoot
    \/ ArrayCloseOrElement
    \/ NextElement
    \/ Switch
    \/ StructureCloseOrComma
    \/ PopArray
    \/ parse_string /\ UNCHANGED numberVars
    \/ parse_number /\ UNCHANGED stringVars

Spec == Init /\ [][Next]_vars /\ WF_vars(Next)

-----------------------------------------------------------------------------
(***************************************************************************)
(* value::get_int53_value, of a number that was parsed.                    *)
(***************************************************************************)
\* v < -(1LL << 53) || v > (1LL << 53), which is false of a NaN.
OutOfRange_closed_bug(n) == n = Infinity \/ n >= Units(Int53Max)
OutOfRange(n) == n = Infinity \/ n > Units(Int53Max)

Refused53 == [fits |-> FALSE, out |-> 0]

\* The conversion drops the fraction, and is compared with what it came from.
\* That of a NaN is undefined, but no number equals a NaN.
get_int53_value(v) ==
    IF v.type = "integer" THEN [fits |-> TRUE, out |-> v.number]
    ELSE LET as_int == v.units \div Unit
         IN  IF OutOfRange(v.units) \/ v.units = NaN \/ Units(as_int) # v.units
             THEN Refused53
             ELSE [fits |-> TRUE, out |-> IF v.negative THEN -as_int ELSE as_int]

-----------------------------------------------------------------------------
(***************************************************************************)
(* What decoding in place must keep.                                       *)
(***************************************************************************)
\* The write end never passes the read end, and what is still to be read is
\* as it was written, however escapes, surrogate pairs and plain characters
\* mix.
InPlace ==
    /\ \A i \in p .. input_end - 1 : Unread(i)
    /\ pc = "slow" => start <= end /\ end <= p

\* A step writes only between the beginning of the string being parsed and
\* where parsing has come to: a string that was decoded before, and its NUL,
\* are never written to again.
DecodesInsideToken ==
    [][\A i \in DOMAIN input :
          input'[i] # input[i] => start <= i /\ i < p']_vars

\* Every string has the bytes its characters and escapes stand for, when it is
\* parsed and from then on.
StringsMean ==
    \A k \in DOMAIN values :
        values[k].type = "string" =>
            LET s == values[k]
            IN  document.denotes[k] =
                    [type |-> "string",
                     bytes |-> [i \in 1 .. s.end - s.start |->
                                    input[s.start + i - 1]]]

-----------------------------------------------------------------------------
(***************************************************************************)
(* What numbers come out as.                                               *)
(***************************************************************************)
\* The digits stay what an int, or the negative of one, can hold until they
\* are a double, and the exponent can be negated, as the static_assert of
\* parse_number says.
NoOverflow ==
    /\ u <= IntMax + (IF negative THEN 1 ELSE 0)
    /\ exp <= IntMax

FitsInt(w) ==
    w.whole /\ w.mantissa <= IntMax + (IF w.negative THEN 1 ELSE 0)

\* A number is an int if it is written without point and exponent and fits,
\* from the least int to the greatest, and it is that int; every other number
\* is a double.
IntegersExact ==
    \A k \in DOMAIN values :
        LET v == values[k]
            w == document.denotes[k]
        IN  /\ v.type = "integer" =>
                  /\ FitsInt(w)
                  /\ v.number = IF w.negative THEN -w.mantissa ELSE w.mantissa
            /\ v.type = "double" => ~FitsInt(w)

\* The digits of the fraction do not make up for an exponent beyond an int.
FewFractionDigits(w) == w.fraction < IntMax - MaxExponent

\* A double is the number its digits make, times the power of ten from the
\* written exponent and the digits of the fraction, also where the exponent
\* had to be clamped: as long as the digits make a double.
DoublesExact ==
    \A k \in DOMAIN values :
        LET v == values[k]
            w == document.denotes[k]
        IN  v.type = "double" /\ w.mantissa <= Int53Max /\ FewFractionDigits(w) =>
                v.negative = w.negative /\ v.units = Scaled(w.mantissa, w.power)

\* How far v is from the number written, of an error of as much as the number
\* itself: less than 3 / Int53Max, for the power is rounded, and the product.
IsClose(n, w) ==
    LET up == IF w.power < 0 THEN 10 ^ (-w.power) ELSE 1
        units == Units(w.mantissa * (IF w.power > 0 THEN 10 ^ w.power ELSE 1))
        off == IF n * up > units THEN n * up - units ELSE units - n * up
    IN  off * Int53Max <= 3 * units

\* A double is the number written but for the rounding of the power of ten and
\* of the product, as long as the digits make a double and the power is no
\* subnormal one; it is infinite only if the number is about as large as that.
DoublesClose ==
    \A k \in DOMAIN values :
        LET n == values[k].units
            w == document.denotes[k]
            normal == /\ w.power \in MinExponent .. MaxExponent
                      /\ w.power < 0 => Int53Max * (10 ^ (-w.power)) <= 2 * Unit
            applies == values[k].type = "double" /\ w.mantissa <= Int53Max
        IN  applies /\ FewFractionDigits(w) /\ normal =>
                IF n = Infinity
                   THEN /\ w.power > 0
                        /\ (Int53Max + 3) * w.mantissa * (10 ^ w.power)
                              > Int53Max * DoubleMax
                   ELSE IsClose(n, w)

\* get_int53_value "writes to the output argument if the numeric value fits in
\* a 53-bit integer": of the numbers without a negative power of ten it takes
\* those up to the limit, however they are written, and gives the number that
\* is written, and it takes no other - but the first one beyond, which is
\* rounded down to the limit.
Int53Exact ==
    \A k \in {j \in DOMAIN values : values[j].type \in {"integer", "double"}} :
        LET w == document.denotes[k]
            whole == w.mantissa * (IF w.power > 0 THEN 10 ^ w.power ELSE 1)
            got == get_int53_value(values[k])
            decided == whole # Int53Max + 1
        IN  w.power \in 0 .. MaxExponent /\ FewFractionDigits(w) /\ decided =>
                /\ got.fits <=> whole <= Int53Max
                /\ got.fits => got.out = IF w.negative THEN -whole ELSE whole

\* A number is never parsed to a NaN: "If d is zero but the exponent is huge,
\* don't multiply zero by inf which gives nan."
NeverNaN ==
    \A k \in DOMAIN values :
        values[k].type = "double" => values[k].units # NaN

-----------------------------------------------------------------------------
(***************************************************************************)
(* What is accepted, and where a failure is said to be.                    *)
(***************************************************************************)
\* A text is rejected only if something in it is wrong.  One that is accepted
\* comes out with every value in it, and nothing in it is wrong but for a
\* sequence that is no UTF-8, though its bytes are of the right classes.
Verdict ==
    /\ pc = "failed" => document.wrong # {}
    /\ pc = "done" => Len(values) = Len(document.denotes)
    /\ pc = "done" /\ ~document.lax => document.wrong = {}

\* Where the lines of what is before an offset begin.
LineStarts(text, at) ==
    {0} \cup {i \in 1 .. at :
                \/ text[i - 1] = LineFeed
                \/ text[i - 1] = CarriageReturn
                   /\ (i < at => text[i] # LineFeed)}

\* The line and column of an error name an offset, in the text as it was
\* given, at which it goes wrong.
LocatedInText ==
    \E at \in document.wrong :
        LET starts == LineStarts(original, at)
        IN  /\ error.line = Cardinality(starts)
            /\ error.column = 1 + at - Max(starts)

\* That is so for every text in which no escape stands for a line break.
ErrorLocated == pc = "failed" /\ ~document.breaks => LocatedInText

\* get_error_line and get_error_column return "the one-based line number where
\* the parse failed" and the column, whatever the text.
ErrorLocatedAlways == pc = "failed" => LocatedInText

\* Every text is parsed to an end.
Termination == <>(pc \in {"done", "failed"})
=============================================================================
