------------------------------ MODULE InputText ------------------------------
(***************************************************************************)
(* The text parser<Allocator> of include/sajson.h reads, byte by byte: a   *)
(* mutable buffer that the strings are decoded into while it is being      *)
(* parsed, the place parsing has reached, and make_error, which finds the  *)
(* line and column of a failure by reading that same buffer again.         *)
(*                                                                         *)
(* Bytes are the numbers 0 .. 255 and offsets count from 0, as in the      *)
(* code.  The allocator is left to SajsonParser and DynamicAllocation:     *)
(* here every reserve and push succeeds.                                   *)
(***************************************************************************)
EXTENDS Integers, FiniteSets, FiniteSetsExt, Sequences

VARIABLES
    document,   \* what is parsed: its text, and what that text says
    input_end,  \* the length of the text
    input,      \* the mutable text: offset -> byte
    p,          \* the offset being parsed
    pc,         \* the function and the place in it the parser has reached
    values,     \* the scalars parsed so far
    error       \* what make_error records

textVars == <<document, input_end, input, p, pc, values, error>>

Bytes == 0 .. 255

Tab == 9
LineFeed == 10
CarriageReturn == 13
Space == 32
Quote == 34
Plus == 43
Comma == 44
Minus == 45
Dot == 46
Zero == 48
OpenBracket == 91
OpenBrace == 123
Backslash == 92
CloseBracket == 93
LetterU == 117
ExponentMarks == {69, 101}

is_whitespace(c) == c \in {Tab, LineFeed, CarriageReturn, Space}

Digits == 48 .. 57
DigitOf(c) == c - 48

\* The text as it was handed to the parser.
original == document.text
Unread(i) == input[i] = original[i]

at_eof(q) == q = input_end
has_remaining_characters(q, n) == input_end - q >= n

\* skip_whitespace: the null pointer, or the first byte that is no whitespace.
OnlySpaceFrom(from) == \A i \in from .. input_end - 1 : is_whitespace(input[i])
SkipsTo(from, q) ==
    /\ ~is_whitespace(input[q])
    /\ \A i \in from .. q - 1 : is_whitespace(input[i])

-----------------------------------------------------------------------------
(***************************************************************************)
(* Failure.                                                                *)
(***************************************************************************)
NoError == [code |-> "none", line |-> 0, column |-> 0, arg |-> 0]

BreaksLine_crlf_bug(text, i) == text[i] \in {CarriageReturn, LineFeed}

\* Does the byte at i begin a new line?  A CR with its LF is one line break,
\* counted at the CR.
BreaksLine(text, i) ==
    \/ text[i] = CarriageReturn
    \/ text[i] = LineFeed /\ ~(i > 0 /\ text[i - 1] = CarriageReturn)

LineOf(text, at) ==
    1 + Cardinality({i \in 0 .. at - 1 : BreaksLine(text, i)})

\* A column counts bytes from the last line break on, from 1.
ColumnOf(text, at) ==
    at - Max({-1} \cup {i \in 0 .. at - 1 :
                            text[i] \in {CarriageReturn, LineFeed}})

make_error(at, code, arg) ==
    error' = [code |-> code, line |-> LineOf(input, at),
              column |-> ColumnOf(input, at), arg |-> arg]

\* make_error and the return of a null pointer.
Fail(at, code) ==
    /\ make_error(at, code, 0)
    /\ pc' = "failed"
    /\ UNCHANGED <<document, input_end, input, p, values>>

\* A value is complete; parsing goes on at q.
Push(value, q) ==
    /\ values' = Append(values, value)
    /\ p' = q
    /\ pc' = "structure_close_or_comma"
    /\ UNCHANGED <<document, input_end, error>>

\* Parsing goes on at q, at another place.
Goto(q, place) ==
    /\ p' = q
    /\ pc' = place
    /\ UNCHANGED <<document, input_end, values, error>>
=============================================================================
