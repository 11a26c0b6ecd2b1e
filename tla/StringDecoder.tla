---------------------------- MODULE StringDecoder ----------------------------
(***************************************************************************)
(* parse_string and parse_string_slow of include/sajson.h.  A string is    *)
(* decoded into the bytes it was written in: p reads, end writes, and both *)
(* move over the same buffer.  One step is one round of a loop.            *)
(*                                                                         *)
(* A definition whose name ends in _bug is no part of the specification:   *)
(* it is the definition that follows with a defect a programmer might have *)
(* made, for which some property must fail.                                *)
(***************************************************************************)
EXTENDS InputText

VARIABLES
    start,  \* the offset of the string's first byte
    end     \* the offset its next decoded byte goes to

stringVars == <<start, end>>

\* parse_flags, bit 0.
is_plain_string_character(c) == c \in (32 .. 127) \ {Quote, Backslash}

String(from, to) == [type |-> "string", start |-> from, end |-> to]

-----------------------------------------------------------------------------
(***************************************************************************)
(* parse_string: nothing is written until the first byte that is not plain.*)
(***************************************************************************)
StartString ==
    /\ end' = end
    /\ start' = p + 1
    /\ Goto(p + 1, "scan")
    /\ UNCHANGED input

ScanWidth_stuck_bug == IF has_remaining_characters(p, 4) THEN 4 ELSE 0

\* Four bytes at a time, then one by one up to the end.
ScanWidth == IF has_remaining_characters(p, 4) THEN 4 ELSE 1

Scan ==
    /\ pc = "scan"
    /\ \/ /\ p >= input_end
          /\ Fail(p, "UNEXPECTED_END")
       \/ /\ p < input_end
          /\ LET special == {i \in p .. p + ScanWidth - 1 :
                                 ~is_plain_string_character(input[i])}
             IN  \/ special = {} /\ Goto(p + ScanWidth, "scan")
                 \/ \E q \in special :
                        (\A i \in special : q <= i) /\ Goto(q, "found")
          /\ UNCHANGED input
    /\ UNCHANGED stringVars

Close_after_bug(to) ==
    /\ input' = [input EXCEPT ![to + 1] = 0]
    /\ Push(String(start, to), p + 1)

\* The terminating NUL takes the place of the closing quote, or of a byte
\* before it.
Close(to) ==
    /\ input' = [input EXCEPT ![to] = 0]
    /\ Push(String(start, to), p + 1)

IllegalCodepoint ==
    /\ input[p] < 32
    /\ make_error(p, "ILLEGAL_CODEPOINT", input[p])
    /\ pc' = "failed"
    /\ UNCHANGED <<document, input_end, input, p, values>>

Found ==
    /\ pc = "found"
    /\ start' = start
    /\ \/ /\ input[p] = Quote
          /\ Close(p)
          /\ end' = end
       \/ /\ IllegalCodepoint
          /\ end' = end
       \/ /\ input[p] = Backslash \/ input[p] > 127
          /\ end' = p
          /\ Goto(p, "slow")
          /\ UNCHANGED input

-----------------------------------------------------------------------------
(***************************************************************************)
(* parse_string_slow: p runs ahead of end.                                 *)
(***************************************************************************)
Reading == pc = "slow" /\ p < input_end

\* bytes go to end, and reading goes on at q.
Write(bytes, q) ==
    /\ input' = [i \in DOMAIN input |->
                    IF i \in end .. end + Len(bytes) - 1
                    THEN bytes[i - end + 1] ELSE input[i]]
    /\ end' = end + Len(bytes)
    /\ Goto(q, "slow")

Refuse(at, code) == Fail(at, code) /\ end' = end

SlowEnd ==
    /\ pc = "slow" /\ p >= input_end
    /\ Refuse(p, "UNEXPECTED_END")

SlowControl ==
    /\ Reading
    /\ IllegalCodepoint
    /\ end' = end

SlowClose ==
    /\ Reading
    /\ input[p] = Quote
    /\ Close(end)
    /\ end' = end

\* The character after a backslash, and the byte it stands for:
\* quote, backslash, slash, b, f, n, r, t.
Replacement ==
    [c \in {34, 92, 47, 98, 102, 110, 114, 116} |->
        CASE c = 98 -> 8 [] c = 102 -> 12 [] c = 110 -> 10
          [] c = 114 -> 13 [] c = 116 -> 9 [] OTHER -> c]

SlowEscape ==
    /\ Reading
    /\ input[p] = Backslash
    /\ \/ /\ at_eof(p + 1)
          /\ Refuse(p + 1, "UNEXPECTED_END")
       \/ /\ ~at_eof(p + 1)
          /\ input[p + 1] \in DOMAIN Replacement
          /\ Write(<<Replacement[input[p + 1]]>>, p + 2)
       \/ /\ ~at_eof(p + 1)
          /\ input[p + 1] \notin DOMAIN Replacement \cup {LetterU}
          /\ Refuse(p + 1, "UNKNOWN_ESCAPE")

\* The value of a hexadecimal digit.
HexDigit ==
    [c \in Digits \cup (65 .. 70) \cup (97 .. 102) |->
        CASE c \in Digits -> DigitOf(c)
          [] c \in 65 .. 70 -> c - 55
          [] c \in 97 .. 102 -> c - 87]

BadHex(at) == {i \in at .. at + 3 : input[i] \notin DOMAIN HexDigit}

read_hex(at) ==
    4096 * HexDigit[input[at]] + 256 * HexDigit[input[at + 1]]
        + 16 * HexDigit[input[at + 2]] + HexDigit[input[at + 3]]

write_utf8_boundary_bug(c) ==
    IF c < 128 THEN <<c>>
    ELSE IF c <= 2048 THEN <<192 + (c \div 64), 128 + (c % 64)>>
    ELSE IF c < 65536
         THEN <<224 + (c \div 4096), 128 + ((c \div 64) % 64), 128 + (c % 64)>>
    ELSE <<240 + (c \div 262144), 128 + ((c \div 4096) % 64),
           128 + ((c \div 64) % 64), 128 + (c % 64)>>

\* The bytes of a code point, by the branches of the code: a surrogate that
\* stands alone is written as three.
write_utf8(c) ==
    IF c < 128 THEN <<c>>
    ELSE IF c < 2048 THEN <<192 + (c \div 64), 128 + (c % 64)>>
    ELSE IF c < 65536
         THEN <<224 + (c \div 4096), 128 + ((c \div 64) % 64), 128 + (c % 64)>>
    ELSE <<240 + (c \div 262144), 128 + ((c \div 4096) % 64),
           128 + ((c \div 64) % 64), 128 + (c % 64)>>

LeadSurrogates == 55296 .. 56319
TrailSurrogates == 56320 .. 57343

SurrogatePair(lead, trail) ==
    65536 + 1024 * (lead - 55296) + (trail - 56320)

\* An escaped code unit that is no lead surrogate.
SlowUnicode ==
    /\ Reading
    /\ input[p] = Backslash /\ ~at_eof(p + 1) /\ input[p + 1] = LetterU
    /\ LET at == p + 2
       IN  \/ /\ ~has_remaining_characters(at, 4)
              /\ Refuse(at, "UNEXPECTED_END")
           \/ /\ has_remaining_characters(at, 4)
              /\ BadHex(at) # {}
              /\ Refuse(Min(BadHex(at)) + 1, "INVALID_UNICODE_ESCAPE")
           \/ /\ has_remaining_characters(at, 4)
              /\ BadHex(at) = {}
              /\ read_hex(at) \notin LeadSurrogates
              /\ Write(write_utf8(read_hex(at)), at + 4)

\* A lead surrogate, which needs its trail.
SlowSurrogates ==
    /\ Reading
    /\ input[p] = Backslash /\ ~at_eof(p + 1) /\ input[p + 1] = LetterU
    /\ LET at == p + 6
       IN  /\ has_remaining_characters(p + 2, 4)
           /\ BadHex(p + 2) = {}
           /\ read_hex(p + 2) \in LeadSurrogates
           /\ \/ /\ ~has_remaining_characters(at, 6)
                 /\ Refuse(at, "UNEXPECTED_END_OF_UTF16")
              \/ /\ has_remaining_characters(at, 6)
                 /\ input[at] # Backslash \/ input[at + 1] # LetterU
                 /\ Refuse(at, "EXPECTED_U")
              \/ /\ has_remaining_characters(at, 6)
                 /\ input[at] = Backslash /\ input[at + 1] = LetterU
                 /\ \/ /\ BadHex(at + 2) # {}
                       /\ Refuse(Min(BadHex(at + 2)) + 1,
                                 "INVALID_UNICODE_ESCAPE")
                    \/ /\ BadHex(at + 2) = {}
                       /\ read_hex(at + 2) \notin TrailSurrogates
                       /\ Refuse(at + 6, "INVALID_UTF16_TRAIL_SURROGATE")
                    \/ /\ BadHex(at + 2) = {}
                       /\ read_hex(at + 2) \in TrailSurrogates
                       /\ Write(write_utf8(SurrogatePair(read_hex(p + 2),
                                                         read_hex(at + 2))),
                                at + 6)

\* The length of a sequence of UTF-8 by its first byte, 0 if there is none.
\* Continuation bytes and the leads of overlong forms count as leads of two.
SequenceLength(c) ==
    IF c < 128 THEN 1 ELSE IF c < 224 THEN 2
    ELSE IF c < 240 THEN 3 ELSE IF c < 248 THEN 4 ELSE 0

Continuation_any_bug(c) == c >= 128

Continuation(c) == c \in 128 .. 191

SlowUtf8 ==
    /\ Reading
    /\ input[p] >= 32 /\ input[p] \notin {Quote, Backslash}
    /\ LET n == SequenceLength(input[p])
           bad == {i \in p + 1 .. p + n - 1 : ~Continuation(input[i])}
       IN  \/ /\ n = 0
              /\ Refuse(p, "INVALID_UTF8")
           \/ /\ n > 0
              /\ ~has_remaining_characters(p, n)
              /\ Refuse(p, "UNEXPECTED_END")
           \/ /\ n > 0
              /\ has_remaining_characters(p, n)
              /\ \/ /\ bad # {}
                    /\ Refuse(Min(bad), "INVALID_UTF8")
                 \/ /\ bad = {}
                    /\ Write([i \in 1 .. n |-> input[p + i - 1]], p + n)

parse_string_slow ==
    /\ \/ SlowEnd
       \/ SlowControl
       \/ SlowClose
       \/ SlowEscape
       \/ SlowUnicode
       \/ SlowSurrogates
       \/ SlowUtf8
    /\ start' = start

parse_string ==
    \/ Scan
    \/ Found
    \/ parse_string_slow
=============================================================================
