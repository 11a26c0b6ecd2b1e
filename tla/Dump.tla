-------------------------------- MODULE Dump ---------------------------------
(***************************************************************************)
(* sajson::write of include/sajson_dump.h: a value is written to a file    *)
(* through the buffer of FileOut.  The recursion of dump, dump_array and   *)
(* dump_object is a stack of frames, each an iterator of include/sajson.h  *)
(* over an array or object, and what they hand to FileOut is written one   *)
(* += a step.                                                              *)
(*                                                                         *)
(* A character is a string of the model; what is written at a time is a    *)
(* sequence of them, since FileOut treats it by its length.                *)
(*                                                                         *)
(* A definition whose name ends in _bug is no part of the specification:   *)
(* it is the definition that follows with a defect a programmer might have *)
(* made, for which some property must fail.                                *)
(***************************************************************************)
EXTENDS Integers, Sequences, SequencesExt

CONSTANTS
    Values,    \* the values written
    Nodes,     \* those, and the values in them
    Characters, \* those of strings, keys and numbers, and those dump writes
    Capacity   \* of the buffer of FileOut (65536)

ASSUME CapacityAssumption == Capacity \in Nat \ {0}

ASSUME CharactersAssumption ==
    {"[", "]", "{", "}", ",", ":", "newline", "space", "quote", "backslash",
     "n", "u", "l", "f", "a", "s", "e", "-"} \subseteq Characters

Text == Seq(Characters)

-----------------------------------------------------------------------------
(***************************************************************************)
(* std::to_string.  A finite double is a whole number of millionths, and   *)
(* the digits that are left behind its sixth decimal, the last no zero: a  *)
(* double has an end in the decimal system, too.                           *)
(***************************************************************************)
DigitNames == <<"0", "1", "2", "3", "4", "5", "6", "7", "8", "9">>
Million == 1000000

Decimal[n \in Nat] ==
    IF n < 10 THEN <<DigitNames[n + 1]>>
    ELSE Append(Decimal[n \div 10], DigitNames[(n % 10) + 1])
SixDigits(n) ==
    [i \in 1 .. 6 |-> DigitNames[((n \div (10 ^ (6 - i))) % 10) + 1]]

Sign(negative) == IF negative THEN <<"-">> ELSE <<>>
FixedPoint(n) == Decimal[n \div Million] \o <<".">> \o SixDigits(n % Million)

\* To the nearest millionth, of two to the even one.
RoundsUp(v) ==
    /\ v.tail # <<>>
    /\ \/ Head(v.tail) \in {"6", "7", "8", "9"}
       \/ Head(v.tail) = "5" /\ (Len(v.tail) > 1 \/ v.millionths % 2 = 1)

\* "%d", and "%f" with its six decimals.
to_string(v) ==
    CASE v.type = "integer" ->
             Sign(v.number < 0)
                 \o Decimal[IF v.number < 0 THEN -v.number ELSE v.number]
      [] v.type = "double" /\ v.class = "finite" ->
             Sign(v.negative)
                 \o FixedPoint(v.millionths + (IF RoundsUp(v) THEN 1 ELSE 0))
      [] v.type = "double" /\ v.class = "infinite" ->
             Sign(v.negative) \o <<"i", "n", "f">>
      [] v.type = "double" /\ v.class = "nan" ->
             Sign(v.negative) \o <<"n", "a", "n">>

-----------------------------------------------------------------------------
IsDouble(v) ==
    /\ v.class \in {"finite", "infinite", "nan"} /\ v.negative \in BOOLEAN
    /\ v.class = "finite" =>
          /\ v.millionths \in Nat /\ FixedPoint(v.millionths) \in Text
          /\ v.tail \in Text

\* What a value may be.  What a number is written as is text.
IsNode(v) ==
    CASE v.type = "array" ->
             v.elements \in Seq(Nodes)
      [] v.type = "object" ->
             v.members \in Seq([key : Text, value : Nodes])
      [] v.type = "string" -> v.text \in Text
      [] v.type = "integer" -> v.number \in Int /\ to_string(v) \in Text
      [] v.type = "double" -> IsDouble(v) /\ to_string(v) \in Text
      [] OTHER -> v.type \in {"null", "false", "true"}

ASSUME NodesAssumption ==
    /\ Values \subseteq Nodes
    /\ \A v \in Nodes : IsNode(v)

VARIABLES
    dump_pc,   \* where dump is
    value,     \* the value written
    current,   \* the value dump is called with
    indent,    \* the argument indent of that call; -1 is none
    frames,    \* the calls of dump_array and dump_object, the innermost last
    pos,       \* the variable of dump_string
    pieces,    \* what is written next, one += each
    buf,       \* FileOut::_buf
    file,      \* what fwrite has been given
    size,      \* FileOut::_size
    returned,  \* what write() returns
    emitted    \* history: every character dump has written

fileVars == <<buf, file, size, emitted>>
dumpVars == <<dump_pc, value, current, indent, frames, pos, pieces, returned,
              fileVars>>

DumpInit ==
    /\ dump_pc = "dump"
    /\ value \in Values
    /\ current = value
    /\ indent \in {-1, 0}
    /\ frames = <<>> /\ pos = 0 /\ pieces = <<>>
    /\ buf = <<>> /\ file = <<>> /\ size = 0 /\ returned = 0
    /\ emitted = <<>>

-----------------------------------------------------------------------------
(***************************************************************************)
(* FileOut.                                                                *)
(***************************************************************************)
Appended_overtakes_bug(o, text) ==
    LET full == Len(o.buf) + Len(text) > Capacity
        flushed == IF full THEN [buf |-> <<>>, file |-> o.file \o o.buf] ELSE o
    IN  IF Len(text) > Capacity
        THEN [o EXCEPT !.file = @ \o text]
        ELSE [flushed EXCEPT !.buf = @ \o text]

\* operator +=: the buffer is flushed first if there is no room, and what does
\* not fit an empty one is written as it is.
Appended(o, text) ==
    LET full == Len(o.buf) + Len(text) > Capacity
        flushed == IF full THEN [buf |-> <<>>, file |-> o.file \o o.buf] ELSE o
    IN  IF Len(text) > Capacity
        THEN [flushed EXCEPT !.file = @ \o text]
        ELSE [flushed EXCEPT !.buf = @ \o text]

Write ==
    /\ pieces # <<>>
    /\ LET o == Appended([buf |-> buf, file |-> file], Head(pieces))
       IN  /\ buf' = o.buf
           /\ file' = o.file
           /\ size' = Len(o.file)
    /\ emitted' = emitted \o Head(pieces)
    /\ pieces' = Tail(pieces)
    /\ UNCHANGED <<dump_pc, value, current, indent, frames, pos, returned>>

\* Dump goes on when what it has written is with FileOut.
At(place) == dump_pc = place /\ pieces = <<>>

Emit(texts, place) ==
    /\ pieces' = texts
    /\ dump_pc' = place
    /\ UNCHANGED <<value, returned, fileVars>>

-----------------------------------------------------------------------------
(***************************************************************************)
(* Iterators of array and object.                                          *)
(***************************************************************************)
Children(v) == IF v.type = "array" THEN v.elements ELSE v.members
get_length(v) == Len(Children(v))

advance_index_skips_bug(v, index, offset) ==
    IF \/ offset < 0 /\ index > offset
       \/ offset > 0 /\ index + offset < get_length(v) - 1
    THEN index + offset
    ELSE get_length(v)

\* What is no step inside the container goes to its end.
advance_index(v, index, offset) ==
    IF \/ offset < 0 /\ index > offset
       \/ offset > 0 /\ index + offset <= get_length(v)
    THEN index + offset
    ELSE get_length(v)

-----------------------------------------------------------------------------
(***************************************************************************)
(* dump.                                                                   *)
(***************************************************************************)
Spaces(n) == IF n > 0 THEN [i \in 1 .. n |-> <<"space", "space">>] ELSE <<>>
NewLine(n) == (IF n # 0 THEN <<<<"newline">>>> ELSE <<>>) \o Spaces(n)

Quotes == <<"quote">>

\* dump_string copies what is between the characters it escapes in one piece,
\* and a tab comes out as a line feed does.  Any other control character is
\* copied.
Escaped == {"quote", "lf", "tab", "backslash"}

EscapedAs(c) == IF c \in {"lf", "tab"} THEN <<"n">> ELSE <<c>>

DumpString ==
    /\ At("dump")
    /\ current.type = "string"
    /\ pos' = 0
    /\ Emit(<<Quotes>>, "dump_string")
    /\ UNCHANGED <<current, indent, frames>>

\* One round of its loop: up to the next character to be escaped, or the rest.
StringPiece ==
    /\ At("dump_string")
    /\ LET s == current.text
           found == {n \in pos + 1 .. Len(s) : s[n] \in Escaped}
       IN  \/ /\ found = {}
              /\ Emit(<<SubSeq(s, pos + 1, Len(s)), Quotes>>, "after")
              /\ pos' = pos
           \/ \E n \in found :
                 /\ \A m \in found : n <= m
                 /\ Emit(<<SubSeq(s, pos + 1, n - 1), <<"backslash">>,
                           EscapedAs(s[n])>>, "dump_string")
                 /\ pos' = n
    /\ UNCHANGED <<current, indent, frames>>

\* The text of another scalar.  "true" is written as "false".
ScalarText(v) ==
    CASE v.type \in {"integer", "double"} -> to_string(v)
      [] v.type = "null" -> <<"n", "u", "l", "l">>
      [] v.type \in {"false", "true"} -> <<"f", "a", "l", "s", "e">>

Containers == {"array", "object"}
Opening(v) == IF v.type = "array" THEN <<"[">> ELSE <<"{">>
Closing(v) == IF v.type = "array" THEN <<"]">> ELSE <<"}">>

top == Last(frames)

DumpScalar ==
    /\ At("dump")
    /\ current.type \notin Containers \cup {"string"}
    /\ Emit(<<ScalarText(current)>>, "after")
    /\ UNCHANGED <<current, indent, frames, pos>>

DumpContainer ==
    /\ At("dump")
    /\ current.type \in Containers
    /\ Emit(<<Opening(current)>>, "loop")
    /\ frames' = Append(frames, [container |-> current, index |-> 0])
    /\ indent' = IF indent # -1 THEN indent + 1 ELSE indent
    /\ UNCHANGED <<current, pos>>

\* The key of a member is written as it is.
KeyText(v, index) ==
    IF v.type = "array" THEN <<>>
    ELSE <<Quotes, v.members[index + 1].key, Quotes, <<":">>>>
             \o (IF indent # 0 THEN <<<<"space">>>> ELSE <<>>)

Child(v, index) ==
    IF v.type = "array" THEN v.elements[index + 1]
    ELSE v.members[index + 1].value

DumpChild ==
    /\ At("loop")
    /\ top.index # get_length(top.container)
    /\ Emit(NewLine(indent) \o KeyText(top.container, top.index), "dump")
    /\ current' = Child(top.container, top.index)
    /\ UNCHANGED <<indent, frames, pos>>

\* Is this child followed by another?
CommaAfter(index, n) == index + 1 < n

\* Back in dump_array or dump_object, after a child.
AfterChild ==
    /\ At("after")
    /\ frames # <<>>
    /\ Emit(IF CommaAfter(top.index, get_length(top.container))
            THEN <<<<",">>>> ELSE <<>>, "loop")
    /\ frames' = [frames EXCEPT ![Len(frames)].index =
                      advance_index(top.container, @, 1)]
    /\ UNCHANGED <<current, indent, pos>>

CloseContainer ==
    /\ At("loop")
    /\ top.index = get_length(top.container)
    /\ indent' = IF indent # -1 THEN indent - 1 ELSE indent
    /\ Emit((IF indent # -1 THEN <<<<"newline">>>> \o Spaces(indent') ELSE <<>>)
                \o <<Closing(top.container)>>, "after")
    /\ frames' = Front(frames)
    /\ UNCHANGED <<current, pos>>

\* write() takes the size for its result before the FileOut is destroyed.
ReturnSize ==
    /\ At("after")
    /\ frames = <<>>
    /\ returned' = size
    /\ dump_pc' = "~FileOut"
    /\ UNCHANGED <<value, current, indent, frames, pos, pieces, fileVars>>

Flush ==
    /\ dump_pc = "~FileOut"
    /\ file' = file \o buf
    /\ size' = size + Len(buf)
    /\ buf' = <<>>
    /\ dump_pc' = "written"
    /\ UNCHANGED <<value, current, indent, frames, pos, pieces, returned,
                   emitted>>

DumpNext ==
    \/ Write
    \/ DumpString
    \/ StringPiece
    \/ DumpScalar
    \/ DumpContainer
    \/ DumpChild
    \/ AfterChild
    \/ CloseContainer
    \/ ReturnSize
    \/ Flush

-----------------------------------------------------------------------------
(***************************************************************************)
(* What is promised.                                                       *)
(***************************************************************************)
\* The file and the buffer hold every character written, once and in order,
\* whatever was flushed or bypassed the buffer; the buffer never grows.
FileKeepsAll ==
    /\ file \o buf = emitted
    /\ Len(buf) <= Capacity
    /\ dump_pc = "written" => file = emitted
=============================================================================
