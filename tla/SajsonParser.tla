---------------------------- MODULE SajsonParser ----------------------------
(***************************************************************************)
(* parser<Allocator>::parse() of include/sajson.h, at the granularity of   *)
(* its goto labels, over the word memory the allocation strategies give    *)
(* it: a parse stack that grows up and an AST that grows down.             *)
(*                                                                         *)
(* The input text is not a variable.  The parser reads every byte at the   *)
(* moment it decides about it and never again, so each action chooses the  *)
(* bytes it reads; the variable p is the offset of the parser in an input  *)
(* of input_length bytes, and the choices respect how many bytes each      *)
(* token takes.  That relation, bytes read against words written, is what  *)
(* the strategies without allocation checks stand on.                      *)
(*                                                                         *)
(* A definition whose name ends in _bug is no part of the specification:   *)
(* it is the definition that follows with a defect a programmer might have *)
(* made, for which some property must fail.                                *)
(***************************************************************************)
EXTENDS Integers, Functions

CONSTANTS
    Strategy,      \* the allocation strategy the parser is instantiated with
    Lengths,       \* the lengths of the input texts considered
    Capacity,      \* words in the caller's buffer ("existing", "bounded")
    SortAbove,     \* objects with more members than this are sorted (100)
    DoubleWords,   \* double_storage::word_length: 1, or 2 on 32 bits
    RootMarker,    \* ROOT_MARKER, the largest value a word can carry
    NumberWidths,  \* bytes a number token may take
    StringWidths,  \* bytes a string token may take, its quotes included
    Gaps,          \* bytes of whitespace that may precede a token
    KeyBytes       \* the decoded key that starts at an offset, as a number

\* "single" is single_allocation on the heap, "existing" the same strategy
\* over a buffer of the caller.
Strategies == {"single", "existing", "dynamic", "bounded"}

ASSUME StrategyAssumption == Strategy \in Strategies

ASSUME SizesAssumption ==
    /\ Lengths \subseteq Nat
    /\ Capacity \in Nat
    /\ SortAbove \in Nat
    /\ DoubleWords \in {1, 2}
    /\ NumberWidths \subseteq Nat \ {0}
    /\ StringWidths \subseteq Nat \ {0, 1}
    /\ Gaps \subseteq Nat

\* The bytes of a key read as one number: for keys of one length memcmp orders
\* them as these numbers are ordered.
ASSUME KeyBytesAssumption ==
    \A n \in Lengths : \A i \in 0 .. n : KeyBytes[i] \in Nat

\* No buffer of size_t has as many words as VALUE_MASK: an array cannot take
\* more than half the address space.  make_element therefore never truncates
\* an offset, and no offset is mistaken for the mark of the root.
ASSUME RootMarkerAssumption ==
    /\ RootMarker \in Nat
    /\ RootMarker > Capacity
    /\ \A n \in Lengths : RootMarker > n

VARIABLES
    input_length,           \* input_end - input.get_data()
    pc,                     \* the label the parser has reached
    p,                      \* offset of the byte being parsed
    mem,                    \* the words written so far: address -> word
    stack_top,              \* words on the parse stack
    write_offset,           \* allocator.get_write_offset()
    current_base,           \* stack offset of the open structure's header
    current_structure_tag,  \* "array" or "object"
    pop_element,            \* header of the structure being closed
    todo,                   \* words the install loop has still to move
    root_tag,               \* what get_document() is given on success
    error                   \* error_code, "none" until make_error runs

vars == <<input_length, pc, p, mem, stack_top, write_offset, current_base,
          current_structure_tag, pop_element, todo, root_tag, error>>

StructureTags == {"array", "object"}
ValueTags == {"integer", "double", "null", "false", "true", "string"}
                 \cup StructureTags

\* A machine word: a tagged element, or a plain number ("raw": a length, a
\* string boundary, a number's bits).
Words == [tag : ValueTags \cup {"raw"}, val : Int]
Element(t, v) == [tag |-> t, val |-> v]
Raw(v) == [tag |-> "raw", val |-> v]

\* At these labels a structure is open, and at those it is being closed.
Opened == {"array_close_or_element", "object_close_or_element",
           "structure_close_or_comma", "object_key", "expect_colon",
           "next_element"}
Closing == {"install", "pop"}

Running == {"parse", "array_close_or_element", "object_close_or_element",
            "structure_close_or_comma", "object_key", "expect_colon",
            "next_element", "install", "pop"}
Labels == Running \cup {"make_allocator", "accepted", "rejected"}

StringErrors == {"ILLEGAL_CODEPOINT", "INVALID_ESCAPE",
                 "INVALID_UNICODE_ESCAPE", "INVALID_UTF8"}
Errors == StringErrors \cup
    {"OUT_OF_MEMORY", "UNEXPECTED_END", "MISSING_ROOT_ELEMENT", "BAD_ROOT",
     "EXPECTED_COMMA", "MISSING_OBJECT_KEY", "EXPECTED_COLON",
     "EXPECTED_END_OF_INPUT", "EXPECTED_VALUE", "UNEXPECTED_COMMA",
     "EXPECTED_NULL", "EXPECTED_FALSE", "EXPECTED_TRUE", "INVALID_NUMBER",
     "MISSING_EXPONENT"}

-----------------------------------------------------------------------------
(***************************************************************************)
(* Memory.  Stack offset i is address i under every strategy; the AST word *)
(* at write offset v is address structure_end - v.  single_allocation puts *)
(* both in one buffer of input_length words, bounded_allocation in the     *)
(* caller's buffer, dynamic_allocation in two buffers: there the AST has   *)
(* the negative addresses.                                                 *)
(***************************************************************************)
structure_end ==
    IF Strategy = "dynamic" THEN 0
    ELSE IF Strategy = "bounded" THEN Capacity ELSE input_length

write_cursor == structure_end - write_offset

\* The memory m with the given words, a function of addresses, stored over it.
Store(m, words) ==
    [a \in DOMAIN m \cup DOMAIN words |->
        IF a \in DOMAIN words THEN words[a] ELSE m[a]]

\* One word at address a; two words from address a on.
At(a, w) == [x \in {a} |-> w]
Pair(a, w1, w2) == [x \in {a, a + 1} |-> IF x = a THEN w1 ELSE w2]

NoRoom_late_bug(top, off, amount) ==
    Strategy = "bounded" /\ (Capacity - off) - top < amount - 1

NoRoom_early_bug(top, off, amount) ==
    Strategy = "bounded" /\ (Capacity - off) - top <= amount

\* bounded_allocation's can_grow(amount) is false, with top words on the
\* stack and off words in the AST.
NoRoom(top, off, amount) ==
    Strategy = "bounded" /\ (Capacity - off) - top < amount

\* dynamic_allocation's can_grow has to allocate, and is refused: a buffer
\* known to hold `have` words (and at least one) must hold `need`.
GrowthFails(have, need) ==
    Strategy = "dynamic" /\ need > have /\ need > 1

\* make_allocator and get_stack_head hand out no memory.
NoMemory ==
    \/ Strategy = "existing" /\ Capacity < input_length
    \/ Strategy \in {"single", "dynamic"}

HasMemory_unchecked_bug == TRUE
HasMemory == Strategy = "existing" => Capacity >= input_length

-----------------------------------------------------------------------------
(***************************************************************************)
(* The input.                                                              *)
(***************************************************************************)

\* Where skip_whitespace(q) may stop at a byte that is not whitespace.
NonSpace(q) == {r \in q .. input_length - 1 : r - q \in Gaps}

\* How long the decoded text of `raw` source bytes may be: an escape of two
\* bytes stands for one, \uXXXX for one to three, a surrogate pair for four.
DecodedLengths(raw) ==
    {k \in 0 .. raw :
        \E e, u1, u2, u3, pairs \in 0 .. raw :
            /\ 2 * e + 6 * (u1 + u2 + u3) + 12 * pairs <= raw
            /\ k = raw - e - 5 * u1 - 4 * u2 - 3 * u3 - 8 * pairs}

\* The longest text parse_number turns into an int: "-2147483648".
LongestInteger == 11

LiteralWidth == [null |-> 4, false |-> 5, true |-> 4]
ExpectedLiteral == [null |-> "EXPECTED_NULL", false |-> "EXPECTED_FALSE",
                    true |-> "EXPECTED_TRUE"]

-----------------------------------------------------------------------------

\* The variables the code has not initialised yet get values nobody reads.
Init ==
    /\ input_length \in Lengths
    /\ pc = "make_allocator"
    /\ p = 0
    /\ mem = [a \in {} |-> Raw(0)]
    /\ stack_top = 0
    /\ write_offset = 0
    /\ current_base = 0
    /\ current_structure_tag = "array"
    /\ pop_element = Raw(0)
    /\ todo = 0
    /\ root_tag = "null"
    /\ error = "none"

\* make_error: parse() returns false.  Its locals die with it, so that what
\* they would have become on the way no longer matters.
Reject(code) ==
    /\ pc' = "rejected"
    /\ error' = code
    /\ UNCHANGED <<input_length, p, mem, stack_top, write_offset, current_base,
                   current_structure_tag, pop_element, todo, root_tag>>

\* skip_whitespace(p) finds nothing but whitespace, whatever p is.
OnlySpaceLeft(code) == Reject(code)

\* parse() the function, make_allocator and get_stack_head.
MakeAllocator ==
    /\ pc = "make_allocator"
    /\ \/ NoMemory /\ Reject("OUT_OF_MEMORY")
       \/ /\ HasMemory
          /\ pc' = "parse"
          /\ UNCHANGED <<input_length, p, mem, stack_top, write_offset,
                         current_base, current_structure_tag, pop_element,
                         todo, root_tag, error>>

AfterOpening_array_bug(t) == "array_close_or_element"
AfterOpening(t) ==
    IF t = "array" THEN "array_close_or_element" ELSE "object_close_or_element"

\* The bracket at r opens a structure of tag t: push the header that says
\* how to get back to the enclosing one, and start at its base.
OpenStructure(r, t, header) ==
    \/ /\ ~NoRoom(stack_top, write_offset, 1)
       /\ mem' = Store(mem, At(stack_top, header))
       /\ current_base' = stack_top
       /\ stack_top' = stack_top + 1
       /\ current_structure_tag' = t
       /\ p' = r
       /\ pc' = AfterOpening(t)
       /\ UNCHANGED <<input_length, write_offset, pop_element, todo, root_tag,
                      error>>
    \/ /\ \/ NoRoom(stack_top, write_offset, 1)
          \/ GrowthFails(stack_top, stack_top + 1)
       /\ Reject("OUT_OF_MEMORY")

\* The entry of parse(): the root must be an array or an object.
ParseRoot ==
    /\ pc = "parse"
    /\ \/ OnlySpaceLeft("MISSING_ROOT_ELEMENT")
       \/ \E r \in NonSpace(p) :
            \/ \E t \in StructureTags :
                    OpenStructure(r, t, Element(t, RootMarker))
            \/ Reject("BAD_ROOT")

\* A value of tag t has been parsed up to q, its AST words are the given
\* ones, growing the AST to off words: push its element.
PushValue(t, q, words, off) ==
    \/ /\ ~NoRoom(stack_top, off, 1)
       /\ mem' = Store(Store(mem, words), At(stack_top, Element(t, off)))
       /\ stack_top' = stack_top + 1
       /\ write_offset' = off
       /\ p' = q
       /\ pc' = "structure_close_or_comma"
       /\ UNCHANGED <<input_length, current_base, current_structure_tag,
                      pop_element, todo, root_tag, error>>
    \/ /\ \/ NoRoom(stack_top, off, 1)
          \/ GrowthFails(stack_top, stack_top + 1)
       /\ Reject("OUT_OF_MEMORY")

NoWords == [a \in {} |-> Raw(0)]

\* parse_null, parse_false, parse_true
Literal(r) ==
    \E t \in {"null", "false", "true"} :
        IF r + LiteralWidth[t] <= input_length
        THEN \/ PushValue(t, r + LiteralWidth[t], NoWords, write_offset)
             \/ Reject(ExpectedLiteral[t])
        ELSE Reject("UNEXPECTED_END")

\* The words a number takes.
NumberWords == [integer |-> 1, double |-> DoubleWords]

NumberWidthsOf_any_bug(t) == NumberWidths

\* parse_number reads the byte after the number before it believes the
\* number: w bytes at r need an input longer than r + w.
NumberWidthsOf(t) ==
    IF t = "integer" THEN {w \in NumberWidths : w <= LongestInteger}
                     ELSE {w \in NumberWidths : w >= 3}

\* Errors of parse_number, by the offset of the first byte after them.
NumberErrors(r) ==
    {"UNEXPECTED_END"}
      \cup (IF r + 1 < input_length THEN {"INVALID_NUMBER"} ELSE {})
      \cup (IF r + 2 < input_length THEN {"MISSING_EXPONENT"} ELSE {})

\* The AST words of a number stand for its value by where its text starts.
Number(r) ==
    \/ \E t \in {"integer", "double"} :
         \E w \in {x \in NumberWidthsOf(t) : r + x < input_length} :
            LET k == NumberWords[t]
            IN  \/ /\ ~NoRoom(stack_top, write_offset, k)
                   /\ PushValue(t, r + w,
                                [a \in write_cursor - k .. write_cursor - 1 |->
                                    Raw(r)],
                                write_offset + k)
                \/ /\ \/ NoRoom(stack_top, write_offset, k)
                      \/ GrowthFails(write_offset, write_offset + k)
                   /\ Reject("OUT_OF_MEMORY")
    \/ \E e \in NumberErrors(r) : Reject(e)

\* parse_string on the quote at r: the offsets where the token ends, and the
\* boundaries of the decoded text it stores in tag[0] and tag[1].
StringEnds_unchecked_bug(r) == {r + w : w \in StringWidths}
StringEnds(r) == {r + w : w \in {x \in StringWidths : r + x <= input_length}}
DecodedEnds(r, q) == {r + 1 + k : k \in DecodedLengths(q - r - 2)}

StringErrorsAt(r) ==
    {"UNEXPECTED_END"} \cup (IF r + 1 < input_length THEN StringErrors ELSE {})

\* case '"': the two words are reserved before the string is looked at.
String(r) ==
    \/ /\ ~NoRoom(stack_top, write_offset, 2)
       /\ \/ \E q \in StringEnds(r) : \E e \in DecodedEnds(r, q) :
                PushValue("string", q,
                          Pair(write_cursor - 2, Raw(r + 1), Raw(e)),
                          write_offset + 2)
          \/ \E e \in StringErrorsAt(r) : Reject(e)
    \/ /\ \/ NoRoom(stack_top, write_offset, 2)
          \/ GrowthFails(write_offset, write_offset + 2)
       /\ Reject("OUT_OF_MEMORY")

\* The switch of next_element, at the byte r.
Switch(r) ==
    \/ Literal(r)
    \/ Number(r)
    \/ String(r)
    \/ \E t \in StructureTags :
            OpenStructure(r, t, Element(current_structure_tag, current_base))
    \/ \E e \in {"UNEXPECTED_END", "UNEXPECTED_COMMA", "EXPECTED_VALUE"} :
            Reject(e)

NextElement ==
    /\ pc = "next_element"
    /\ \/ OnlySpaceLeft("UNEXPECTED_END")
       \/ \E r \in NonSpace(p) : Switch(r)

\* The key whose quote is at r, into two words of the stack.
Key(r) ==
    \/ /\ ~NoRoom(stack_top, write_offset, 2)
       /\ \/ \E q \in StringEnds(r) : \E e \in DecodedEnds(r, q) :
                /\ mem' = Store(mem, Pair(stack_top, Raw(r + 1), Raw(e)))
                /\ stack_top' = stack_top + 2
                /\ p' = q
                /\ pc' = "expect_colon"
                /\ UNCHANGED <<input_length, write_offset, current_base,
                               current_structure_tag, pop_element, todo,
                               root_tag, error>>
          \/ \E e \in StringErrorsAt(r) : Reject(e)
    \/ /\ \/ NoRoom(stack_top, write_offset, 2)
          \/ GrowthFails(stack_top, stack_top + 2)
       /\ Reject("OUT_OF_MEMORY")

\* object_key, at the byte r: a key, or a byte that is not a quote.
KeyAt(r) == Key(r) \/ Reject("MISSING_OBJECT_KEY")

ObjectKey ==
    /\ pc = "object_key"
    /\ \/ OnlySpaceLeft("UNEXPECTED_END")
       \/ \E r \in NonSpace(p) : KeyAt(r)

\* Take the delimiter at r and go on at a label.
Skip(r, label) ==
    /\ p' = r + 1
    /\ pc' = label
    /\ UNCHANGED <<input_length, mem, stack_top, write_offset, current_base,
                   current_structure_tag, pop_element, todo, root_tag, error>>

\* The second half of object_key.  A missing byte and a wrong one are the
\* same error here.
ExpectColon ==
    /\ pc = "expect_colon"
    /\ \/ Reject("EXPECTED_COLON")
       \/ \E r \in NonSpace(p) : Skip(r, "next_element")

-----------------------------------------------------------------------------
(***************************************************************************)
(* Closing a structure: install_array and install_object move the words of *)
(* its frame, base_ptr + 1 up to the top of the stack, into the AST.  With *)
(* one shared buffer the two ranges may overlap, and the loop is modelled  *)
(* word by word.                                                           *)
(***************************************************************************)
FrameLength == stack_top - (current_base + 1)

MembersOf(words) == words \div 3

\* A record <<key start, key end, value>> per member, the first on top of the
\* header.
KeyOf(i) ==
    <<mem[current_base + 3 * i - 2].val, mem[current_base + 3 * i - 1].val>>

KeyLength(k) == k[2] - k[1]

\* What memcmp compares: nothing, if the keys are empty.
BytesOf(k) == IF KeyLength(k) = 0 THEN 0 ELSE KeyBytes[k[1]]

\* object_key_comparator, on keys given by where they start and end.
Less(lhs, rhs) ==
    \/ KeyLength(lhs) < KeyLength(rhs)
    \/ KeyLength(lhs) = KeyLength(rhs) /\ BytesOf(lhs) < BytesOf(rhs)

MemberOrders_lengths_bug(n) ==
    {f \in Bijection(1 .. n, 1 .. n) : \A i, j \in 1 .. n :
        i < j => KeyLength(KeyOf(f[i])) <= KeyLength(KeyOf(f[j]))}

\* The orders std::sort may put n records in: it is not stable, so that equal
\* keys may change places.
MemberOrders(n) ==
    {f \in Bijection(1 .. n, 1 .. n) : \A i, j \in 1 .. n :
        i < j => ~Less(KeyOf(f[j]), KeyOf(f[i]))}

\* Word a of the frame belongs to this record, and is this part of it.
RecordOf(a) == (a - current_base - 1) \div 3 + 1
PartOf(a) == ((a - current_base - 1) % 3) + 1

SortedMembers_keys_bug(n) ==
    {[a \in DOMAIN mem |->
        IF a \in current_base + 1 .. current_base + 3 * n /\ PartOf(a) # 3
        THEN mem[current_base + 3 * (f[RecordOf(a)] - 1) + PartOf(a)]
        ELSE mem[a]] : f \in MemberOrders(n)}

\* The memory with the first n records sorted.
SortedMembers(n) ==
    {[a \in DOMAIN mem |->
        IF a \in current_base + 1 .. current_base + 3 * n
        THEN mem[current_base + 3 * (f[RecordOf(a)] - 1) + PartOf(a)]
        ELSE mem[a]] : f \in MemberOrders(n)}

\* should_binary_search
Sorts(t, words) == t = "object" /\ MembersOf(words) > SortAbove

\* pop_array and pop_object up to the loop, the closing bracket being at r.
CloseStructure(r) ==
    \/ /\ ~NoRoom(stack_top, write_offset, FrameLength + 1)
       /\ p' = r + 1
       /\ pop_element' = mem[current_base]
       /\ mem' \in IF Sorts(current_structure_tag, FrameLength)
                   THEN SortedMembers(MembersOf(FrameLength)) ELSE {mem}
       /\ write_offset' = write_offset + FrameLength + 1
       /\ todo' = FrameLength
       /\ pc' = "install"
       /\ UNCHANGED <<input_length, stack_top, current_base,
                      current_structure_tag, root_tag, error>>
    \/ /\ \/ NoRoom(stack_top, write_offset, FrameLength + 1)
          \/ GrowthFails(write_offset, write_offset + FrameLength + 1)
       /\ Reject("OUT_OF_MEMORY")

Relocate_off_by_one_bug(w) ==
    Element(w.tag, (structure_end - w.val) - write_cursor - 1)

\* An element on the stack counts from the end of the AST, one in the AST
\* from the structure that holds it.
Relocate(w) == Element(w.tag, (structure_end - w.val) - write_cursor)

\* Of an object's record only the third word is an element.
IsElement(t, i) == t = "array" \/ i % 3 = 0

\* Word i of the frame, relocated if it is an element, goes to address a.
MoveWord(i, a) ==
    LET w == mem[current_base + i]
    IN  mem' = Store(mem, At(a, IF IsElement(current_structure_tag, i)
                                THEN Relocate(w) ELSE w))

InstallRest(left) ==
    /\ todo' = left
    /\ UNCHANGED <<input_length, pc, p, stack_top, write_offset, current_base,
                   current_structure_tag, pop_element, root_tag, error>>

CopyWord_one_up_bug ==
    /\ pc = "install" /\ todo > 0
    /\ MoveWord(todo, write_cursor + todo + 1)
    /\ InstallRest(todo - 1)

CopyWord_stuck_bug ==
    /\ pc = "install" /\ todo > 0
    /\ MoveWord(todo, write_cursor + todo)
    /\ InstallRest(todo)

\* One round of the install loop: the last word not yet moved.
CopyWord ==
    /\ pc = "install" /\ todo > 0
    /\ MoveWord(todo, write_cursor + todo)
    /\ InstallRest(todo - 1)

LengthWord_records_bug(t, words) == Raw(MembersOf(words))
LengthWord(t, words) == Raw(IF t = "array" THEN words ELSE MembersOf(words))

StoreLength_forgotten_bug ==
    /\ pc = "install" /\ todo = 0
    /\ pc' = "pop"
    /\ UNCHANGED <<input_length, p, mem, stack_top, write_offset, current_base,
                   current_structure_tag, pop_element, todo, root_tag, error>>

\* *--out = length, after the loop.
StoreLength ==
    /\ pc = "install" /\ todo = 0
    /\ mem' = Store(mem, At(write_cursor,
                            LengthWord(current_structure_tag, FrameLength)))
    /\ pc' = "pop"
    /\ UNCHANGED <<input_length, p, stack_top, write_offset, current_base,
                   current_structure_tag, pop_element, todo, root_tag, error>>

\* pop, when the structure closed was the root.
PopRoot ==
    /\ pc = "pop"
    /\ pop_element.val = RootMarker
    /\ root_tag' = current_structure_tag
    /\ \/ pc' = "accepted" /\ error' = error
       \/ /\ NonSpace(p) # {}
          /\ pc' = "rejected" /\ error' = "EXPECTED_END_OF_INPUT"
    /\ UNCHANGED <<input_length, p, mem, stack_top, write_offset, current_base,
                   current_structure_tag, pop_element, todo>>

\* Reset the stack to `base` words, push the element of the closed structure,
\* and go on with the enclosing one, which pop_element tells.
PopTo(base) ==
    /\ pc = "pop"
    /\ pop_element.val # RootMarker
    /\ ~NoRoom(base, write_offset, 1)
    /\ mem' = Store(mem, At(base, Element(current_structure_tag, write_offset)))
    /\ stack_top' = base + 1
    /\ current_base' = pop_element.val
    /\ current_structure_tag' = pop_element.tag
    /\ pc' = "structure_close_or_comma"
    /\ UNCHANGED <<input_length, p, write_offset, pop_element, todo, root_tag,
                   error>>

PopNested_no_reset_bug == PopTo(stack_top)
PopNested_outer_base_bug == PopTo(pop_element.val)

\* pop, when there is an enclosing structure: its element takes the place of
\* its header.  The code tests whether this push succeeds; it does, the stack
\* having just shrunk, and a state in which it would not is one where the
\* model could not go on.
PopNested == PopTo(current_base)

\* The byte after the opening bracket is skipped to; it is not read again
\* by next_element, which is why its switch is taken in the same step.
ArrayCloseOrElement ==
    /\ pc = "array_close_or_element"
    /\ \/ OnlySpaceLeft("UNEXPECTED_END")
       \/ \E r \in NonSpace(p + 1) : CloseStructure(r) \/ Switch(r)

ObjectCloseOrElement ==
    /\ pc = "object_close_or_element"
    /\ \/ OnlySpaceLeft("UNEXPECTED_END")
       \/ \E r \in NonSpace(p + 1) : CloseStructure(r) \/ KeyAt(r)

AfterComma_value_bug(t) == "next_element"
AfterComma(t) == IF t = "array" THEN "next_element" ELSE "object_key"

StructureCloseOrComma ==
    /\ pc = "structure_close_or_comma"
    /\ \/ OnlySpaceLeft("UNEXPECTED_END")
       \/ \E r \in NonSpace(p) :
            \/ CloseStructure(r)
            \/ Skip(r, AfterComma(current_structure_tag))
            \/ Reject("EXPECTED_COMMA")

Next ==
    \/ MakeAllocator
    \/ ParseRoot
    \/ ArrayCloseOrElement
    \/ ObjectCloseOrElement
    \/ StructureCloseOrComma
    \/ ObjectKey
    \/ ExpectColon
    \/ NextElement
    \/ CopyWord
    \/ StoreLength
    \/ PopRoot
    \/ PopNested

\* parse() is one thread of straight-line code: it takes its next step.
Spec == Init /\ [][Next]_vars /\ WF_vars(Next)

-----------------------------------------------------------------------------
(***************************************************************************)
(* Properties.                                                             *)
(***************************************************************************)

\* Every variable has the type of the code's variable; an offset into the
\* input never leaves it.
TypeOK ==
    /\ input_length \in Lengths
    /\ pc \in Labels
    /\ p \in 0 .. input_length
    /\ DOMAIN mem \subseteq Int
    /\ \A a \in DOMAIN mem : mem[a] \in Words
    /\ stack_top \in Nat
    /\ write_offset \in Nat
    /\ current_base \in Nat
    /\ current_structure_tag \in StructureTags
    /\ pop_element \in Words
    /\ todo \in Nat
    /\ root_tag \in StructureTags \cup {"null"}
    /\ error \in Errors \cup {"none"}

\* Strategies with one fixed buffer never write outside it, though only
\* bounded_allocation tests anything: for single_allocation "the AST and
\* parse stack are guaranteed to fit" (README), be it in its own buffer of
\* one word per byte or in the caller's.
BufferWords == IF Strategy = "single" THEN input_length ELSE Capacity

WritesInBounds ==
    Strategy # "dynamic" => DOMAIN mem \subseteq 0 .. BufferWords - 1

\* Why they fit: at every label the words in use are paid for by bytes of the
\* input already read, one word per byte, whatever the strategy (so no word of
\* any AST is further than the text is long).  After a value there may be one
\* word too many, which the comma or the bracket that must follow pays for;
\* while a structure is closed its frame may be overwritten, its header
\* included, so only what is below it counts.
WordsPaidFor ==
    /\ pc \in {"array_close_or_element", "object_close_or_element",
               "structure_close_or_comma"} =>
          stack_top + write_offset <= p + 1
    /\ pc \in {"object_key", "expect_colon", "next_element"} =>
          stack_top + write_offset <= p
    /\ pc \in {"install", "pop"} => current_base + write_offset <= p

\* The comment of bounded_allocation's can_grow: "invariant: stack_top <=
\* write_cursor".  Its subtraction is unsigned and relies on it.
BuffersNeverMeet == Strategy = "bounded" => stack_top <= write_cursor

\* A buffer of three words for every two bytes of the input is never too
\* small for bounded_allocation: what a user of that strategy has to provide.
RoomyBufferSuffices ==
    Strategy = "bounded" /\ 2 * Capacity >= 3 * input_length =>
        error # "OUT_OF_MEMORY"

\* The assertion of install_object, (object_end - object_base) % 3 == 0, and
\* what it rests on: between members the frame of an object holds whole
\* records, before a value it holds a key as well.
ObjectRecords ==
    current_structure_tag = "object" =>
        /\ pc \in {"object_close_or_element", "structure_close_or_comma",
                   "object_key", "install"} => FrameLength % 3 = 0
        /\ pc \in {"expect_colon", "next_element"} => FrameLength % 3 = 2

\* No word of an accepted document's AST was left unwritten.
AstWritten ==
    pc = "accepted" => write_cursor .. structure_end - 1 \subseteq DOMAIN mem

\* Where the finished part of the AST starts: above the structure being
\* installed.
InstalledFrom ==
    IF pc = "install" THEN write_cursor + FrameLength + 1 ELSE write_cursor

\* The parse is bound to fail: a structure is open, and the input has ended.
Doomed == pc = "structure_close_or_comma" /\ p = input_length

\* A finished word of the AST is never overwritten, by the stack that grows
\* towards it, by a later value or by an install loop - except by the last
\* push of a parse that has no byte left to succeed with.
AstKept ==
    [][\A a \in InstalledFrom .. structure_end - 1 :
            mem'[a] = mem[a] \/ Doomed']_vars

\* The frames of the structures that enclose the current one are never
\* overwritten, not even by the install loop that runs into its own frame.
EnclosingFramesKept ==
    [][\A a \in 0 .. current_base - 1 : mem'[a] = mem[a]]_vars

\* The i-th word of the frame being installed: still on the stack, or already
\* in the AST and counted back to what it was on the stack.
Unrelocate(w) == Element(w.tag, structure_end - (write_cursor + w.val))

FrameWord(i) ==
    IF i <= todo THEN mem[current_base + i]
    ELSE IF IsElement(current_structure_tag, i)
         THEN Unrelocate(mem[write_cursor + i])
         ELSE mem[write_cursor + i]

\* install_array and install_object are "careful to shift back-to-front"
\* (tests/test.cpp:1059): source and destination overlap, and yet the loop
\* never overwrites a word of the frame that it has not moved yet, nor one
\* that it has.
CopyKeepsFrame ==
    [][pc = "install" =>
        \A i \in 1 .. FrameLength : FrameWord(i)' = FrameWord(i)]_vars

\* parse() returns.
Termination == <>(pc \in {"accepted", "rejected"})
=============================================================================
