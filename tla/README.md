# A verification project for sajson

sajson is a single-header JSON parser in C++ (`src/include/sajson.h`). It
decodes strings in place in the input buffer, and lays the document out as
machine words in memory that one of several *allocation strategies* provides.
Most of its speed comes from what it does not do: with the default strategy no
push, no reservation and no copy is checked against the end of the buffer. That
this is right is an argument about every sequence of tokens, and this project
makes that argument twice: TLC checks it on short inputs, TLAPS proves it for
inputs of any length. Around it stand the parts that give the words their
meaning and the memory its owners: the decoding of strings and numbers byte by
byte, the lookup of keys, reference counts and moves, and the writer.

- [Inventory](#inventory)
- [Modules](#modules)
- [The parser model](#the-parser-model)
- [The heap model](#the-heap-model)
- [The value model](#the-value-model)
- [The ownership model](#the-ownership-model)
- [The reader model](#the-reader-model)
- [What fails in the code](#what-fails-in-the-code)
- [Runs and bounds](#runs-and-bounds)
- [Proofs](#proofs)
- [What is not modelled](#what-is-not-modelled)
- [Plan](#plan)

## Inventory

All line numbers are of `src/include/sajson.h` unless another file is named.

| Component | State | Operations | Correct when |
|---|---|---|---|
| **Parser state machine** (`parser`, 1782-2150) | label, `p`, `current_base`, `current_structure_tag`, `pop_element` (locals of `parse()`), `root_tag`, error fields | one `goto` label per state, the value switch, `make_error` | it returns; it never leaves the input; the assertion of `install_object` holds; the AST of an accepted text has no unwritten word and is the document that was read |
| **Allocation strategies** (`single_` 1160-1364, `dynamic_` 1366-1616, `bounded_allocation` 1624-1778) | buffer, stack top, write cursor, capacities | `push`, `reserve`, `reset`, `get_write_offset`, `transfer_ownership` | stack and AST never leave the buffer nor each other's words; a refused allocation is reported and frees what it held |
| **AST installation** (`install_array`, `install_object`, 2467-2525) | the words of a frame, source and destination overlapping in one buffer | sort, back-to-front copy, relocation, length | no word is lost; every element is counted from its structure; members stay whole |
| **String decoding** (`parse_string`, `parse_string_slow`, `read_hex`, `write_utf8`, 2527-2779) | read and write pointers in one buffer | escapes, surrogate pairs, UTF-8 | the write pointer never passes the read pointer; the text decoded is the text encoded |
| **Number parsing** (`parse_number`, `pow10`, 2208-2465) | accumulated int or double, exponents | digits, fraction, exponent | no int overflows; an int is an int exactly when it fits |
| **Object key lookup** (`find_object_key` 586-605, `src/swift/sajson/sajson-ffi.cpp` 76-100) | none | linear or binary search | it finds a key exactly when it is there |
| **Value accessors** (`value`, 411-707) | none | `get_length`, elements, keys, typed reads | what is read is what was parsed; no read outside the AST |
| **Iterators** (`const_iterator_base`, 720-800) | container and index | `++`, `--`, `+=`, `-=`, `advance_index` | a loop meets every element once, and the end |
| **Error location** (`make_error` 1841-1873) | line and column | counts from the beginning of the buffer | they say where parsing failed |
| **document, ownership, buffers** (157-317, 945-1155) | reference counts, owners | copy, move, assign, destroy | every buffer is freed once, after its last reader |
| **Dump, FileOut** (`src/include/sajson_dump.h`) | nesting, a buffer of 64 KB | write a value, flush | what is written parses back; everything is flushed |
| **Swift binding** (`src/swift`) | Swift-side owner of a document | parse, walk | no document leaks or is used when freed |
| Examples, benchmark, fuzzer, `genpow10.js`, tests | - | - | drivers; not part of the library's logic |

How they interact: `parse()` asks the strategy for an allocator and a stack
head, runs the state machine over the input buffer, calls the strategy's
`push`/`reserve`/`reset` for every value and structure, decodes strings in the
same buffer that `make_error` later counts lines in, and hands AST and input to
a `document`; the accessors, the writer and the FFI then follow relative
offsets through the AST words, and views and documents share the text by
counting references. There is one thread and there are no messages. What is hard here
is not interleaving of processes but of *two data structures in one buffer*:
the stack grows up, the AST grows down, `install_*` moves a frame from the one
onto the other while their ranges overlap, and any step may fail for want of
memory half way through. `PROJECT.json` lists these places under `hazards`.

## Modules

| Module | Models | Kind |
|---|---|---|
| `SajsonParser` | `parse()` with `install_*` and all strategies, word by word | component |
| `JsonDocument` | what parsing promises: a tree built value by value | abstract specification |
| `SajsonDocument` | accessors of `value`; the refinement of `JsonDocument` by `SajsonParser` | composition |
| `DynamicAllocation` | the heap blocks of `dynamic_allocation` and their owners | component |
| `WordMemory` | what an allocation strategy promises: a stack and an AST that never run out | abstract specification |
| `MCSajson` | `SajsonDocument` with the bytes of its keys, for TLC | model checking |
| `MCDynamicAllocation` | `DynamicAllocation` with its symmetry, for TLC | model checking |
| `InputText` | the mutable text, and `make_error` over it | component |
| `StringDecoder` | `parse_string`, `parse_string_slow` | component |
| `NumberParser` | `parse_number`, over binary doubles that are rounded | component |
| `JsonText` | what a text says: the grammar of JSON and UTF-8, read from left to right | reference |
| `ValueParser` | `parse()` over the bytes of a flat array; `get_int53_value` | composition of the last four |
| `MCValues` | the texts `ValueParser` is run on, with what they say | model checking |
| `Ownership` | reference counts, views, documents, the documents of the FFI | component |
| `ObjectIndex` | `find_object_key` and the FFI's version of it | component |
| `Dump` | `write`, `dump`, `FileOut`, and the iterators they use | component |
| `DocumentReader` | a client that looks up or writes | composition of the last two |
| `Serialization` | the JSON text of a value, against which a file is compared | reference |
| `MCReader` | the objects, keys and values of `DocumentReader` | model checking |
| `SajsonParserProofs` | theorems about `SajsonParser`, for every strategy; how much memory `bounded_allocation` needs | proofs |
| `SajsonDocumentProofs` | `SajsonParser` implements `JsonDocument` | proofs |
| `DynamicAllocationProofs` | blocks, owners and limits of `dynamic_allocation`; it implements `WordMemory` | proofs |
| `ValueParserProofs` | no overflow of digits; decoding in place | proofs |
| `JsonTextProofs` | reading a text goes on and comes to an end | proofs |
| `ValueMeaningProofs` | what is parsed is what the text says | proofs |
| `OwnershipProofs` | counts and owners | proofs |
| `ReaderProofs` | lookup, what `FileOut` keeps, and that a file has the JSON text of the value | proofs |

Definitions whose name ends in `_bug` are not part of the model. Each is the
definition that follows it with one plausible defect (an unreset stack, an
unchecked buffer, an off-by-one), kept so that each property is known to fail
for some defect of the code.

## The parser model

**State.** `mem` is a function from word addresses to the words written so far,
so "unwritten" is "not in its domain". A word is a record: a tagged element
(`make_element`) or a raw number (a length, a string boundary, the bits of a
number). `stack_top` and `write_offset` are the two ends: stack offset *i* is
address *i*, AST offset *v* is address `structure_end - v`, as
`get_pointer_from_offset` and `get_write_pointer_of` compute them. Under
`dynamic` the AST is a second buffer and has the negative addresses. The other
variables are the locals of `parse()`.

**Actions.** One per label of `parse()`, each the whole stretch of code up to
the next label: reading a value, reserving its words and pushing its element is
one action, with the `OUT_OF_MEMORY` and syntax errors of that stretch as its
other disjuncts. Two stretches are split, because the properties are about what
happens within: the loop of `install_*` moves one word per step (`CopyWord`),
and the length is stored in a step of its own (`StoreLength`).
`array_close_or_element` includes `next_element`'s switch, which the code jumps
into with the byte already read.

**Input.** The text is not a variable. The parser looks at each byte when it
decides about it and, until `make_error` counts lines, never again; so each
action chooses the bytes it meets (which token, how wide, how much whitespace),
within the `input_length` bytes there are. A text is thus any sequence of
choices, and a property that holds for all behaviours holds for all texts.
What the choices have to respect is how many bytes a token takes: the
fixed-buffer strategies stand or fall with it. A string of *w* bytes gives a
decoded text of any length the escapes in it allow (`DecodedLengths`); a number
is followed by at least one more byte, because `parse_number` tests for the
end of the input after every digit; a double has at least three bytes (`1.0`,
`1e0`; a run of digits too long for an int is longer).

**Strategies.** `single` is `single_allocation` with its own buffer of one word
per byte, `existing` the same with a buffer of the caller, tested once in
`make_allocator`; neither tests anything afterwards. `bounded` tests
every push and reservation (`NoRoom`). `dynamic` may be refused any growth
beyond what it is known to have (`GrowthFails`); its capacities and blocks are
in `DynamicAllocation`.

**Assumptions on constants.** `SizesAssumption` gives their types and says that
no number takes zero bytes and no string fewer than its two quotes.
`RootMarkerAssumption` says that `ROOT_MARKER` (2^61 - 1 on 64 bits) is larger
than any offset in any buffer: an object of C++ cannot be larger than
`PTRDIFF_MAX` bytes, and 2^61 words are more than that. `KeyBytesAssumption`
gives every offset a number for the bytes of a key that begins there:
`object_key_comparator` compares lengths and then, of keys of one length, these
numbers, as `memcmp` compares bytes. Which bytes stand where is left open, so
two keys of one length may be the same, or in the order of the text, or not.

**The sort.** `MemberOrders` has every order of the records in which no key is
less than one before it, and `std::sort`, which is not stable, may leave any of
them. `LargeObjectsSearchable` does not ask for that order but for what it is
for: it reads the keys of the objects of an accepted document, at any depth,
with `get_object_key`, and bisects them as `find_object_key` does
(`lower_bound`, `Matches`).

**One branch left out.** `pop` tests whether pushing the element of the closed
structure succeeds. It does: the stack has just been reset to `current_base`,
and the header that stood there made room for the element. `PopNested` has no
failing branch; were there a state in which the push did not fit, `PopNested`
would be disabled there and `Termination` would fail, as it does for the
`PopNested_no_reset_bug` in the run `bounded`.

**Fairness.** `WF_vars(Next)`: `parse()` is one thread of straight-line code
that blocks on nothing. `Termination` needs no more; the choices of the input
are not constrained by it.

**Refinement.** `JsonDocument` knows no words: a list of open structures, a
pending key, a value put into the innermost structure, a structure closed into
the enclosing one, and the root handed out. `SajsonDocument` maps the frames on
the parse stack to those structures by reading them with the accessors of
`value`, and an accepted parse to the tree read from `write_cursor`.
`ImplementsDocument` then says that no step of the parser, over memory it
overwrites as it goes, changes the meaning of anything it has read: strings
keep their bounds, numbers their places, members their keys, nesting is right.
While a frame is being moved (`FrameWord`), a word is read from the stack or,
relocated back, from the AST. What a word stands for is a recursive function of
its write offset (`Values`), since a structure lies in front of all that is in
it; what encloses a header is one of its stack offset (`Arounds`).

**The doomed parse.** There is one state in which `single_allocation` does
overwrite a word that is in use: if the text ends right after a value, the
words in use may exceed the bytes read by one, and the last push may land on
the lowest word of the AST. For the text `[""` the buffer has three words: the
header of the array at 0, the bounds of the string at 1 and 2, and the string's
element is pushed at 1. It does not matter, because the structure is still open
and the parse can only fail. `AstKept` allows exactly this (`Doomed`), and the abstract
specification has an action for it (`RunOut`).

## The heap model

`DynamicAllocation` is about `dynamic_allocation` alone: its two classes
`stack_head` and `allocator`, three pointers each, and where their blocks come
from and go to. `SajsonParser` says which words the parser writes; here it is a
client that pushes, reserves, installs and resets in any order, which is more
than `parse()` does.

**State.** `heap` maps the address of each allocated block to its words; a
pointer is a block and an offset. There are four owners whose destructors run:
the stack head, the allocator of `sajson::parse()`, the allocator moved into
the parser, and the document's `ownership`. A word read outside a block, or
from a block that was freed, is `Garbage`, so that a stale pointer shows as a
wrong word.

**Actions.** The operations of the two classes, and the steps of
`sajson::parse()` that move ownership: `MakeAllocator`, `ConstructParser` (the
move constructor), `GetStackHead`, `DestroyStack` (at the end of
`parser::parse()`), `GetDocument` (`transfer_ownership`), `Destructors` and
`DropDocument`. Writing what was reserved belongs to the reservation, as in the
callers. `StackGrowths` and `AstGrowths` are `can_grow` returning true,
`PushRefused` and `ReserveRefused` are `can_grow` when `new (std::nothrow)`
returns null: the pointers are nulled and the block they pointed to is not
freed. `Doubled` is the loop that doubles a capacity; it has no value for a
capacity of 0, for which the loop would not end. `GrowthEnds` says that this
does not happen, because an operation after a refusal would start from 0.

**Refinement.** `WordMemory` has a stack and an AST as two sequences, which may
be refused at any time. The mapping reads them through the pointers; the
abstract document is what is read from `document::root` to the end of its block.
`ImplementsWordMemory` therefore fails if a growth copies too little, copies to
the wrong end, or the root is read from the wrong allocator.

**Assumptions on constants.** Null is no block, an unwritten word is unlike a
written one, the defaults (256 and 1024 words in the code) and every reservation
are positive. Capacities given to the constructor may be 0. The module has no
fairness: it only says what does not happen.

## The value model

`SajsonParser` leaves out what a text *says*. `ValueParser` has it: `input` is a
function from offsets to bytes, written to while it is read, and every function
that reads it is modelled over it. The price is that structure is reduced to
one flat array: nesting adds nothing to how a string or a number is read, and
is in the other model.

**Actions.** In `StringDecoder`, one round of a loop: `Scan` is one round of
the two loops of `parse_string` (four bytes, then one), `Found` is what follows
them, and the actions named `Slow...` are the cases of the switch of
`parse_string_slow`, `SlowSurrogates` with both escapes of the pair. `Write`
stores and moves `end`; `Close` stores the NUL. In `NumberParser` the places
between two tests of `*p` are steps: the sign, the first digit, a digit, the
point, a digit of the fraction, and so on to `Store`. In `ValueParser`, the
labels of `parse()` that an array meets.

**Widths.** The arithmetic of `parse_number` is modelled with the machine's
limits as constants: an `int` ends at `IntMax` (and `unsigned` wraps), a double
at `DoubleMax`, `pow10` is 0 and infinite outside its table. `IntAssumption`
says that `IntMax` does not end in 9, which the comparison of the last digit
relies on (it ends in 7 wherever `int` has 32 bits).

**Rounding.** A double is a significand of up to `Int53Max` times a power of two
(`Spacing`), and every result is the one nearest to it, of two the one with the
even significand (`Nearest`), as IEEE 754 has it. `10.0 * d + digit` rounds
twice, the entries of `pow10`'s table are themselves rounded powers of ten
(`PowerOfTen`), and `d *= pow10(exponent)` rounds again; what is stored is a
whole number of the least positive double (`Unit` of them are 1), so that
numbers near 0 lose their digits one by one. Overflow, the products with 0 and
with infinity, and NaN are modelled as well. That a compiler might keep more
precision between two operations (`FLT_EVAL_METHOD`), or contract `10.0 * d +
digit` to one rounding, is not.

`DoublesExact` says that the digits, if a double holds them, come out times the
power of ten that point and exponent make together, rounded as the product is,
in spite of the clamped exponent. `DoublesClose` compares with the number
written itself: the double is within 3 / `Int53Max` of it, relatively (half a
unit in the last place for the table's entry, one for the product, in terms of
the larger significand), as long as the power of ten is no subnormal number.

Both leave out numbers with as many digits behind the point as an `int` counts
(`FewFractionDigits`), some two billion. Of these the comment at 2355-2361 says
that "parsing 2 GB of digits with an extremely high exponent" produces accurate
results, because the count of digits is an `int64_t`; but the written exponent
it is added to has been clamped to `INT_MAX` (2410), so they do not: without
that conjunct `DoublesExact` is false, in the run too, which has two such numbers.

`Int53Exact` is about the number that is *written*: `get_int53_value` sees only
what is left after rounding. It holds for every whole number but one: 2^53 + 1 is
rounded to 2^53 and accepted, which `src/tests/test.cpp:478-482` leaves open.
The comment at 641, "Returns false if the value is not an integer or not in
range", is wrong of that number, and of some with a negative power of ten, which
may be rounded to whole ones (`0.99999999999999999999` to 1); the property leaves
both undecided.

**Against what.** A text is an element of `Documents`, which carries what the
text says by the definitions of JSON and UTF-8, and at which offsets it goes
wrong if it does. There are two accounts of that, and neither is taken from the
parser. `JsonText` reads a text from left to right: a step is one token,
character or digit further, or none if there is no way on (`After`), with the
values so far, the bytes of the string and the digits of the number being read.
It has neither buffers nor widths: a string is the bytes its characters stand
for, a number is all of its digits. `MCValues` puts texts together from parts
that know what they say. `MeaningAssumption` states that the two agree, so TLC
compares them for every text of the run before it compares the parser with
either, and the proofs, which know only `JsonText`, are about the meaning that
the run has seen to be right.
A string that is cut short has no single place where it goes wrong, so `wrong`
is a set of offsets and the error must be at one of them. `FlatAssumption` keeps
nested arrays and objects out of the texts, which `parse()` takes along ways that
are in `SajsonParser` only.

**UTF-8.** The comment at 2718 says that the decoder validates UTF-8. It looks at
how many bytes the first one announces, and that the others continue a sequence;
continuation bytes as first bytes, overlong forms, surrogates and what lies
beyond U+10FFFF pass. `JsonText` reads such a sequence on, as standing for
its bytes, but tells it from UTF-8 (`IsUtf8`, which knows nothing of the decoder's
tests), and a text that has one is `lax` and wrong. `Verdict` decides of all other
texts, the ones whose bytes are of the wrong classes among them; `lax` ones, of
which the run has some in every class, may be accepted, and are.

**Errors.** `make_error` is evaluated on `input` as it is when it fails, that is,
after decoding. `ErrorLocated` is about texts in which no escape stands for a
line break; `ErrorLocatedAlways` about all.

**Fairness.** `WF_vars(Next)`, for the same reason as in the parser model:
straight-line code of one thread.

## The ownership model

`Ownership` is the library's memory as its user sees it. The user is any
single-threaded program: variables of type `mutable_string_view` and `document`
begin and end their lives in any order, and each constructor, assignment and
destructor is an action. `refcount` has the counts of `allocated_buffer`, with
a value of its own for a count that is touched after it was freed (`Corrupt`);
`trees` the allocated blocks of ASTs. A document has a view, a block it owns
(`structure`) and a pointer into one (`root`). `MoveDocument` does what the move
constructor does: it copies the view, moves the ownership, and leaves root and
validity in the source, which `moved` remembers. Of a moved-from document
nothing is promised but that it can be destroyed.

The documents of the FFI (`Handles`) are parsed over memory of Swift's, freed
by `deinit` when valid, and forgotten by `parse()` of `sajson.swift` when not
(`ThrowParseError`): such a document is never freed, as the variable `lost`
shows. Nothing in the repository promises otherwise, so no property is stated.

There is no fairness: the user may stop at any time. Nor can the model come to a
deadlock, and the run checks that.

## The reader model

Documents are never written to once parsed, so readers do not interfere, and
`DocumentReader` runs one of them per behaviour.

`ObjectIndex` has `find_object_key`, and after it, for the same object and key,
`sajson_find_object_key`. A step is one comparison, of the linear loop or of
`std::lower_bound`. A key is its length and its bytes, read as one number; for
keys of equal length this number orders them as `memcmp` does.
`ObjectsAssumption` states what `install_object` leaves behind: objects of more
than `SortAbove` members are in order. That a search may rely on it is what
`LargeObjectsSearchable` checks of the parser.

`Dump` has `write` with `FileOut`. The recursion of `dump`, `dump_array` and
`dump_object` is the stack `frames`, each frame with the iterator of its loop,
which `advance_index` moves. What a step of `dump` hands to `FileOut` waits in
`pieces`, and `Write` gives it one piece, one `+=`, at a time; `dump` goes on when
none is left. `Appended` is `operator +=`, in its order of flush, bypass and
append. A text written is a sequence of characters, and each piece is
appended as the code does it, because `FileOut` treats a piece by its length.
A number is written by `std::to_string` (`to_string`): an int by its digits, a
double by `%f`, with six decimals, rounded. A finite double is given by its
millionths and by the decimals after them, of which it may have many; others are
written as `inf` and `nan`. `dump_string` escapes four characters, a tab as if it
were a line feed, and copies every other one; a key is copied whole.
`ReturnSize` comes before `Flush`: `write` takes the size before the destructor
empties the buffer, so it does not count what was still in it. No comment says
what the result is, so no property does.

`Serialization` says what a file ought to have: `Json`, the JSON text of every
node, by recursion over what is nested in it, and `Faithful`, the nodes that hold
nothing `dump` is known to write otherwise: no `true`, no double that is not finite
or has more than six decimals, no control character in a string but a line feed,
no character in a key that must be escaped. `Json` is JSON as RFC 8259 has it and
not as `dump` does: every character below 32 is in an escape (`MustEscape`), and
a number is written in full. Both are recursive functions and
descend by `Height`, a constant with `HeightAssumption`: an AST is finite and
nothing in it contains itself. The file is compared without its layout, so
`LayoutAssumption` gives the blanks within strings, keys and numbers another name
than those between tokens; `dump` copies either without looking.

**Fairness.** `WF_vars(Next)`: loops of one thread.

## What fails in the code

Five properties state what comments of the code promise and are violated. Each
has a counterpart that holds and says how far the promise goes.

| Run | Violated | What happens | What holds |
|---|---|---|---|
| `leak` | `DocumentHoldsMemory` | a growth that the heap refuses nulls the pointers to the old block (1549; the stack's at 1450), which is never freed; `delete[]` of it before would do | `OnlyRefusalsForget` |
| `location` | `ErrorLocatedAlways` | lines and columns are counted in text already decoded; after `\n` in a string the line is one too many | `ErrorLocated` |
| `nan` | `NeverNaN` | digits beyond the range of a double with an exponent below that of `pow10` give infinity times 0 | `DoublesExact` |
| `lookup` | `FfiFindsMember` | the FFI bisects objects that were not sorted, and misses members | `FfiFindsSorted` |
| `serialize` | `SerializesAlways` | `true` is written as `false`; a double with six decimals, 1e-10 as 0.000000; a tab as an escaped line feed, other control characters as they are, which is no JSON; keys are not escaped | `SerializesFaithful` |

TLC stops at the first of the defects of `dump`, `true`; `WrittenRight` lists them
all, and each of its conjuncts is needed for `SerializesFaithful`. An infinite
double comes out as `inf`; JSON has no text for it, so neither property asks.

Three promises of comments are broken in cases that the properties name and leave
undecided, so no run reports them:

| Promise | Broken for | Left out by |
|---|---|---|
| `get_int53_value` "returns false if the value is not an integer or not in range" (641) | 2^53 + 1, which is rounded to 2^53 (2321), and fractions rounded to whole numbers; the test at `src/tests/test.cpp:478` asks what to do | `decided` and the powers of `Int53Exact` |
| "2 GB of digits with an extremely high exponent" give accurate results (2355-2361) | such numbers, the exponent being clamped at 2410 | `FewFractionDigits` in `DoublesExact`, `DoublesClose`, `Int53Exact` |
| "validate UTF-8" (2718) | continuation bytes as first bytes, overlong forms, surrogates, what is beyond U+10FFFF | `lax` in `Verdict` |

Besides, the layout of `dump` without indentation has line feeds and a space
after the colon, though comments say "a single line, with no spaces"; the
properties ignore layout between tokens.

## Runs and bounds

The first three runs use the specification of `SajsonParser` through
`SajsonDocument`; lengths are chosen in the initial state, so one run covers
all the lengths listed. Deadlock is not checked where a program ends;
`Termination` and `ReaderTermination` say that it stops nowhere else.

| Run | Of | Bounds | Shows |
|---|---|---|---|
| `single` | `MCSajson`, `existing` | 0-7, 10 and 11 bytes over 10 words; strings up to 4 bytes, numbers of 1 or 3, two-word doubles, one space | no write outside the buffer, words paid for by bytes, whole records, complete AST, finished words and enclosing frames kept, the overlapping copy loses nothing, the one test in `make_allocator` is enough, termination, refinement |
| `bounded` | `MCSajson`, `bounded` | 0-10 bytes over 11 words | stack and AST never meet; 3n/2 words for n bytes suffice; out of memory is always noticed; refinement |
| `dynamic` | `MCSajson`, `dynamic` | 0-3 and 13 bytes, no spaces, keys of no or one byte, sorting from two members on | refinement with any growth refused; sorted values stay with their keys; bisection finds every key of a sorted object, by length and bytes |
| `allocation` | `MCDynamicAllocation` | 3 blocks, 2 words, reservations of 1 and 2, initial capacities 0 and 1, defaults 2 and 3, up to 4 words in each of stack and AST | growth stays within its blocks and loses no word; every block is freed once; only refusals lose one; refinement of `WordMemory` |
| `leak` | `MCDynamicAllocation` | as `allocation`, the stack large enough from the start | **violated**: a block survives `parse()` that the document does not hold |
| `values` | `MCValues` | strings of up to three pieces, ints to 31, doubles of 6 bits to 252, int53 to 64, 2^-15 the least double, powers of ten from -4 to 2, two values, wrong texts, a text cut anywhere | in-place decoding, the meaning of strings and numbers, the error of doubles, int53, what is accepted, where a failure is located, termination |
| `location`, `nan` | `MCValues` | as `values` | **violated**, see above |
| `ownership` | `Ownership` | 3 views, 2 documents, 1 document of Swift, 2 texts, 2 trees | exact counts, one owner for every tree, nothing freed under its users |
| `reader` | `MCReader` | objects of up to five members, sorted from three on; values nested up to three deep; a buffer of three characters | lookup, buffering, the JSON written, termination |
| `lookup`, `serialize` | `MCReader` | as `reader` | **violated**, see above |

**The parser.** Ten bytes are enough for three levels of nesting (`[[[]]]`,
`[{"":[]}]`), four elements or a member (two in the 13 bytes of `dynamic`), and
for every kind of value; the tightest cases for the buffer are the densest texts
(`[[],[]]`, `[0,0,0]`), which are short. In `single` the buffer is full to the
last word for 10 bytes and refused for 11. The case `single` of `SajsonParser`,
with a buffer of its own, differs from `existing` only in that this buffer is
exactly as long as the input; it is covered by the proofs, and by `single` for
inputs of 10 bytes. A string of four bytes has an escape, and so a decoded text
shorter than its source; wider tokens only leave more room. The sorting
threshold of 100 is a constant, lowered to one in `dynamic`, since two members
already tell sorted from unsorted. The 13 bytes of `dynamic` make an object of two
members with keys of one length, the one of greater bytes first (`KeyPattern`) or
both empty, or of different lengths, longer first or last.

`RoomyBufferSuffices` is a statement the code's documentation lacks:
`bounded_allocation` needs *more* than a word per byte, since its stack and AST
may not overlap while a structure is closed. `single_allocation` gets by with n
words for n bytes, `bounded_allocation` with 3n/2 (rounded up) and not always
with fewer: for 8 bytes 12 words are enough and 11 are not (`[0,0,""]`). The run
has 11 words, so the bound is met for up to 7 bytes and `OUT_OF_MEMORY` occurs
for more.

**The heap.** In `allocation`, capacities double twice on their way from 1 to 4
words, and once by a factor of four (one word, asked for two more); the stack
and the AST grow alternately, each needing a third block while the other holds
its own, and `MaxStack` and `MaxAst` bound nothing else. Addresses are reused at
once, so a pointer to a freed block meets the new contents of that address. In
`leak` the stack has four words from the start and never grows, so that the
block left behind is one of the AST, the memory the comment speaks of.

**Values.** The pieces of strings are code points on both sides of every
boundary of UTF-8 and of the surrogates, literal and escaped, each short escape,
and runs that end at every position of the four-byte loop; three of them in a
row have every order of growth, shrinking and copying. Ints are all numbers from
0 to 450 with either sign, which pass the limit 31 at every last digit, the
limit 64 of what doubles have exactly, and that of doubles; doubles have 64, 65
and numbers beyond as digits, with fractions, so that every digit, the power and
the product are rounded up, down and to even; exponents lie inside and outside
`pow10`'s table, where the product is subnormal, and beyond the clamp at 31; two
numbers have more fraction digits than that. What is no UTF-8 is in every class
of it, before and after other pieces. Wrong texts have each error at least once, at the beginning, in
the middle and after decoded strings; one long text with every kind of token is
cut after each of its bytes.

**Ownership.** A view, its copy and the source of an assignment are three; two
texts tell a view's old buffer from its new one; two documents are a source and
a target of a move, and two trees one for each.

**Reader.** With five members lower_bound halves three times, and the wanted key
is before, between, behind and equal to those there; objects at and below the
threshold have their keys in every order and repeated. A buffer of three
characters is flushed before, filled exactly by, and bypassed by the pieces
written.

## Proofs

`SajsonParserProofs` proves, for all strategies, all lengths of input and all
values of the other constants allowed by the four assumptions:

| Theorem | Says |
|---|---|
| `TypeCorrect` | type correctness; `p` never leaves the input |
| `StaysInBuffer` | no write outside the buffer (`WritesInBounds`) |
| `EveryWordIsPaidFor` | why: words in use are at most bytes read (`WordsPaidFor`) |
| `StackStaysBelowAst` | the invariant `can_grow` of `bounded_allocation` relies on |
| `ObjectsHoldRecords` | `assert((object_end - object_base) % 3 == 0)` never fails |
| `AstIsComplete` | no unwritten word in an accepted document |
| `EnclosingFramesSurvive` | no step writes below `current_base` |
| `FinishedAstSurvives` | no step overwrites a finished AST word, except in a doomed parse |
| `CopyIsSafe` | the overlapping back-to-front copy preserves every word |
| `RoomyBufferIsEnough` | three words for every two bytes always suffice for `bounded_allocation` |

The properties are not inductive by themselves; `Inv` adds what they rest on:

- `Untouched`: nothing is in use before the root is opened.
- `Headers`: there is a set `B` of stack offsets at which headers stand; the
  one at `current_base` (or, while a structure is closed, `pop_element`, since
  the copy may overwrite the header) leads to a lower one of them or is the
  root's, and inside an object the distance is whole records, which is why
  `ObjectRecords` is true of the enclosing object again after a pop. That a set
  exists replaces a recursion down the chain of headers.
- `Written`: the stack, the finished AST and the part of a frame already moved
  have been written, and while a structure is being closed its frame fits in
  the words reserved.
- `LabelsAgree`: a label of arrays or of objects agrees with the tag of the
  open structure, and after an opening bracket there is a byte at `p`.
- `BufferGiven`: while parsing, the caller's buffer has a word per byte.
- `WordsPaidFor` carries the buffer argument: an opening bracket pays for its
  header, a comma or colon for the length word and the element of a structure,
  a number's or string's bytes for their words; one word may be owed after a
  value, and the comma or bracket that must follow pays it. It holds whatever
  the strategy, though the other two do not need it for their memory: with it no
  offset reaches `ROOT_MARKER`.

There is a lemma per action, each showing `SafeStep`: that `Inv` is preserved
*and* that the step keeps the words it should. The action properties then follow
by PTL from the same induction.

The last part of the module strengthens `Inv` once more (`PaidInv`). Closing a structure needs its
frame twice, so a word on the innermost frame costs two, and a byte pays for one
and a half (`OwnFramePaid`). When the structure has been closed, its enclosing
frame is one element longer and has to be affordable in turn: `Affords` charges
each open header with the frame below it, the whole of the stack and the AST.
Each token pays for what it adds to every one of these sums, and a closing
bracket pays for turning one into the other; so no `can_grow` ever fails.

`SajsonDocumentProofs` proves one theorem, for all strategies, all lengths and
all values of the constants the four assumptions allow:

| Theorem | Says |
|---|---|
| `AstMeansWhatWasRead` | `SajsonParser` implements `JsonDocument` (`ImplementsDocument`): the AST, read with the accessors, is at every moment what has been put into it |

Its invariant, `DocInv`, adds to `Inv`:

- `Nested`: among the words of the stack below `current_base`, there is a set `B`
  of headers, each of which leads to the next lower one or is the root's, and
  every word that is not in `B` is a raw number or leads to a value that is
  finished. It makes the headers of `Inv` exact: between two of them there is none.
- `OwnFrameSound`: the same for the frame of the structure at hand, wherever its
  words are while it is being moved.
- `Installed`: at `pop`, the length has been stored and all words are in place.

The argument is that meaning is local. A value depends on the words at its own
write offset and at smaller ones (`ValueLocal`, and from it `ValuesEquation` and
`ValuesKept`, by the least counterexample), and `SafeStep` of
`SajsonParserProofs` says that no step touches finished words; so the values
that the stack refers to stay (`ValuesStay`), and so do the frames around the
structure at hand, which are read from the stack the same way (`EnclosingStays`).
What remains are the words a step adds: an element pushed is one value more in
the innermost frame (`FrameWithValue`, `PushedDoc`), a key is two words more
(`FrameWithKey`), a header begins an empty frame, and when a bracket closes the
frame, sorted or not, is already the structure (`ClosedFrame`). `CopyWord` and
`StoreLength` are then stutters, because a frame word reads the same before and
after its move (`CopyKeepsFrame`), and a pop reads from the AST what was read from
the stack until then (`ClosedIsInstalled`). There is a lemma per action, each
showing that `DocInv` is preserved and which step of `JsonDocument` was taken.

`DynamicAllocationProofs` proves, for every set of blocks, all capacities, defaults and reservations:

| Theorem | Says |
|---|---|
| `PointersNulledTogether` | type correctness: pointers are null together or not at all (`TypeOK`) |
| `BlocksAreLargeEnough` | when `can_grow` has returned true, what was asked for fits in the block (`WithinBlocks`) |
| `DoublingEnds` | a doubling loop never starts from 0 (`GrowthEnds`) |
| `FreedOnce` | no block is freed twice or used after it is freed (`OneOwner`) |
| `NothingElseIsForgotten` | only a refused growth loses a block (`OnlyRefusalsForget`) |
| `ContentsSurvive` | `DynamicAllocation` implements `WordMemory` |

The properties support one another: whose block it is decides whether a write
leaves another's block as it is, and limits decide whether the write is inside
it. `Inv` is their conjunction with `TypeOK` and with `Reached`, which says for
each label which owners have a block (while parsing without error exactly the
stack and the parser's allocator; after `get_document` only the document). For
the contents, `ContentsInv` adds that the root of an accepted document is in the
block the document owns (`DocumentReadable`) and that the AST is empty
until parsing begins (`AstBeginsEmpty`). There is a lemma for reading what was
written, one for a block that a write, an allocation or a deallocation
elsewhere leaves alone, and one per action for the step of `WordMemory` it is.

`ValueParserProofs` proves, for every text and every width of the numbers:

| Theorem | Says |
|---|---|
| `ReadingStaysAhead` | what is still to be read is as it was written (`InPlace`) |
| `DecodedStays` | a step writes only inside the token it is in (`DecodesInsideToken`) |
| `DigitsNeverOverflow` | digits and exponent stay what an int holds (`NoOverflow`) |

The first two rest on `PlaceInv`: in `parse_string_slow` the write end lies
between the beginning of the string and the read end. Every action is shown to
be an `InPlaceStep`, which writes below where it goes on reading; the lemmas
`EncodedLength` and `SequenceCopied` say that nothing decoded is longer than
what it is read from. The third is nearly inductive; `CollectFits` is the
arithmetic of the last digit, and it is there that `IntAssumption` is needed.

`ValueMeaningProofs` proves, for every text and every width of the numbers:

| Theorem | Says |
|---|---|
| `StringsAreRight` | a string is the bytes its characters stand for, and stays so (`StringsMean`) |
| `IntegersAreRight` | an int is an int exactly when it is written as one and fits, and is that int (`IntegersExact`) |
| `DoublesAreRight` | digits that a double holds come out times the power of ten written, rounded, infinite or zero where it is out of range, short of two billion fraction digits (`DoublesExact`) |
| `Int53IsRight` | of the numbers without a negative power of ten `get_int53_value` takes exactly those up to its limit, through all roundings; 2^53 + 1 is left undecided (`Int53Exact`) |
| `VerdictIsRight` | a flat text is accepted exactly if it is JSON, with all its values; one with bytes that look like UTF-8 and are none is left undecided (`Verdict`) |
| `ErrorsAreLocated` | line and column name an offset where the text goes wrong (`ErrorLocated`) |

They are parts of one invariant, `MeaningInv`: there is a number of steps of
reading after which the place in `JsonText` belongs to the place of the parser
(`Agrees`), and the same has been read. `ValuesMean` says this of the values, whose
bytes must not be overwritten later (which is where `InPlaceStep` of
`ValueParserProofs` comes in); `StringMatches` of the string being decoded, whose
bytes are in the source until the first escape and in the buffer from then on;
`NumberMatches` of the digits, which are an int or a double here and a number
without limits there; `TokenMatches` of where whitespace ends; and
`FailureMatches` that a failure is where reading stops, at an offset where it may
be said to stop. A step of the parser is one step of reading or none (`Keeps`),
but for the loop that scans four plain characters at a time, which is up to
four (`ReadsPlainBytes`). There is a lemma per action, one per case of the
decoder, with the arithmetic of hexadecimal digits, of UTF-8 and of the switch
from int to double by itself (`CollectMeans`, `ScaledMeans`, `NegatedInt`).
Rounding has a section of its own: nearby doubles are as far apart as `Spacing`
says, the nearest is monotonic, whole numbers up to `Int53Max` are exact, and what
is greater never comes down below `Int53Max` again, digit after digit
(`ShiftMeans`) or in the product (`ScaledBeyond`); so the digits collected are the
ones written while a double holds them, and large otherwise (`Collected`).
`JsonTextProofs` shows that reading comes to an end within the steps that
`Read` looks at, and that what is read is only ever added to.
Lines are counted in the decoded text by `make_error` and in the given one by
`LocatedInText`, once by line breaks and once by the beginnings of lines: the
last part of the module shows that the breaks before a failure are the same
unless an escape stands for one, and that both counts are.

Arithmetic the provers do not know is an assumption that TLC evaluates:
`PowersAssumption` says that powers of ten are positive and even naturals, those of
the table no larger than doubles are, and that spacings can be halved down to 1.

`OwnershipProofs` proves, for any number of views, documents, texts and trees:

| Theorem | Says |
|---|---|
| `TextsAreCounted` | every count is the number of holders (`RefcountExact`) |
| `TreesAreOwnedOnce` | every allocated tree has one owner (`OneTreeOwner`) |
| `DocumentsStayUsable` | nothing is freed under its users (`DocumentsUsable`) |
| `OwnershipTypes` | type correctness; no count is touched after its memory was freed |

`TextsInv` adds to the counts that a view's data is its buffer unless it is null
or the caller's; counting is done by cardinalities, so the lemmas
(`DecrefCounts`, `IncrefCounts`, `MoveCounts`) say how the set of holders changes
with one of them. `TreesInv` adds that the dead own nothing, and that what was not
moved from owns what it points to.

`ReaderProofs` proves, for all objects, keys, thresholds, values and capacities:

| Theorem | Says |
|---|---|
| `LookupIsRight` | `find_object_key` is right (`FindsMember`) |
| `FfiLookupIsRightWhereSorted` | so is the FFI's in sorted objects (`FfiFindsSorted`) |
| `BisectionIsSound` | what bisection has left behind does not match (`BisectionKeepsBounds`) |
| `FileOutKeepsAll` | file and buffer hold what was handed to `FileOut`, once and in order (`FileKeepsAll`) |
| `FileSaysTheValue` | the file has the JSON text of the value, with layout only between tokens, if the value has nothing `dump` writes otherwise (`SerializesFaithful`, `Faithful`) |

`IndexInv` says that the records before the range considered are less than the
key and those behind it are not (`Narrowed`), and that linear search has passed
no match; `Less` is shown to be a total order on keys first. For `FileOut`, the
invariant adds that everything that is or will be written is text (pieces,
values, the containers in `frames` with an index within them), without which the
concatenations say nothing.

`FileSaysTheValue` adds what was said so far (`SaidInv`): what has been written
and what waits in `pieces` is, without its layout, what the open calls have come
to (`Said`): each container in `frames` opened, with the items before its index
(`Begun`) and the key of the child it is at (`Around`), and within the innermost
what `dump_string` has copied. The calls must be those of the recursion for that
(`CallsInv`): each is about the child its caller is at. One lemma per action shows
that the pieces it hands over make up the difference. Before that, `FlattenSeq`
is shown to distribute over concatenation, and `Json` and `Faithful` to be what
their definitions say (`JsonIs`, `FaithfulIs`): a recursive definition is a
`CHOOSE`, and that there is a function to choose is proved from `Height`.

**Only model-checked:** `Termination` and `ReaderTermination`, because liveness
under fairness is out of the provers' reach; `DoublesClose`, whose bound is the
product of two rounding errors; and `LargeObjectsSearchable`, whose bisection is a
function by recursion over the records (`LookupIsRight` proves the search itself,
step by step, over records in order). Where a proof needs induction over
data (the elements of a list, the nodes of a tree, the steps of reading, the
members of a finite set), it is by the least counterexample, not by the induction
theorems of the library, which the provers cannot instantiate.

## What is not modelled

- Nesting in `ValueParser` and bytes in `SajsonParser`: each has what the other
  leaves out, and they share the tokens' widths and errors by their source only.
- The script that prints the constants of `pow10` (`src/tools/genpow10.js`): the
  table is what a compiler makes of `1e-323` to `1e308`.
- Nested values in `Verdict`: which flat texts are JSON is decided there, which
  nestings are by `ImplementsDocument`.
- Pointer arithmetic beyond offsets, and `size_t` overflow in capacities; the
  flag `should_deallocate` while `single_allocation`'s block passes from its
  allocator to the document.
- `SAJSON_UNSORTED_OBJECT_KEYS`: the same as an infinite `SortAbove`.
- The wording and formatting of error messages.
- The accessors `as_`, `get_value_of_key` and the assertions on tags; the
  wrappers of the FFI and of Swift.
- The decrements and arithmetic of iterators: nothing in the repository uses
  them. As they stand, postfix `--` advances, `+=` makes an iterator of a number,
  adding 0 invalidates, and `--` at the beginning gives the greatest `size_t`.
- A short write of `fwrite`, which `FileOut` does not look for.
- Examples, benchmark, fuzz driver, build files, tests: no state of their own.

## Plan

Done, in this order: `SajsonParser`, `JsonDocument`, `SajsonDocument`,
`SajsonParserProofs`, `WordMemory`, `DynamicAllocation`,
`DynamicAllocationProofs`; then `InputText`, `StringDecoder`, `NumberParser`,
`ValueParser`, `Ownership`, `ObjectIndex`, `Dump`, `DocumentReader` with their
runs, and `OwnershipProofs`, `ValueParserProofs`, `ReaderProofs`; then `JsonText`
with `JsonTextProofs` and `ValueMeaningProofs`; then `SajsonDocumentProofs`. Next:

1. The owners of `single_allocation`'s block, with `should_deallocate`.
