------------------------- MODULE DynamicAllocation -------------------------
(***************************************************************************)
(* dynamic_allocation of include/sajson.h, from sajson::parse() to the end *)
(* of the document: its blocks of the heap, how they are doubled, who owns *)
(* them, and what becomes of them when the heap refuses a block.           *)
(*                                                                         *)
(* The parser is the client: it pushes, reserves, installs and resets in   *)
(* any order, and writes what it reserves at once, as parse() does.        *)
(* SajsonParser has the words it writes.                                   *)
(*                                                                         *)
(* A definition whose name ends in _bug is no part of the specification:   *)
(* it is the definition that follows with a defect a programmer might have *)
(* made, for which some property must fail.                                *)
(***************************************************************************)
EXTENDS Integers, Sequences

CONSTANTS
    Blocks,             \* addresses the heap may give a block
    Null,               \* the null pointer
    Words,              \* what the parser may write in a word
    Garbage,            \* what a word holds that was never written
    Reservations,       \* how many words the parser asks for at a time
    InitialCapacities,  \* what the caller may construct the strategy with
    DefaultAst,         \* 1024
    DefaultStack,       \* 256
    MaxStack, MaxAst    \* bounds: words the parser may have in each

ASSUME BlocksAssumption == Null \notin Blocks
ASSUME WordsAssumption == Garbage \notin Words
ASSUME SizesAssumption ==
    /\ Reservations \subseteq Nat \ {0}
    /\ InitialCapacities \subseteq Nat
    /\ DefaultAst \in Nat \ {0} /\ DefaultStack \in Nat \ {0}
    /\ MaxStack \in Nat /\ MaxAst \in Nat

VARIABLES
    pc,         \* where parse(), the parser, or their caller is
    heap,       \* the blocks allocated: address -> words
    stack,      \* the stack_head of parser::parse()
    local,      \* the allocator of sajson::parse()
    allocator,  \* the allocator of the parser
    document,   \* document::structure, the ownership handed out
    root,       \* document::root
    error       \* error_code

vars == <<pc, heap, stack, local, allocator, document, root, error>>

\* The three pointers of each: the block, and two offsets in it.
StackHead(bottom, top, limit) ==
    [bottom |-> bottom, top |-> top, limit |-> limit]
Allocator(bottom, top, write_head) ==
    [bottom |-> bottom, top |-> top, write_head |-> write_head]

NullStack == StackHead(Null, 0, 0)
NullAllocator == Allocator(Null, 0, 0)
NullRoot == [block |-> Null, offset |-> 0]

-----------------------------------------------------------------------------
(***************************************************************************)
(* The heap.                                                               *)
(***************************************************************************)

\* A word read through a pointer.  A block that is gone, or an offset outside
\* it, reads as anything.
WordAt(h, b, i) ==
    IF b \in DOMAIN h /\ i + 1 \in 1 .. Len(h[b]) THEN h[b][i + 1] ELSE Garbage

\* n words from offset i on.
Read(h, b, i, n) == [k \in 1 .. n |-> WordAt(h, b, i + k - 1)]

\* h after words are written from offset i on, as far as there is memory.
Write(h, b, i, words) ==
    IF b \notin DOMAIN h THEN h
    ELSE [h EXCEPT ![b] = [k \in 1 .. Len(@) |->
            IF k - i \in 1 .. Len(words) THEN words[k - i] ELSE @[k]]]

\* operator new[] of n words at b; operator delete[], which ignores null.
New(h, b, n) ==
    [x \in DOMAIN h \cup {b} |->
        IF x = b THEN [i \in 1 .. n |-> Garbage] ELSE h[x]]
Delete(h, b) == [x \in DOMAIN h \ {b} |-> h[x]]

Free == Blocks \ DOMAIN heap

Doubled_once_bug(capacity, need) == {2 * capacity}

\* The least doubling of a capacity that holds need words.  A capacity of 0
\* has none: the loop would not end.
Doubled(capacity, need) ==
    {c \in need .. 2 * (capacity + need) :
        /\ \E k \in 1 .. need : c = capacity * 2 ^ k
        /\ c = 2 * capacity \/ c \div 2 < need}

-----------------------------------------------------------------------------
(***************************************************************************)
(* can_grow of the stack and of the AST: what the heap and the pointers    *)
(* are after it returns true.                                              *)
(***************************************************************************)
StackHasRoom(amount) == amount <= stack.limit - stack.top

GrownStack_no_delete_bug(b, c) ==
    [heap |-> Write(New(heap, b, c), b, 0,
                    Read(heap, stack.bottom, 0, stack.top)),
     stack |-> StackHead(b, stack.top, c)]

\* The new block gets what was on the stack; the old one is freed.
GrownStack(b, c) ==
    [heap |-> Delete(Write(New(heap, b, c), b, 0,
                           Read(heap, stack.bottom, 0, stack.top)),
                     stack.bottom),
     stack |-> StackHead(b, stack.top, c)]

StackGrowths(amount) ==
    IF StackHasRoom(amount) THEN {[heap |-> heap, stack |-> stack]}
    ELSE {GrownStack(b, c) :
            b \in Free, c \in Doubled(stack.limit, amount + stack.top)}

AstHasRoom(amount) == amount <= allocator.write_head

AstSize == allocator.top - allocator.write_head
Ast == Read(heap, allocator.bottom, allocator.write_head, AstSize)

GrownAst_from_bottom_bug(b, c) ==
    [heap |-> Delete(Write(New(heap, b, c), b, allocator.write_head, Ast),
                     allocator.bottom),
     allocator |-> Allocator(b, c, c - AstSize)]

\* The AST ends where its block ends: it moves up in the larger one.
GrownAst(b, c) ==
    [heap |-> Delete(Write(New(heap, b, c), b, c - AstSize, Ast),
                     allocator.bottom),
     allocator |-> Allocator(b, c, c - AstSize)]

AstGrowths(amount) ==
    IF AstHasRoom(amount) THEN {[heap |-> heap, allocator |-> allocator]}
    ELSE {GrownAst(b, c) :
            b \in Free, c \in Doubled(allocator.top, amount + AstSize)}

\* allocator.reserve(Len(words)), and the words written to what it returns.
ReserveAndWrite(words) ==
    \E g \in AstGrowths(Len(words)) :
        LET at == g.allocator.write_head - Len(words)
        IN  /\ allocator' = [g.allocator EXCEPT !.write_head = at]
            /\ heap' = Write(g.heap, g.allocator.bottom, at, words)

-----------------------------------------------------------------------------
Init ==
    /\ pc = "make_allocator"
    /\ heap = [b \in {} |-> <<>>]
    /\ stack = NullStack
    /\ local = NullAllocator /\ allocator = NullAllocator
    /\ document = Null /\ root = NullRoot
    /\ error = "none"

OrDefault_bug(capacity, default) == capacity
OrDefault(capacity, default) == IF capacity = 0 THEN default ELSE capacity

\* strategy.make_allocator(): the buffer of the AST, or an allocator of none.
MakeAllocator ==
    /\ pc = "make_allocator"
    /\ \/ \E b \in Free, capacity \in InitialCapacities :
             LET c == OrDefault(capacity, DefaultAst)
             IN  /\ heap' = New(heap, b, c)
                 /\ local' = Allocator(b, c, c)
                 /\ pc' = "parser"
                 /\ UNCHANGED error
       \/ /\ pc' = "destructors"
          /\ error' = "OUT_OF_MEMORY"
          /\ UNCHANGED <<heap, local>>
    /\ UNCHANGED <<stack, allocator, document, root>>

\* parser(input, std::move(allocator)).
ConstructParser ==
    /\ pc = "parser"
    /\ allocator' = local
    /\ local' = NullAllocator
    /\ pc' = "get_stack_head"
    /\ UNCHANGED <<heap, stack, document, root, error>>

GetStackHead ==
    /\ pc = "get_stack_head"
    /\ \/ \E b \in Free, capacity \in InitialCapacities :
             LET c == OrDefault(capacity, DefaultStack)
             IN  /\ heap' = New(heap, b, c)
                 /\ stack' = StackHead(b, 0, c)
                 /\ pc' = "parse"
                 /\ UNCHANGED error
       \/ /\ pc' = "return"
          /\ error' = "OUT_OF_MEMORY"
          /\ UNCHANGED <<heap, stack>>
    /\ UNCHANGED <<local, allocator, document, root>>

Written == UNION {[1 .. n -> Words] : n \in Reservations}

\* stack.push(), or stack.reserve() and parse_string().
Push ==
    /\ pc = "parse"
    /\ \E words \in Written : \E g \in StackGrowths(Len(words)) :
          /\ stack.top + Len(words) <= MaxStack
          /\ stack' = [g.stack EXCEPT !.top = @ + Len(words)]
          /\ heap' = Write(g.heap, g.stack.bottom, g.stack.top, words)
    /\ UNCHANGED <<pc, local, allocator, document, root, error>>

\* The heap refuses the larger block: stack_head forgets the old one.
PushRefused ==
    /\ pc = "parse"
    /\ \E n \in Reservations : ~StackHasRoom(n) /\ stack.top + n <= MaxStack
    /\ stack' = NullStack
    /\ error' = "OUT_OF_MEMORY"
    /\ pc' = "return"
    /\ UNCHANGED <<heap, local, allocator, document, root>>

\* allocator.reserve(), and the number or string written there.
Reserve ==
    /\ pc = "parse"
    /\ \E words \in Written :
          /\ AstSize + Len(words) <= MaxAst
          /\ ReserveAndWrite(words)
    /\ UNCHANGED <<pc, stack, local, document, root, error>>

\* install_array and install_object: a frame and its length, read from the
\* stack after the AST has grown.
Install ==
    /\ pc = "parse"
    /\ \E base \in 0 .. stack.top, length \in Words :
          LET n == stack.top - base
          IN  /\ AstSize + n + 1 <= MaxAst
              /\ ReserveAndWrite(
                    <<length>> \o Read(heap, stack.bottom, base, n))
    /\ UNCHANGED <<pc, stack, local, document, root, error>>

ReserveRefused_bottom_bug ==
    /\ pc = "parse"
    /\ \E n \in 1 .. MaxAst - AstSize : ~AstHasRoom(n)
    /\ allocator' = [allocator EXCEPT !.bottom = Null]
    /\ error' = "OUT_OF_MEMORY"
    /\ pc' = "return"
    /\ UNCHANGED <<heap, stack, local, document, root>>

\* The heap refuses the larger block: the allocator forgets the old one.
ReserveRefused ==
    /\ pc = "parse"
    /\ \E n \in 1 .. MaxAst - AstSize : ~AstHasRoom(n)
    /\ allocator' = NullAllocator
    /\ error' = "OUT_OF_MEMORY"
    /\ pc' = "return"
    /\ UNCHANGED <<heap, stack, local, document, root>>

\* stack.reset(), once a structure has been closed.
Reset ==
    /\ pc = "parse"
    /\ \E new_top \in 0 .. stack.top : stack' = [stack EXCEPT !.top = new_top]
    /\ UNCHANGED <<pc, heap, local, allocator, document, root, error>>

\* parse() returns true, or false because of the text.
Return ==
    /\ pc = "parse"
    /\ pc' = "return"
    /\ error' \in {"none", "syntax"}
    /\ UNCHANGED <<heap, stack, local, allocator, document, root>>

\* ~stack_head.
DestroyStack ==
    /\ pc = "return"
    /\ heap' = Delete(heap, stack.bottom)
    /\ stack' = NullStack
    /\ pc' = "get_document"
    /\ UNCHANGED <<local, allocator, document, root, error>>

GetDocument_kept_bug ==
    /\ pc = "get_document"
    /\ IF error = "none"
       THEN /\ root' = [block |-> allocator.bottom,
                        offset |-> allocator.write_head]
            /\ document' = allocator.bottom
            /\ UNCHANGED allocator
       ELSE UNCHANGED <<root, document, allocator>>
    /\ pc' = "destructors"
    /\ UNCHANGED <<heap, stack, local, error>>

\* The root is read before the ownership is transferred, and the document
\* takes both; a failed document takes nothing.
GetDocument ==
    /\ pc = "get_document"
    /\ IF error = "none"
       THEN /\ root' = [block |-> allocator.bottom,
                        offset |-> allocator.write_head]
            /\ document' = allocator.bottom
            /\ allocator' = NullAllocator
       ELSE UNCHANGED <<root, document, allocator>>
    /\ pc' = "destructors"
    /\ UNCHANGED <<heap, stack, local, error>>

\* The allocators of the parser and of sajson::parse() go out of scope.
Destructors ==
    /\ pc = "destructors"
    /\ heap' = Delete(Delete(heap, allocator.bottom), local.bottom)
    /\ allocator' = NullAllocator /\ local' = NullAllocator
    /\ pc' = "returned"
    /\ UNCHANGED <<stack, document, root, error>>

\* ~ownership, when the caller is done with the document.
DropDocument ==
    /\ pc = "returned"
    /\ heap' = Delete(heap, document)
    /\ document' = Null /\ root' = NullRoot
    /\ pc' = "dropped"
    /\ UNCHANGED <<stack, local, allocator, error>>

Next ==
    \/ MakeAllocator \/ ConstructParser \/ GetStackHead
    \/ Push \/ PushRefused \/ Reserve \/ Install \/ ReserveRefused \/ Reset
    \/ Return \/ DestroyStack \/ GetDocument \/ Destructors \/ DropDocument

Spec == Init /\ [][Next]_vars

-----------------------------------------------------------------------------
(***************************************************************************)
(* Properties.                                                             *)
(***************************************************************************)

\* Every variable has its type, and a null pointer comes with null offsets:
\* whoever nulls one of the three pointers of a class nulls them all.
TypeOK ==
    /\ pc \in {"make_allocator", "parser", "get_stack_head", "parse",
               "return", "get_document", "destructors", "returned", "dropped"}
    /\ DOMAIN heap \subseteq Blocks
    /\ \A b \in DOMAIN heap : heap[b] \in Seq(Words \cup {Garbage})
    /\ stack \in [bottom : Blocks, top : Nat, limit : Nat] \cup {NullStack}
    /\ \A a \in {local, allocator} :
          a \in [bottom : Blocks, top : Nat, write_head : Nat]
                    \cup {NullAllocator}
    /\ document \in Blocks \cup {Null}
    /\ root \in [block : Blocks, offset : Nat] \cup {NullRoot}
    /\ error \in {"none", "syntax", "OUT_OF_MEMORY"}

\* The limits the allocation strategy compares with are those of the blocks
\* it has (the differences of pointers in can_grow), so that nothing the
\* parser writes after can_grow returns true is outside a block.
WithinBlocks ==
    /\ stack.bottom # Null =>
          /\ stack.bottom \in DOMAIN heap
          /\ stack.limit = Len(heap[stack.bottom])
          /\ stack.top <= stack.limit
    /\ \A a \in {local, allocator} : a.bottom # Null =>
          /\ a.bottom \in DOMAIN heap
          /\ a.top = Len(heap[a.bottom])
          /\ a.write_head <= a.top

\* The loops of can_grow end: they are never entered with a capacity of 0,
\* neither from the constructor's arguments nor from pointers that an earlier
\* refusal has nulled.
GrowthEnds == pc = "parse" => stack.limit > 0 /\ allocator.top > 0

\* The pointers some destructor will free.
Owners == [stack |-> stack.bottom, local |-> local.bottom,
           allocator |-> allocator.bottom, document |-> document]
Owned == {Owners[o] : o \in DOMAIN Owners} \ {Null}

\* No block is freed twice, or used after it is freed: no two destructors
\* will free the same one, and those they will free are there.
OneOwner ==
    /\ Owned \subseteq DOMAIN heap
    /\ \A o1, o2 \in DOMAIN Owners :
          Owners[o1] = Owners[o2] => o1 = o2 \/ Owners[o1] = Null

\* A block nobody will free has been forgotten by a refused growth, and by
\* nothing else: whatever the text, and wherever parsing stops.
OnlyRefusalsForget == DOMAIN heap \ Owned # {} => error = "OUT_OF_MEMORY"

\* "The document holds a strong reference to any memory allocated", says
\* class document (sajson.h:1025): once parse() has returned, no block
\* outlives the document that parse() made.
DocumentHoldsMemory == pc = "returned" => DOMAIN heap \subseteq {document}

-----------------------------------------------------------------------------
(***************************************************************************)
(* Refinement of WordMemory.                                               *)
(***************************************************************************)
statusBar ==
    IF error # "none" THEN "failed"
    ELSE CASE pc \in {"make_allocator", "parser", "get_stack_head"} -> "start"
           [] pc = "parse" -> "parsing"
           [] pc \in {"return", "get_document"} -> "finished"
           [] pc \in {"destructors", "returned"} -> "accepted"
           [] OTHER -> "dropped"

stackBar == IF statusBar = "parsing"
            THEN Read(heap, stack.bottom, 0, stack.top) ELSE <<>>

astBar == IF statusBar \in {"parsing", "finished"} THEN Ast ELSE <<>>

\* What is read from the root of the document on.
documentBar ==
    IF statusBar = "accepted" /\ root.block \in DOMAIN heap
    THEN Read(heap, root.block, root.offset,
              Len(heap[root.block]) - root.offset)
    ELSE <<>>

Memory == INSTANCE WordMemory WITH
    stack <- stackBar, ast <- astBar, document <- documentBar,
    status <- statusBar

\* What the parser wrote is what it reads, and what the document has in the
\* end, however often the blocks have been replaced in between; a refused
\* block is never mistaken for memory.
ImplementsWordMemory == Memory!Spec
=============================================================================
