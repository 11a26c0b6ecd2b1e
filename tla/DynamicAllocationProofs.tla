---------------------- MODULE DynamicAllocationProofs ----------------------
(***************************************************************************)
(* The blocks of dynamic_allocation, for every heap and every order of     *)
(* calls: growth leaves room for what was asked, every block is freed by   *)
(* at most one owner and never used afterwards, and only a refused growth  *)
(* leaves one that nobody frees.  And dynamic_allocation implements        *)
(* WordMemory: growth in any order and to any capacity changes no word of  *)
(* the stack or of the AST, and the document has the words of the AST.     *)
(***************************************************************************)
EXTENDS DynamicAllocation, SequenceTheorems, TLAPS

HeapOK(h) ==
    /\ DOMAIN h \subseteq Blocks
    /\ \A b \in DOMAIN h : h[b] \in Seq(Words \cup {Garbage})

Stacks == [bottom : Blocks, top : Nat, limit : Nat]
Allocators == [bottom : Blocks, top : Nat, write_head : Nat]

\* A stack and an allocator that have a block of the heap h.
StackIn(h, s) ==
    /\ s \in Stacks
    /\ s.bottom \in DOMAIN h
    /\ s.limit = Len(h[s.bottom])
    /\ s.top <= s.limit
AllocatorIn(h, a) ==
    /\ a \in Allocators
    /\ a.bottom \in DOMAIN h
    /\ a.top = Len(h[a.bottom])
    /\ a.write_head <= a.top

-----------------------------------------------------------------------------
(***************************************************************************)
(* The operations on the heap.                                             *)
(***************************************************************************)

\* Reading n words gives n words, through whatever pointer.
LEMMA ReadType ==
    ASSUME NEW h, HeapOK(h), NEW b, NEW i \in Int, NEW n \in Nat
    PROVE  /\ Read(h, b, i, n) \in Seq(Words \cup {Garbage})
           /\ Len(Read(h, b, i, n)) = n
<1>1. ASSUME NEW k \in 1 .. n
      PROVE  WordAt(h, b, i + k - 1) \in Words \cup {Garbage}
  BY <1>1 DEF WordAt, HeapOK
<1> QED BY <1>1 DEF Read

\* Writing changes neither the blocks there are nor their lengths.
LEMMA WriteType ==
    ASSUME NEW h, HeapOK(h), NEW b, NEW i \in Int,
           NEW words \in Seq(Words \cup {Garbage})
    PROVE  /\ HeapOK(Write(h, b, i, words))
           /\ DOMAIN Write(h, b, i, words) = DOMAIN h
           /\ \A x \in DOMAIN h :
                 /\ Len(Write(h, b, i, words)[x]) = Len(h[x])
                 /\ x # b => Write(h, b, i, words)[x] = h[x]
<1>1. CASE b \notin DOMAIN h
  BY <1>1 DEF Write
<1>2. CASE b \in DOMAIN h
  <2> DEFINE new == [k \in 1 .. Len(h[b]) |->
                        IF k - i \in 1 .. Len(words) THEN words[k - i]
                        ELSE h[b][k]]
  <2>1. h[b] \in Seq(Words \cup {Garbage}) /\ Len(h[b]) \in Nat
    BY <1>2 DEF HeapOK
  <2>2. ASSUME NEW k \in 1 .. Len(h[b])
        PROVE  new[k] \in Words \cup {Garbage}
    BY <2>1, <2>2
  <2>3. new \in Seq(Words \cup {Garbage}) /\ Len(new) = Len(h[b])
    BY <2>1, <2>2
  <2>4. Write(h, b, i, words) = [h EXCEPT ![b] = new]
    BY <1>2 DEF Write
  <2> HIDE DEF new
  <2> QED BY <2>1, <2>3, <2>4, <1>2 DEF HeapOK
<1> QED BY <1>1, <1>2

LEMMA NewType ==
    ASSUME NEW h, HeapOK(h), NEW b \in Blocks, NEW n \in Nat
    PROVE  /\ HeapOK(New(h, b, n))
           /\ DOMAIN New(h, b, n) = DOMAIN h \cup {b}
           /\ Len(New(h, b, n)[b]) = n
           /\ \A x \in DOMAIN h : x # b => New(h, b, n)[x] = h[x]
<1> DEFINE new == [i \in 1 .. n |-> Garbage]
<1>1. new \in Seq(Words \cup {Garbage}) /\ Len(new) = n
  OBVIOUS
<1>2. New(h, b, n) = [x \in DOMAIN h \cup {b} |-> IF x = b THEN new ELSE h[x]]
  BY DEF New
<1> HIDE DEF new
<1> QED BY <1>1, <1>2 DEF HeapOK

LEMMA DeleteType ==
    ASSUME NEW h, HeapOK(h), NEW b
    PROVE  /\ HeapOK(Delete(h, b))
           /\ DOMAIN Delete(h, b) = DOMAIN h \ {b}
           /\ \A x \in DOMAIN h : x # b => Delete(h, b)[x] = h[x]
  BY DEF Delete, HeapOK

\* can_grow's loop: a capacity larger than the one there is, and enough.
LEMMA DoubledIsEnough ==
    ASSUME NEW capacity \in Nat, NEW need \in Nat \ {0},
           NEW c \in Doubled(capacity, need)
    PROVE  c \in Nat /\ c >= need /\ c > 0
  BY DEF Doubled

-----------------------------------------------------------------------------
(***************************************************************************)
(* The inductive invariant.  Reached has, for each place of the program,   *)
(* which of the owners exist.                                              *)
(***************************************************************************)
Reached ==
    /\ pc \in {"make_allocator", "parser", "get_stack_head", "parse"} =>
          error = "none"
    /\ pc # "parser" => local = NullAllocator
    /\ pc \notin {"parse", "return"} => stack = NullStack
    /\ pc \in {"make_allocator", "parser", "returned", "dropped"} =>
          allocator = NullAllocator
    /\ pc \notin {"destructors", "returned"} => document = Null
    /\ pc = "parser" => local.bottom # Null /\ local.top > 0
    /\ pc = "get_stack_head" => allocator.bottom # Null /\ allocator.top > 0
    /\ pc \in {"return", "get_document"} /\ error = "none" =>
          allocator.bottom # Null

Inv ==
    /\ TypeOK
    /\ WithinBlocks
    /\ GrowthEnds
    /\ OneOwner
    /\ OnlyRefusalsForget
    /\ Reached

LEMMA InitInv == Init => Inv
  BY BlocksAssumption
     DEF Init, Inv, TypeOK, WithinBlocks, GrowthEnds, OneOwner,
         OnlyRefusalsForget, Reached, Owned, Owners, NullStack, NullAllocator,
         NullRoot, StackHead, Allocator

-----------------------------------------------------------------------------
(***************************************************************************)
(* Growth.                                                                 *)
(***************************************************************************)

\* While parsing there are two owners, and the heap is theirs.
LEMMA WhileParsing ==
    ASSUME Inv, pc = "parse"
    PROVE  /\ HeapOK(heap) /\ StackIn(heap, stack)
           /\ AllocatorIn(heap, allocator)
           /\ stack.limit > 0 /\ allocator.top > 0
           /\ AstSize \in Nat
           /\ stack.bottom # allocator.bottom
           /\ DOMAIN heap = {stack.bottom, allocator.bottom}
<1>1. stack.limit > 0 /\ allocator.top > 0
  BY DEF Inv, GrowthEnds
<1>2. stack.bottom # Null /\ allocator.bottom # Null
  BY <1>1, BlocksAssumption DEF Inv, TypeOK, NullStack, NullAllocator, StackHead, Allocator
<1>3. HeapOK(heap) /\ StackIn(heap, stack) /\ AllocatorIn(heap, allocator)
  BY <1>1, <1>2
     DEF Inv, TypeOK, WithinBlocks, HeapOK, StackIn, AllocatorIn, Stacks,
         Allocators, NullStack, NullAllocator, StackHead, Allocator
<1>4. AstSize \in Nat
  BY <1>3 DEF AstSize, AllocatorIn, Allocators
<1>5. local = NullAllocator /\ document = Null /\ error = "none"
  BY DEF Inv, Reached
<1>6. DOMAIN Owners = {"stack", "local", "allocator", "document"}
  BY DEF Owners
<1>7. stack.bottom # allocator.bottom
  <2>1. Owners["stack"] = stack.bottom /\ Owners["allocator"] = allocator.bottom
    BY DEF Owners
  <2> QED BY <1>2, <1>6, <2>1 DEF Inv, OneOwner
<1>8. Owned = {stack.bottom, allocator.bottom}
  BY <1>2, <1>5 DEF Owned, Owners, NullAllocator, Allocator
<1>9. DOMAIN heap = {stack.bottom, allocator.bottom}
  BY <1>5, <1>8 DEF Inv, OneOwner, OnlyRefusalsForget
<1> QED BY <1>1, <1>3, <1>4, <1>7, <1>9

\* After can_grow(n) of the stack there is room for n words, and the other
\* blocks are as they were.
LEMMA StackGrowthIsEnough ==
    ASSUME Inv, pc = "parse", NEW n \in Nat \ {0}, NEW g \in StackGrowths(n)
    PROVE  /\ HeapOK(g.heap) /\ StackIn(g.heap, g.stack)
           /\ g.stack.top = stack.top /\ g.stack.top + n <= g.stack.limit
           /\ g.stack.bottom # allocator.bottom
           /\ DOMAIN g.heap = {g.stack.bottom, allocator.bottom}
           /\ g.heap[allocator.bottom] = heap[allocator.bottom]
<1>1. /\ HeapOK(heap) /\ StackIn(heap, stack) /\ AllocatorIn(heap, allocator)
      /\ stack.bottom # allocator.bottom
      /\ DOMAIN heap = {stack.bottom, allocator.bottom}
  BY WhileParsing
<1>2. stack.top \in Nat /\ stack.limit \in Nat /\ stack.bottom \in Blocks
  BY <1>1 DEF StackIn, Stacks
<1>3. CASE StackHasRoom(n)
  <2>1. g.heap = heap /\ g.stack = stack
    BY <1>3 DEF StackGrowths
  <2> QED BY <1>1, <1>2, <1>3, <2>1 DEF StackHasRoom
<1>4. CASE ~StackHasRoom(n)
  <2>1. PICK b \in Free : \E c \in Doubled(stack.limit, n + stack.top) :
                              g = GrownStack(b, c)
    BY <1>4 DEF StackGrowths
  <2>2. PICK c \in Doubled(stack.limit, n + stack.top) : g = GrownStack(b, c)
    BY <2>1
  <2>3. c \in Nat /\ c >= n + stack.top
    BY <1>2, DoubledIsEnough
  <2>4. b \in Blocks /\ b \notin DOMAIN heap
    BY DEF Free
  <2> DEFINE words == Read(heap, stack.bottom, 0, stack.top)
             h1 == New(heap, b, c)
             h2 == Write(h1, b, 0, words)
             h3 == Delete(h2, stack.bottom)
  <2>5. words \in Seq(Words \cup {Garbage})
    BY <1>1, <1>2, ReadType
  <2>6. /\ HeapOK(h1) /\ DOMAIN h1 = DOMAIN heap \cup {b}
        /\ Len(h1[b]) = c /\ h1[allocator.bottom] = heap[allocator.bottom]
    <3>1. HeapOK(heap) /\ b \in Blocks /\ c \in Nat
      BY <1>1, <2>3, <2>4
    <3>2. /\ HeapOK(h1) /\ DOMAIN h1 = DOMAIN heap \cup {b}
          /\ Len(h1[b]) = c
          /\ \A x \in DOMAIN heap : x # b => h1[x] = heap[x]
      BY <3>1, NewType
    <3> HIDE DEF h1
    <3> QED BY <1>1, <2>4, <3>2
  <2>7. /\ HeapOK(h2) /\ DOMAIN h2 = DOMAIN heap \cup {b}
        /\ Len(h2[b]) = c /\ h2[allocator.bottom] = heap[allocator.bottom]
    <3> HIDE DEF h1, words
    <3>1. /\ HeapOK(h2) /\ DOMAIN h2 = DOMAIN h1
          /\ \A x \in DOMAIN h1 : /\ Len(h2[x]) = Len(h1[x])
                                  /\ x # b => h2[x] = h1[x]
      BY <2>5, <2>6, WriteType, SMTT(30)
    <3> QED BY <1>1, <2>4, <2>6, <3>1
  <2>8. /\ HeapOK(h3) /\ DOMAIN h3 = {b, allocator.bottom}
        /\ Len(h3[b]) = c /\ h3[allocator.bottom] = heap[allocator.bottom]
    <3> HIDE DEF h2
    <3>1. /\ HeapOK(h3) /\ DOMAIN h3 = DOMAIN h2 \ {stack.bottom}
          /\ \A x \in DOMAIN h2 : x # stack.bottom => h3[x] = h2[x]
      BY <2>7, DeleteType
    <3> QED BY <1>1, <2>4, <2>7, <3>1
  <2>9. g.heap = h3 /\ g.stack = StackHead(b, stack.top, c)
    BY <2>2 DEF GrownStack
  <2> HIDE DEF h3
  <2> QED
    BY <1>1, <1>2, <2>3, <2>4, <2>8, <2>9 DEF StackIn, Stacks, StackHead
<1> QED BY <1>3, <1>4

\* The same of the AST.
LEMMA AstGrowthIsEnough ==
    ASSUME Inv, pc = "parse", NEW n \in Nat \ {0}, NEW g \in AstGrowths(n)
    PROVE  /\ HeapOK(g.heap) /\ AllocatorIn(g.heap, g.allocator)
           /\ n <= g.allocator.write_head /\ g.allocator.top > 0
           /\ g.allocator.bottom # stack.bottom
           /\ DOMAIN g.heap = {g.allocator.bottom, stack.bottom}
           /\ g.heap[stack.bottom] = heap[stack.bottom]
<1>1. /\ HeapOK(heap) /\ StackIn(heap, stack) /\ AllocatorIn(heap, allocator)
      /\ stack.bottom # allocator.bottom /\ allocator.top > 0
      /\ AstSize \in Nat
      /\ DOMAIN heap = {stack.bottom, allocator.bottom}
  BY WhileParsing
<1>2. /\ allocator.top \in Nat /\ allocator.write_head \in Nat
      /\ allocator.bottom \in Blocks
  BY <1>1 DEF AllocatorIn, Allocators
<1>3. CASE AstHasRoom(n)
  <2>1. g.heap = heap /\ g.allocator = allocator
    BY <1>3 DEF AstGrowths
  <2> QED BY <1>1, <1>2, <1>3, <2>1 DEF AstHasRoom
<1>4. CASE ~AstHasRoom(n)
  <2>1. PICK b \in Free : \E c \in Doubled(allocator.top, n + AstSize) :
                              g = GrownAst(b, c)
    BY <1>4 DEF AstGrowths
  <2>2. PICK c \in Doubled(allocator.top, n + AstSize) : g = GrownAst(b, c)
    BY <2>1
  <2>3. c \in Nat /\ c >= n + AstSize
    BY <1>1, <1>2, DoubledIsEnough
  <2>4. b \in Blocks /\ b \notin DOMAIN heap
    BY DEF Free
  <2> DEFINE h1 == New(heap, b, c)
             h2 == Write(h1, b, c - AstSize, Ast)
             h3 == Delete(h2, allocator.bottom)
  <2>5. Ast \in Seq(Words \cup {Garbage})
    BY <1>1, <1>2, ReadType DEF Ast
  <2>6. /\ HeapOK(h1) /\ DOMAIN h1 = DOMAIN heap \cup {b}
        /\ Len(h1[b]) = c /\ h1[stack.bottom] = heap[stack.bottom]
    <3>1. HeapOK(heap) /\ b \in Blocks /\ c \in Nat
      BY <1>1, <2>3, <2>4
    <3>2. /\ HeapOK(h1) /\ DOMAIN h1 = DOMAIN heap \cup {b}
          /\ Len(h1[b]) = c
          /\ \A x \in DOMAIN heap : x # b => h1[x] = heap[x]
      BY <3>1, NewType
    <3> HIDE DEF h1
    <3> QED BY <1>1, <2>4, <3>2
  <2>7. /\ HeapOK(h2) /\ DOMAIN h2 = DOMAIN heap \cup {b}
        /\ Len(h2[b]) = c /\ h2[stack.bottom] = heap[stack.bottom]
    <3> HIDE DEF h1
    <3>1. /\ HeapOK(h2) /\ DOMAIN h2 = DOMAIN h1
          /\ \A x \in DOMAIN h1 : /\ Len(h2[x]) = Len(h1[x])
                                  /\ x # b => h2[x] = h1[x]
      BY <1>1, <2>3, <2>5, <2>6, WriteType
    <3> QED BY <1>1, <2>4, <2>6, <3>1
  <2>8. /\ HeapOK(h3) /\ DOMAIN h3 = {b, stack.bottom}
        /\ Len(h3[b]) = c /\ h3[stack.bottom] = heap[stack.bottom]
    <3> HIDE DEF h2
    <3>1. /\ HeapOK(h3) /\ DOMAIN h3 = DOMAIN h2 \ {allocator.bottom}
          /\ \A x \in DOMAIN h2 : x # allocator.bottom => h3[x] = h2[x]
      BY <2>7, DeleteType
    <3> QED BY <1>1, <2>4, <2>7, <3>1
  <2>9. g.heap = h3 /\ g.allocator = Allocator(b, c, c - AstSize)
    BY <2>2 DEF GrownAst
  <2> HIDE DEF h3
  <2> QED
    BY <1>1, <1>2, <2>3, <2>4, <2>8, <2>9
       DEF AllocatorIn, Allocators, Allocator
<1> QED BY <1>3, <1>4

-----------------------------------------------------------------------------
(***************************************************************************)
(* The steps.                                                              *)
(***************************************************************************)

\* What a step that goes on parsing has to show.
LEMMA StillParsing ==
    ASSUME Inv, pc' = "parse", UNCHANGED <<document, root, error>>,
           error = "none", document = Null, local' = NullAllocator,
           HeapOK(heap'), StackIn(heap', stack'),
           AllocatorIn(heap', allocator'),
           stack'.limit > 0, allocator'.top > 0,
           stack'.bottom # allocator'.bottom,
           DOMAIN heap' = {stack'.bottom, allocator'.bottom}
    PROVE  Inv'
<1>1. /\ stack'.bottom \in Blocks /\ stack'.bottom # Null
      /\ allocator'.bottom \in Blocks /\ allocator'.bottom # Null
  BY BlocksAssumption DEF StackIn, AllocatorIn, Stacks, Allocators
<1>2. TypeOK'
  BY DEF Inv, TypeOK, HeapOK, StackIn, AllocatorIn, Stacks, Allocators
<1>3. WithinBlocks' /\ GrowthEnds'
  BY DEF WithinBlocks, GrowthEnds, StackIn, AllocatorIn, NullAllocator,
         Allocator
<1>4. Owned' = {stack'.bottom, allocator'.bottom}
  BY <1>1 DEF Owned, Owners, NullAllocator, Allocator
<1>5. OneOwner'
  BY <1>1, <1>4 DEF OneOwner, Owners, NullAllocator, Allocator
<1>6. OnlyRefusalsForget'
  BY <1>4 DEF OnlyRefusalsForget
<1>7. Reached'
  BY <1>1 DEF Reached
<1> QED BY <1>2, <1>3, <1>5, <1>6, <1>7 DEF Inv

LEMMA PushInv == Inv /\ Push => Inv'
<1> SUFFICES ASSUME Inv, Push PROVE Inv'
  OBVIOUS
<1> pc = "parse"
  BY DEF Push
<1>1. PICK words \in Written : \E g \in StackGrowths(Len(words)) :
          /\ stack' = [g.stack EXCEPT !.top = @ + Len(words)]
          /\ heap' = Write(g.heap, g.stack.bottom, g.stack.top, words)
  BY DEF Push
<1>2. PICK g \in StackGrowths(Len(words)) :
          /\ stack' = [g.stack EXCEPT !.top = @ + Len(words)]
          /\ heap' = Write(g.heap, g.stack.bottom, g.stack.top, words)
  BY <1>1
<1>3. words \in Seq(Words \cup {Garbage}) /\ Len(words) \in Nat \ {0}
  <2>1. PICK n \in Reservations : words \in [1 .. n -> Words]
    BY DEF Written
  <2>2. n \in Nat \ {0}
    BY SizesAssumption
  <2> QED BY <2>1, <2>2
<1>4. /\ HeapOK(g.heap) /\ StackIn(g.heap, g.stack)
      /\ g.stack.top = stack.top /\ g.stack.top + Len(words) <= g.stack.limit
      /\ g.stack.bottom # allocator.bottom
      /\ DOMAIN g.heap = {g.stack.bottom, allocator.bottom}
      /\ g.heap[allocator.bottom] = heap[allocator.bottom]
  BY <1>3, StackGrowthIsEnough
<1>5. g.stack.top \in Nat /\ g.stack.limit \in Nat
  BY <1>4 DEF StackIn, Stacks
<1>6. /\ HeapOK(heap') /\ DOMAIN heap' = DOMAIN g.heap
      /\ \A x \in DOMAIN g.heap :
            /\ Len(heap'[x]) = Len(g.heap[x])
            /\ x # g.stack.bottom => heap'[x] = g.heap[x]
  <2>1. /\ heap' = Write(g.heap, g.stack.bottom, g.stack.top, words)
        /\ HeapOK(g.heap) /\ g.stack.top \in Int
        /\ words \in Seq(Words \cup {Garbage})
    BY <1>2, <1>3, <1>4, <1>5
  <2> QED BY <2>1, WriteType
<1>7. AllocatorIn(heap, allocator) /\ allocator.top > 0
  BY WhileParsing
<1>8. stack' = [bottom |-> g.stack.bottom, top |-> g.stack.top + Len(words),
                limit |-> g.stack.limit]
  BY <1>2, <1>4 DEF StackIn, Stacks
<1>9. StackIn(heap', stack') /\ stack'.limit > 0
  BY <1>3, <1>4, <1>5, <1>6, <1>8 DEF StackIn, Stacks
<1>10. UNCHANGED <<pc, local, allocator, document, root, error>>
  BY DEF Push
<1>11. AllocatorIn(heap', allocator')
  BY <1>4, <1>6, <1>7, <1>10 DEF AllocatorIn
<1>12. error = "none" /\ document = Null /\ local = NullAllocator
  BY DEF Inv, Reached
<1> QED
  BY <1>4, <1>6, <1>7, <1>8, <1>9, <1>10, <1>11, <1>12, StillParsing

\* allocator.reserve() and the words written there: Reserve and Install.
LEMMA ReserveAndWriteInv ==
    ASSUME Inv, pc = "parse", NEW words \in Seq(Words \cup {Garbage}),
           Len(words) \in Nat \ {0}, ReserveAndWrite(words),
           UNCHANGED <<pc, stack, local, document, root, error>>
    PROVE  Inv'
<1>1. PICK g \in AstGrowths(Len(words)) :
          /\ allocator' = [g.allocator EXCEPT
                              !.write_head = g.allocator.write_head - Len(words)]
          /\ heap' = Write(g.heap, g.allocator.bottom,
                           g.allocator.write_head - Len(words), words)
  BY DEF ReserveAndWrite
<1>2. /\ HeapOK(g.heap) /\ AllocatorIn(g.heap, g.allocator)
      /\ Len(words) <= g.allocator.write_head /\ g.allocator.top > 0
      /\ g.allocator.bottom # stack.bottom
      /\ DOMAIN g.heap = {g.allocator.bottom, stack.bottom}
      /\ g.heap[stack.bottom] = heap[stack.bottom]
  BY AstGrowthIsEnough
<1>3. g.allocator.top \in Nat /\ g.allocator.write_head \in Nat
  BY <1>2 DEF AllocatorIn, Allocators
<1>4. /\ HeapOK(heap') /\ DOMAIN heap' = DOMAIN g.heap
      /\ \A x \in DOMAIN g.heap :
            /\ Len(heap'[x]) = Len(g.heap[x])
            /\ x # g.allocator.bottom => heap'[x] = g.heap[x]
  <2> DEFINE at == g.allocator.write_head - Len(words)
  <2>1. /\ heap' = Write(g.heap, g.allocator.bottom, at, words)
        /\ HeapOK(g.heap) /\ at \in Int
    BY <1>1, <1>2, <1>3
  <2> HIDE DEF at
  <2> QED BY <2>1, WriteType
<1>5. StackIn(heap, stack) /\ stack.limit > 0
  BY WhileParsing
<1>6. allocator' = [bottom |-> g.allocator.bottom, top |-> g.allocator.top,
                    write_head |-> g.allocator.write_head - Len(words)]
  BY <1>1, <1>2 DEF AllocatorIn, Allocators
<1>7. AllocatorIn(heap', allocator') /\ allocator'.top > 0
  BY <1>2, <1>3, <1>4, <1>6 DEF AllocatorIn, Allocators
<1>8. StackIn(heap', stack')
  BY <1>2, <1>4, <1>5 DEF StackIn
<1>9. error = "none" /\ document = Null /\ local = NullAllocator
  BY DEF Inv, Reached
<1> QED
  BY <1>2, <1>4, <1>5, <1>6, <1>7, <1>8, <1>9, StillParsing

LEMMA ReserveInv == Inv /\ Reserve => Inv'
<1> SUFFICES ASSUME Inv, Reserve PROVE Inv'
  OBVIOUS
<1>1. PICK words \in Written : ReserveAndWrite(words)
  BY DEF Reserve
<1>2. words \in Seq(Words \cup {Garbage}) /\ Len(words) \in Nat \ {0}
  <2>1. PICK n \in Reservations : words \in [1 .. n -> Words]
    BY DEF Written
  <2>2. n \in Nat \ {0}
    BY SizesAssumption
  <2> QED BY <2>1, <2>2
<1>3. pc = "parse" /\ UNCHANGED <<pc, stack, local, document, root, error>>
  BY DEF Reserve
<1> QED BY <1>1, <1>2, <1>3, ReserveAndWriteInv

LEMMA InstallInv == Inv /\ Install => Inv'
<1> SUFFICES ASSUME Inv, Install PROVE Inv'
  OBVIOUS
<1>1. pc = "parse" /\ UNCHANGED <<pc, stack, local, document, root, error>>
  BY DEF Install
<1>2. HeapOK(heap) /\ stack.top \in Nat
  BY <1>1, WhileParsing DEF StackIn, Stacks
<1>3. PICK base \in 0 .. stack.top, length \in Words :
          ReserveAndWrite(<<length>> \o
                Read(heap, stack.bottom, base, stack.top - base))
  BY DEF Install
<1> DEFINE frame == Read(heap, stack.bottom, base, stack.top - base)
<1>4. base \in Int /\ stack.top - base \in Nat
  BY <1>2
<1>5. frame \in Seq(Words \cup {Garbage}) /\ Len(frame) = stack.top - base
  BY <1>2, <1>4, ReadType
<1> HIDE DEF frame
<1>6. /\ <<length>> \o frame \in Seq(Words \cup {Garbage})
      /\ Len(<<length>> \o frame) \in Nat \ {0}
  BY <1>4, <1>5
<1>7. ReserveAndWrite(<<length>> \o frame)
  BY <1>3 DEF frame
<1> QED BY <1>1, <1>6, <1>7, ReserveAndWriteInv

\* The invariant by its types, where the steps below change owners.
LEMMA InvTypes ==
    ASSUME Inv
    PROVE  /\ HeapOK(heap)
           /\ stack \in Stacks \cup {NullStack}
           /\ allocator \in Allocators \cup {NullAllocator}
           /\ local \in Allocators \cup {NullAllocator}
           /\ document \in Blocks \cup {Null}
           /\ root \in [block : Blocks, offset : Nat] \cup {NullRoot}
           /\ Null \notin DOMAIN heap
  BY BlocksAssumption DEF Inv, TypeOK, HeapOK, Stacks, Allocators

\* The steps that leave the blocks alone and change who points to them.
LEMMA OwnersInv ==
    ASSUME Inv,
           \/ ConstructParser \/ PushRefused \/ ReserveRefused
           \/ Reset \/ Return \/ GetDocument
    PROVE  Inv'
<1> USE InvTypes, BlocksAssumption
        DEF Inv, Reached, Stacks, Allocators, NullStack, NullAllocator,
            NullRoot, StackHead, Allocator
<1>1. CASE ConstructParser
  <2>1. TypeOK'
    BY <1>1 DEF ConstructParser, TypeOK, HeapOK
  <2>2. WithinBlocks' /\ GrowthEnds'
    BY <1>1 DEF ConstructParser, WithinBlocks, GrowthEnds
  <2>3. OneOwner' /\ OnlyRefusalsForget'
    BY <1>1 DEF ConstructParser, OneOwner, OnlyRefusalsForget, Owned, Owners
  <2>4. Reached'
    BY <1>1 DEF ConstructParser, GrowthEnds
  <2> QED BY <2>1, <2>2, <2>3, <2>4
<1>2. CASE PushRefused
  <2>1. TypeOK'
    BY <1>2 DEF PushRefused, TypeOK, HeapOK
  <2>2. WithinBlocks' /\ GrowthEnds'
    BY <1>2 DEF PushRefused, WithinBlocks, GrowthEnds
  <2>3. OneOwner' /\ OnlyRefusalsForget'
    BY <1>2 DEF PushRefused, OneOwner, OnlyRefusalsForget, Owned, Owners
  <2>4. Reached'
    BY <1>2 DEF PushRefused, GrowthEnds
  <2> QED BY <2>1, <2>2, <2>3, <2>4
<1>3. CASE ReserveRefused
  <2>1. TypeOK'
    BY <1>3 DEF ReserveRefused, TypeOK, HeapOK
  <2>2. WithinBlocks' /\ GrowthEnds'
    BY <1>3 DEF ReserveRefused, WithinBlocks, GrowthEnds
  <2>3. OneOwner' /\ OnlyRefusalsForget'
    BY <1>3 DEF ReserveRefused, OneOwner, OnlyRefusalsForget, Owned, Owners
  <2>4. Reached'
    BY <1>3 DEF ReserveRefused, GrowthEnds
  <2> QED BY <2>1, <2>2, <2>3, <2>4
<1>4. CASE Reset
  <2>1. TypeOK'
    BY <1>4 DEF Reset, TypeOK, HeapOK
  <2>2. WithinBlocks' /\ GrowthEnds'
    BY <1>4 DEF Reset, WithinBlocks, GrowthEnds
  <2>3. OneOwner' /\ OnlyRefusalsForget'
    BY <1>4 DEF Reset, OneOwner, OnlyRefusalsForget, Owned, Owners
  <2>4. Reached'
    BY <1>4 DEF Reset, GrowthEnds
  <2> QED BY <2>1, <2>2, <2>3, <2>4
<1>5. CASE Return
  <2>1. TypeOK'
    BY <1>5 DEF Return, TypeOK, HeapOK
  <2>2. WithinBlocks' /\ GrowthEnds'
    BY <1>5 DEF Return, WithinBlocks, GrowthEnds
  <2>3. OneOwner' /\ OnlyRefusalsForget'
    BY <1>5 DEF Return, OneOwner, OnlyRefusalsForget, Owned, Owners
  <2>4. Reached'
    BY <1>5 DEF Return, GrowthEnds
  <2> QED BY <2>1, <2>2, <2>3, <2>4
<1>6. CASE GetDocument
  <2>1. TypeOK'
    BY <1>6 DEF GetDocument, TypeOK, HeapOK
  <2>2. WithinBlocks' /\ GrowthEnds'
    BY <1>6 DEF GetDocument, WithinBlocks, GrowthEnds
  <2>3. OneOwner' /\ OnlyRefusalsForget'
    BY <1>6 DEF GetDocument, OneOwner, OnlyRefusalsForget, Owned, Owners
  <2>4. Reached'
    BY <1>6 DEF GetDocument, GrowthEnds
  <2> QED BY <2>1, <2>2, <2>3, <2>4
<1> QED BY <1>1, <1>2, <1>3, <1>4, <1>5, <1>6

LEMMA MakeAllocatorInv == Inv /\ MakeAllocator => Inv'
<1> SUFFICES ASSUME Inv, MakeAllocator PROVE Inv'
  OBVIOUS
<1>1. /\ pc = "make_allocator" /\ error = "none" /\ document = Null
      /\ stack = NullStack /\ allocator = NullAllocator
      /\ local = NullAllocator
      /\ UNCHANGED <<stack, allocator, document, root>>
  BY DEF MakeAllocator, Inv, Reached
<1>2. DOMAIN heap = {}
  <2>1. Owned = {}
    BY <1>1 DEF Owned, Owners, NullStack, NullAllocator, StackHead, Allocator
  <2> QED BY <1>1, <2>1 DEF Inv, OnlyRefusalsForget
<1>3. HeapOK(heap)
  BY InvTypes
<1>4. CASE \E b \in Free, capacity \in InitialCapacities :
              LET c == OrDefault(capacity, DefaultAst)
              IN  /\ heap' = New(heap, b, c)
                  /\ local' = Allocator(b, c, c)
                  /\ pc' = "parser"
                  /\ UNCHANGED error
  <2>1. PICK b \in Free, capacity \in InitialCapacities :
              /\ heap' = New(heap, b, OrDefault(capacity, DefaultAst))
              /\ local' = Allocator(b, OrDefault(capacity, DefaultAst),
                                     OrDefault(capacity, DefaultAst))
              /\ pc' = "parser" /\ error' = error
    BY <1>4
  <2> DEFINE c == OrDefault(capacity, DefaultAst)
  <2>2. c \in Nat /\ c > 0
    BY SizesAssumption DEF OrDefault
  <2>3. heap' = New(heap, b, c) /\ local' = Allocator(b, c, c)
    BY <2>1
  <2> HIDE DEF c
  <2>4. b \in Blocks
    BY DEF Free
  <2>5. HeapOK(heap') /\ DOMAIN heap' = {b} /\ Len(heap'[b]) = c
    <3>1. /\ HeapOK(New(heap, b, c))
          /\ DOMAIN New(heap, b, c) = DOMAIN heap \cup {b}
          /\ Len(New(heap, b, c)[b]) = c
      BY <1>3, <2>2, <2>4, NewType
    <3> QED BY <1>2, <2>3, <3>1
  <2>6. TypeOK'
    BY <1>1, <2>1, <2>2, <2>3, <2>4, <2>5
       DEF Inv, TypeOK, HeapOK, Allocator
  <2>7. WithinBlocks' /\ GrowthEnds'
    BY <1>1, <2>1, <2>2, <2>3, <2>5
       DEF WithinBlocks, GrowthEnds, NullStack, NullAllocator, StackHead,
           Allocator
  <2>8. Owned' = {b}
    BY <1>1, <2>3, <2>4, BlocksAssumption
       DEF Owned, Owners, NullStack, NullAllocator, StackHead, Allocator
  <2>9. OneOwner' /\ OnlyRefusalsForget'
    BY <1>1, <2>5, <2>8
       DEF OneOwner, OnlyRefusalsForget, Owners, NullStack, NullAllocator,
           StackHead, Allocator
  <2>10. Reached'
    BY <1>1, <2>1, <2>2, <2>3, <2>4, BlocksAssumption
       DEF Reached, Allocator
  <2> QED BY <2>6, <2>7, <2>9, <2>10 DEF Inv
<1>5. CASE /\ pc' = "destructors"
           /\ error' = "OUT_OF_MEMORY"
           /\ UNCHANGED <<heap, local>>
  BY <1>1, <1>5
     DEF Inv, TypeOK, WithinBlocks, GrowthEnds, OneOwner, OnlyRefusalsForget,
         Owned, Owners, Reached
<1> QED BY <1>4, <1>5 DEF MakeAllocator

LEMMA GetStackHeadInv == Inv /\ GetStackHead => Inv'
<1> SUFFICES ASSUME Inv, GetStackHead PROVE Inv'
  OBVIOUS
<1>1. /\ pc = "get_stack_head" /\ error = "none" /\ document = Null
      /\ stack = NullStack /\ local = NullAllocator
      /\ allocator.bottom # Null /\ allocator.top > 0
      /\ UNCHANGED <<local, allocator, document, root>>
  BY DEF GetStackHead, Inv, Reached
<1>2. DOMAIN heap = {allocator.bottom}
  <2>1. Owned = {allocator.bottom}
    BY <1>1 DEF Owned, Owners, NullStack, NullAllocator, StackHead, Allocator
  <2> QED BY <1>1, <2>1 DEF Inv, OneOwner, OnlyRefusalsForget
<1>3. HeapOK(heap) /\ AllocatorIn(heap, allocator)
  BY <1>1, InvTypes
     DEF Inv, WithinBlocks, AllocatorIn, NullAllocator, Allocator
<1>4. CASE \E b \in Free, capacity \in InitialCapacities :
              LET c == OrDefault(capacity, DefaultStack)
              IN  /\ heap' = New(heap, b, c)
                  /\ stack' = StackHead(b, 0, c)
                  /\ pc' = "parse"
                  /\ UNCHANGED error
  <2>1. PICK b \in Free, capacity \in InitialCapacities :
              /\ heap' = New(heap, b, OrDefault(capacity, DefaultStack))
              /\ stack' = StackHead(b, 0, OrDefault(capacity, DefaultStack))
              /\ pc' = "parse" /\ error' = error
    BY <1>4
  <2> DEFINE c == OrDefault(capacity, DefaultStack)
  <2>2. c \in Nat /\ c > 0
    BY SizesAssumption DEF OrDefault
  <2>3. heap' = New(heap, b, c) /\ stack' = StackHead(b, 0, c)
    BY <2>1
  <2> HIDE DEF c
  <2>4. b \in Blocks /\ b # allocator.bottom
    BY <1>2 DEF Free
  <2>5. /\ HeapOK(heap') /\ DOMAIN heap' = {b, allocator.bottom}
        /\ Len(heap'[b]) = c
        /\ heap'[allocator.bottom] = heap[allocator.bottom]
    <3>1. /\ HeapOK(New(heap, b, c))
          /\ DOMAIN New(heap, b, c) = DOMAIN heap \cup {b}
          /\ Len(New(heap, b, c)[b]) = c
          /\ \A x \in DOMAIN heap : x # b => New(heap, b, c)[x] = heap[x]
      BY <1>3, <2>2, <2>4, NewType
    <3> QED BY <1>2, <2>3, <2>4, <3>1
  <2>6. StackIn(heap', stack')
    BY <2>2, <2>3, <2>4, <2>5 DEF StackIn, Stacks, StackHead
  <2>7. AllocatorIn(heap', allocator')
    BY <1>1, <1>3, <2>5 DEF AllocatorIn
  <2>8. stack'.bottom = b /\ stack'.limit > 0
    BY <2>2, <2>3 DEF StackHead
  <2> QED
    BY <1>1, <2>1, <2>4, <2>5, <2>6, <2>7, <2>8, StillParsing
<1>5. CASE /\ pc' = "return"
           /\ error' = "OUT_OF_MEMORY"
           /\ UNCHANGED <<heap, stack>>
  BY <1>1, <1>5
     DEF Inv, TypeOK, WithinBlocks, GrowthEnds, OneOwner, OnlyRefusalsForget,
         Owned, Owners, Reached
<1> QED BY <1>4, <1>5 DEF GetStackHead

LEMMA DestroyStackInv == Inv /\ DestroyStack => Inv'
<1> SUFFICES ASSUME Inv, DestroyStack PROVE Inv'
  OBVIOUS
<1>1. /\ pc = "return" /\ document = Null /\ local = NullAllocator
      /\ heap' = Delete(heap, stack.bottom)
      /\ stack' = NullStack /\ pc' = "get_document"
      /\ UNCHANGED <<local, allocator, document, root, error>>
  BY DEF DestroyStack, Inv, Reached
<1>2. /\ HeapOK(heap') /\ DOMAIN heap' = DOMAIN heap \ {stack.bottom}
      /\ \A x \in DOMAIN heap : x # stack.bottom => heap'[x] = heap[x]
  <2>1. HeapOK(heap)
    BY InvTypes
  <2> QED BY <1>1, <2>1, DeleteType
<1>3. allocator.bottom # Null => stack.bottom # allocator.bottom
  <2>1. /\ DOMAIN Owners = {"stack", "local", "allocator", "document"}
        /\ Owners["stack"] = stack.bottom
        /\ Owners["allocator"] = allocator.bottom
    BY DEF Owners
  <2> QED BY <2>1 DEF Inv, OneOwner
<1>4. TypeOK'
  BY <1>1, <1>2 DEF Inv, TypeOK, HeapOK
<1>5. WithinBlocks' /\ GrowthEnds'
  BY <1>1, <1>2, <1>3
     DEF Inv, WithinBlocks, GrowthEnds, NullStack, NullAllocator, StackHead,
         Allocator
<1>6. Owned' = {allocator.bottom} \ {Null}
  BY <1>1 DEF Owned, Owners, NullStack, NullAllocator, StackHead, Allocator
<1>7. Owned = {stack.bottom, allocator.bottom} \ {Null}
  BY <1>1 DEF Owned, Owners, NullAllocator, Allocator
<1>8. OneOwner'
  BY <1>1, <1>2, <1>3, <1>6, <1>7
     DEF Inv, OneOwner, Owners, NullStack, NullAllocator, StackHead, Allocator
<1>9. OnlyRefusalsForget'
  BY <1>1, <1>2, <1>6, <1>7 DEF Inv, OnlyRefusalsForget
<1>10. Reached'
  BY <1>1 DEF Inv, Reached
<1> QED BY <1>4, <1>5, <1>8, <1>9, <1>10 DEF Inv

LEMMA DestructorsInv == Inv /\ Destructors => Inv'
<1> SUFFICES ASSUME Inv, Destructors PROVE Inv'
  OBVIOUS
<1>1. /\ pc = "destructors" /\ stack = NullStack /\ local = NullAllocator
      /\ heap' = Delete(Delete(heap, allocator.bottom), local.bottom)
      /\ allocator' = NullAllocator /\ local' = NullAllocator
      /\ pc' = "returned" /\ UNCHANGED <<stack, document, root, error>>
  BY DEF Destructors, Inv, Reached
<1>2. /\ HeapOK(heap')
      /\ DOMAIN heap' = (DOMAIN heap \ {allocator.bottom}) \ {local.bottom}
  <2> DEFINE h == Delete(heap, allocator.bottom)
  <2>1. HeapOK(heap)
    BY InvTypes
  <2>2. HeapOK(h) /\ DOMAIN h = DOMAIN heap \ {allocator.bottom}
    BY <2>1, DeleteType
  <2>3. heap' = Delete(h, local.bottom)
    BY <1>1
  <2> HIDE DEF h
  <2>4. /\ HeapOK(Delete(h, local.bottom))
        /\ DOMAIN Delete(h, local.bottom) = DOMAIN h \ {local.bottom}
    BY <2>2, DeleteType
  <2> QED BY <2>2, <2>3, <2>4
<1>3. allocator.bottom # Null => document # allocator.bottom
  <2>1. /\ DOMAIN Owners = {"stack", "local", "allocator", "document"}
        /\ Owners["document"] = document
        /\ Owners["allocator"] = allocator.bottom
    BY DEF Owners
  <2> QED BY <2>1 DEF Inv, OneOwner
<1>4. Null \notin DOMAIN heap
  BY InvTypes
<1>5. TypeOK'
  BY <1>1, <1>2 DEF Inv, TypeOK, HeapOK
<1>6. WithinBlocks' /\ GrowthEnds'
  BY <1>1
     DEF WithinBlocks, GrowthEnds, NullStack, NullAllocator, StackHead,
         Allocator
<1>7. Owned' = {document} \ {Null}
  BY <1>1 DEF Owned, Owners, NullStack, NullAllocator, StackHead, Allocator
<1>8. Owned = {document, allocator.bottom} \ {Null}
  BY <1>1 DEF Owned, Owners, NullStack, NullAllocator, StackHead, Allocator
<1>9. OneOwner'
  BY <1>1, <1>2, <1>3, <1>7, <1>8
     DEF Inv, OneOwner, Owners, NullStack, NullAllocator, StackHead, Allocator
<1>10. OnlyRefusalsForget'
  BY <1>1, <1>2, <1>4, <1>7, <1>8 DEF Inv, OnlyRefusalsForget
<1>11. Reached'
  BY <1>1 DEF Inv, Reached
<1> QED BY <1>5, <1>6, <1>9, <1>10, <1>11 DEF Inv

LEMMA DropDocumentInv == Inv /\ DropDocument => Inv'
<1> SUFFICES ASSUME Inv, DropDocument PROVE Inv'
  OBVIOUS
<1>1. /\ pc = "returned" /\ stack = NullStack /\ local = NullAllocator
      /\ allocator = NullAllocator /\ heap' = Delete(heap, document)
      /\ document' = Null /\ root' = NullRoot /\ pc' = "dropped"
      /\ UNCHANGED <<stack, local, allocator, error>>
  BY DEF DropDocument, Inv, Reached
<1>2. HeapOK(heap') /\ DOMAIN heap' = DOMAIN heap \ {document}
  <2>1. HeapOK(heap)
    BY InvTypes
  <2> QED BY <1>1, <2>1, DeleteType
<1>3. TypeOK'
  BY <1>1, <1>2 DEF Inv, TypeOK, HeapOK
<1>4. WithinBlocks' /\ GrowthEnds'
  BY <1>1
     DEF WithinBlocks, GrowthEnds, NullStack, NullAllocator, StackHead,
         Allocator
<1>5. Owned' = {} /\ Owned = {document} \ {Null}
  BY <1>1 DEF Owned, Owners, NullStack, NullAllocator, StackHead, Allocator
<1>6. OneOwner'
  BY <1>1, <1>5
     DEF OneOwner, Owners, NullStack, NullAllocator, StackHead, Allocator
<1>7. OnlyRefusalsForget'
  BY <1>1, <1>2, <1>5, InvTypes DEF Inv, OnlyRefusalsForget
<1>8. Reached'
  BY <1>1 DEF Inv, Reached
<1> QED BY <1>3, <1>4, <1>6, <1>7, <1>8 DEF Inv

LEMMA NextInv == Inv /\ [Next]_vars => Inv'
<1> SUFFICES ASSUME Inv, [Next]_vars PROVE Inv'
  OBVIOUS
<1>1. CASE UNCHANGED vars
  BY <1>1
     DEF vars, Inv, TypeOK, WithinBlocks, GrowthEnds, OneOwner, Owned, Owners,
         OnlyRefusalsForget, Reached
<1>2. CASE MakeAllocator \/ GetStackHead \/ Push \/ Reserve \/ Install
  BY <1>2, MakeAllocatorInv, GetStackHeadInv, PushInv, ReserveInv, InstallInv
<1>3. CASE DestroyStack \/ Destructors \/ DropDocument
  BY <1>3, DestroyStackInv, DestructorsInv, DropDocumentInv
<1>4. CASE \/ ConstructParser \/ PushRefused \/ ReserveRefused
           \/ Reset \/ Return \/ GetDocument
  BY <1>4, OwnersInv
<1> QED BY <1>1, <1>2, <1>3, <1>4 DEF Next

LEMMA Invariance == Spec => []Inv
  BY InitInv, NextInv, PTL DEF Spec

-----------------------------------------------------------------------------
(***************************************************************************)
(* The theorems.                                                           *)
(***************************************************************************)

\* Every variable keeps to its type; the three pointers of a stack or an
\* allocator are nulled together (the moves of dynamic_allocation's classes).
THEOREM PointersNulledTogether == Spec => []TypeOK
  BY Invariance, PTL DEF Inv

\* can_grow returns true only when what was asked for fits in the block, in
\* which the parser then writes (dynamic_allocation's two classes).
THEOREM BlocksAreLargeEnough == Spec => []WithinBlocks
  BY Invariance, PTL DEF Inv

\* The doubling loops of can_grow never start from a capacity of 0.
THEOREM DoublingEnds == Spec => []GrowthEnds
  BY Invariance, PTL DEF Inv

\* Moves, transfer_ownership() and the destructors: no block is freed twice,
\* and none that an owner points to has been freed.
THEOREM FreedOnce == Spec => []OneOwner
  BY Invariance, PTL DEF Inv

\* No way through a parse but a refused block leaves memory behind.
THEOREM NothingElseIsForgotten == Spec => []OnlyRefusalsForget
  BY Invariance, PTL DEF Inv

-----------------------------------------------------------------------------
(***************************************************************************)
(* Reading what was written.                                               *)
(***************************************************************************)
AnyWords == Seq(Words \cup {Garbage})

LEMMA ReadWord ==
    ASSUME NEW h, HeapOK(h), NEW b \in DOMAIN h, NEW i \in Nat,
           i < Len(h[b])
    PROVE  WordAt(h, b, i) = h[b][i + 1]
<1>1. Len(h[b]) \in Nat
  BY DEF HeapOK
<1> QED BY <1>1 DEF WordAt

\* Two reads of equal words are equal.
LEMMA SameWords ==
    ASSUME NEW g, NEW h, NEW a, NEW b, NEW i \in Int, NEW j \in Int,
           NEW n \in Nat,
           \A k \in 0 .. n - 1 : WordAt(g, a, i + k) = WordAt(h, b, j + k)
    PROVE  Read(g, a, i, n) = Read(h, b, j, n)
<1>1. ASSUME NEW k \in 1 .. n
      PROVE  WordAt(g, a, i + k - 1) = WordAt(h, b, j + k - 1)
  <2>1. k - 1 \in 0 .. n - 1 /\ i + (k - 1) = i + k - 1 /\ j + (k - 1) = j + k - 1
    BY <1>1
  <2>2. WordAt(g, a, i + (k - 1)) = WordAt(h, b, j + (k - 1))
    BY <2>1
  <2> QED BY <2>1, <2>2
<1> QED BY <1>1 DEF Read

\* A block that is the same reads the same.
LEMMA SameBlock ==
    ASSUME NEW g, NEW h, NEW b \in DOMAIN g, b \in DOMAIN h, g[b] = h[b],
           NEW i \in Int, NEW n \in Nat
    PROVE  Read(g, b, i, n) = Read(h, b, i, n)
  BY DEF Read, WordAt

LEMMA WriteWord ==
    ASSUME NEW h, HeapOK(h), NEW b \in DOMAIN h, NEW i \in Nat,
           NEW words \in AnyWords, i + Len(words) <= Len(h[b]),
           NEW j \in Nat, j < Len(h[b])
    PROVE  WordAt(Write(h, b, i, words), b, j) =
              IF i <= j /\ j < i + Len(words) THEN words[j - i + 1]
              ELSE WordAt(h, b, j)
<1> DEFINE w == Write(h, b, i, words)
<1>1. HeapOK(w) /\ b \in DOMAIN w /\ Len(w[b]) = Len(h[b])
  BY WriteType DEF AnyWords
<1>2. Len(h[b]) \in Nat /\ Len(words) \in Nat
  BY DEF HeapOK, AnyWords
<1>3. w[b] = [k \in 1 .. Len(h[b]) |->
                 IF k - i \in 1 .. Len(words) THEN words[k - i] ELSE h[b][k]]
  BY DEF Write
<1>4. WordAt(w, b, j) = w[b][j + 1]
  <2> HIDE DEF w
  <2> QED BY <1>1, ReadWord
<1>5. WordAt(h, b, j) = h[b][j + 1]
  BY ReadWord
<1>6. j + 1 \in 1 .. Len(h[b])
  BY <1>2
<1>7. w[b][j + 1] = IF j + 1 - i \in 1 .. Len(words) THEN words[j + 1 - i]
                    ELSE h[b][j + 1]
  <2> HIDE DEF w
  <2> QED BY <1>3, <1>6
<1>8. j + 1 - i = j - i + 1
  OBVIOUS
<1>9. j + 1 - i \in 1 .. Len(words) <=> i <= j /\ j < i + Len(words)
  BY <1>2
<1> QED BY <1>4, <1>5, <1>7, <1>8, <1>9

LEMMA ReadWritten ==
    ASSUME NEW h, HeapOK(h), NEW b \in DOMAIN h, NEW i \in Nat,
           NEW words \in AnyWords, i + Len(words) <= Len(h[b])
    PROVE  Read(Write(h, b, i, words), b, i, Len(words)) = words
<1> DEFINE r == Read(Write(h, b, i, words), b, i, Len(words))
<1>1. Len(words) \in Nat /\ Len(h[b]) \in Nat
  BY DEF AnyWords, HeapOK
<1>2. ASSUME NEW k \in 1 .. Len(words)
      PROVE  WordAt(Write(h, b, i, words), b, i + k - 1) = words[k]
  <2> DEFINE j == i + k - 1
  <2>1. j \in Nat /\ j < Len(h[b]) /\ i <= j /\ j < i + Len(words)
        /\ j - i + 1 = k
    BY <1>1, <1>2
  <2> HIDE DEF j
  <2>2. WordAt(Write(h, b, i, words), b, j) = words[j - i + 1]
    BY <2>1, WriteWord
  <2> QED BY <2>1, <2>2 DEF j
<1>3. r = [k \in 1 .. Len(words) |-> words[k]]
  BY <1>2 DEF Read
<1> QED BY <1>3 DEF AnyWords

LEMMA ReadElsewhere ==
    ASSUME NEW h, HeapOK(h), NEW b \in DOMAIN h, NEW i \in Nat,
           NEW words \in AnyWords, i + Len(words) <= Len(h[b]),
           NEW j \in Nat, NEW n \in Nat, j + n <= Len(h[b]),
           j + n <= i \/ i + Len(words) <= j
    PROVE  Read(Write(h, b, i, words), b, j, n) = Read(h, b, j, n)
<1>1. Len(words) \in Nat /\ Len(h[b]) \in Nat
  BY DEF AnyWords, HeapOK
<1>2. ASSUME NEW k \in 0 .. n - 1
      PROVE  WordAt(Write(h, b, i, words), b, j + k) = WordAt(h, b, j + k)
  <2> DEFINE x == j + k
  <2>1. x \in Nat /\ x < Len(h[b]) /\ ~(i <= x /\ x < i + Len(words))
    BY <1>1, <1>2
  <2> HIDE DEF x
  <2>2. WordAt(Write(h, b, i, words), b, x) = WordAt(h, b, x)
    BY <2>1, WriteWord
  <2> QED BY <2>2 DEF x
<1> QED BY <1>2, SameWords, SMTT(30)

\* Concatenation, to be expanded only where its properties are needed.
Cat(s, t) == s \o t

LEMMA ReadConcat ==
    ASSUME NEW h, HeapOK(h), NEW b, NEW i \in Int, NEW n \in Nat, NEW m \in Nat,
           NEW j, j = i + n, NEW l, l = n + m
    PROVE  Read(h, b, i, l) = Cat(Read(h, b, i, n), Read(h, b, j, m))
<1> DEFINE r == Read(h, b, i, n + m)
           s == Read(h, b, i, n)
           t == Read(h, b, i + n, m)
<1>1. r \in AnyWords /\ Len(r) = n + m
  BY ReadType DEF AnyWords
<1>2. s \in AnyWords /\ Len(s) = n
  BY ReadType DEF AnyWords
<1>3. t \in AnyWords /\ Len(t) = m
  BY ReadType DEF AnyWords
<1>4. s \o t \in AnyWords /\ Len(s \o t) = n + m
  BY <1>2, <1>3, ConcatProperties DEF AnyWords
<1> HIDE DEF r, s, t
<1>5. ASSUME NEW k \in 1 .. n + m
      PROVE  r[k] = (s \o t)[k]
  <2>1. r[k] = WordAt(h, b, i + k - 1)
    BY <1>5 DEF r, Read
  <2>2. (s \o t)[k] = IF k <= n THEN s[k] ELSE t[k - n]
    BY <1>2, <1>3, <1>5, ConcatProperties DEF AnyWords
  <2>3. CASE k <= n
    <3>1. s[k] = WordAt(h, b, i + k - 1)
      BY <1>5, <2>3 DEF s, Read
    <3> QED BY <2>1, <2>2, <2>3, <3>1
  <2>4. CASE ~(k <= n)
    <3>1. k - n \in 1 .. m /\ i + n + (k - n) - 1 = i + k - 1
      BY <1>5, <2>4
    <3>2. t[k - n] = WordAt(h, b, i + n + (k - n) - 1)
      BY <3>1 DEF t, Read
    <3> QED BY <2>1, <2>2, <2>4, <3>1, <3>2
  <2> QED BY <2>3, <2>4
<1>6. r = s \o t
  <2>1. r \in AnyWords /\ s \o t \in AnyWords /\ Len(r) = Len(s \o t)
        /\ \A k \in 1 .. Len(r) : r[k] = (s \o t)[k]
    BY <1>1, <1>4, <1>5
  <2> QED BY <2>1, SeqEqual DEF AnyWords
<1> QED BY <1>6 DEF r, s, t, Cat

LEMMA ReadSubSeq ==
    ASSUME NEW h, HeapOK(h), NEW b, NEW n \in Nat, NEW i \in 0 .. n,
           NEW m \in i .. n
    PROVE  Read(h, b, i, m - i) = SubSeq(Read(h, b, 0, n), i + 1, m)
<1> DEFINE r == Read(h, b, 0, n)
           s == Read(h, b, i, m - i)
<1>1. r \in AnyWords /\ Len(r) = n
  BY ReadType DEF AnyWords
<1>2. s \in AnyWords /\ Len(s) = m - i
  BY ReadType DEF AnyWords
<1>3. ASSUME NEW k \in 1 .. m - i
      PROVE  s[k] = r[i + k]
  BY <1>3 DEF Read
<1>4. /\ SubSeq(r, i + 1, m) \in AnyWords /\ Len(SubSeq(r, i + 1, m)) = m - i
      /\ \A k \in 1 .. m - i : SubSeq(r, i + 1, m)[k] = r[i + k]
  <2> HIDE DEF r
  <2> QED BY <1>1 DEF AnyWords
<1>5. s = SubSeq(r, i + 1, m)
  <2> HIDE DEF r, s
  <2> DEFINE u == SubSeq(r, i + 1, m)
  <2>1. s \in AnyWords /\ u \in AnyWords /\ Len(s) = Len(u)
        /\ \A k \in 1 .. Len(s) : s[k] = u[k]
    BY <1>2, <1>3, <1>4
  <2> HIDE DEF u
  <2>2. s = u
    BY <2>1, SeqEqual DEF AnyWords
  <2> QED BY <2>2 DEF u
<1> QED BY <1>5

-----------------------------------------------------------------------------
(***************************************************************************)
(* Growth keeps every word.                                                *)
(***************************************************************************)
StackWords == Read(heap, stack.bottom, 0, stack.top)

\* h after a new block b of c words has been given some words from offset at
\* on, and an old block has been freed.
Moved(h, b, c, at, words, old) == Delete(Write(New(h, b, c), b, at, words), old)

LEMMA MovedWords ==
    ASSUME NEW h, HeapOK(h), NEW b \in Blocks, NEW c \in Nat, NEW at \in Nat,
           NEW words \in AnyWords, at + Len(words) <= c,
           NEW old, b # old
    PROVE  Read(Moved(h, b, c, at, words, old), b, at, Len(words)) = words
<1> DEFINE h1 == New(h, b, c)
           h2 == Write(h1, b, at, words)
           h3 == Delete(h2, old)
<1>1. HeapOK(h1) /\ b \in DOMAIN h1 /\ Len(h1[b]) = c
  <2>1. HeapOK(h1) /\ DOMAIN h1 = DOMAIN h \cup {b} /\ Len(h1[b]) = c
    BY NewType
  <2> HIDE DEF h1
  <2> QED BY <2>1
<1>2. HeapOK(h2) /\ b \in DOMAIN h2
  <2> HIDE DEF h1
  <2> QED BY <1>1, WriteType DEF AnyWords
<1>3. b \in DOMAIN h3 /\ h3[b] = h2[b]
  <2> HIDE DEF h2
  <2> QED BY <1>2, DeleteType
<1>4. Read(h2, b, at, Len(words)) = words
  <2> HIDE DEF h1
  <2> QED BY <1>1, ReadWritten
<1>5. Read(h3, b, at, Len(words)) = Read(h2, b, at, Len(words))
  <2>1. at \in Int /\ Len(words) \in Nat
    BY DEF AnyWords
  <2> HIDE DEF h2, h3
  <2> QED BY <1>2, <1>3, <2>1, SameBlock
<1> QED BY <1>4, <1>5 DEF Moved

LEMMA StackGrowthKeeps ==
    ASSUME Inv, pc = "parse", NEW n \in Nat \ {0}, NEW g \in StackGrowths(n)
    PROVE  Read(g.heap, g.stack.bottom, 0, stack.top) = StackWords
<1>1. /\ HeapOK(heap) /\ StackIn(heap, stack)
      /\ DOMAIN heap = {stack.bottom, allocator.bottom}
  BY WhileParsing
<1>2. stack.top \in Nat /\ stack.limit \in Nat
  BY <1>1 DEF StackIn, Stacks
<1>3. CASE StackHasRoom(n)
  BY <1>3 DEF StackGrowths, StackWords
<1>4. CASE ~StackHasRoom(n)
  <2>1. PICK b \in Free : \E c \in Doubled(stack.limit, n + stack.top) :
                              g = GrownStack(b, c)
    BY <1>4 DEF StackGrowths
  <2>2. PICK c \in Doubled(stack.limit, n + stack.top) : g = GrownStack(b, c)
    BY <2>1
  <2>3. c \in Nat /\ c >= n + stack.top
    BY <1>2, DoubledIsEnough
  <2>4. b \in Blocks /\ b # stack.bottom
    BY <1>1 DEF Free
  <2>5. StackWords \in AnyWords /\ Len(StackWords) = stack.top
    BY <1>1, <1>2, ReadType DEF StackWords, AnyWords
  <2>6. /\ g.heap = Moved(heap, b, c, 0, StackWords, stack.bottom)
        /\ g.stack.bottom = b
    BY <2>2 DEF GrownStack, Moved, StackWords, StackHead
  <2>7. 0 \in Nat /\ 0 + Len(StackWords) <= c
    BY <1>2, <2>3, <2>5
  <2>8. Read(Moved(heap, b, c, 0, StackWords, stack.bottom), b, 0,
             Len(StackWords)) = StackWords
    BY <1>1, <2>3, <2>4, <2>5, <2>7, MovedWords
  <2> QED BY <2>5, <2>6, <2>8
<1> QED BY <1>3, <1>4

LEMMA AstGrowthKeeps ==
    ASSUME Inv, pc = "parse", NEW n \in Nat \ {0}, NEW g \in AstGrowths(n)
    PROVE  /\ g.allocator.top - g.allocator.write_head = AstSize
           /\ Read(g.heap, g.allocator.bottom, g.allocator.write_head, AstSize)
                = Ast
<1>1. /\ HeapOK(heap) /\ AllocatorIn(heap, allocator) /\ AstSize \in Nat
      /\ DOMAIN heap = {stack.bottom, allocator.bottom}
  BY WhileParsing
<1>2. allocator.top \in Nat /\ allocator.write_head \in Nat
  BY <1>1 DEF AllocatorIn, Allocators
<1>3. CASE AstHasRoom(n)
  BY <1>3 DEF AstGrowths, Ast, AstSize
<1>4. CASE ~AstHasRoom(n)
  <2>1. PICK b \in Free : \E c \in Doubled(allocator.top, n + AstSize) :
                              g = GrownAst(b, c)
    BY <1>4 DEF AstGrowths
  <2>2. PICK c \in Doubled(allocator.top, n + AstSize) : g = GrownAst(b, c)
    BY <2>1
  <2>3. c \in Nat /\ c >= n + AstSize
    BY <1>1, <1>2, DoubledIsEnough
  <2>4. b \in Blocks /\ b # allocator.bottom
    BY <1>1 DEF Free
  <2>5. Ast \in AnyWords /\ Len(Ast) = AstSize
    BY <1>1, <1>2, ReadType DEF Ast, AnyWords
  <2>6. /\ g.heap = Moved(heap, b, c, c - AstSize, Ast, allocator.bottom)
        /\ g.allocator = Allocator(b, c, c - AstSize)
    BY <2>2 DEF GrownAst, Moved
  <2>7. c - AstSize \in Nat /\ (c - AstSize) + Len(Ast) <= c
    BY <1>1, <2>3, <2>5
  <2> DEFINE at == c - AstSize
  <2>8. Read(Moved(heap, b, c, at, Ast, allocator.bottom), b, at, Len(Ast)) = Ast
    <3>1. at \in Nat /\ at + Len(Ast) <= c
      BY <2>7
    <3> HIDE DEF at
    <3> QED BY <1>1, <2>3, <2>4, <2>5, <3>1, MovedWords, SMTT(30)
  <2>9. /\ g.allocator.bottom = b /\ g.allocator.top = c
        /\ g.allocator.write_head = at
    BY <2>6 DEF Allocator
  <2> QED BY <1>1, <2>3, <2>5, <2>6, <2>8, <2>9
<1> QED BY <1>3, <1>4

-----------------------------------------------------------------------------
(***************************************************************************)
(* The calls of the parser.                                                *)
(***************************************************************************)
LEMMA PushKeeps ==
    ASSUME Inv, pc = "parse", NEW words \in AnyWords,
           Len(words) \in Nat \ {0}, NEW g \in StackGrowths(Len(words)),
           stack' = [g.stack EXCEPT !.top = @ + Len(words)],
           heap' = Write(g.heap, g.stack.bottom, g.stack.top, words),
           allocator' = allocator
    PROVE  StackWords' = StackWords \o words /\ Ast' = Ast
<1>1. /\ HeapOK(g.heap) /\ StackIn(g.heap, g.stack)
      /\ g.stack.top = stack.top /\ g.stack.top + Len(words) <= g.stack.limit
      /\ g.stack.bottom # allocator.bottom
      /\ DOMAIN g.heap = {g.stack.bottom, allocator.bottom}
      /\ g.heap[allocator.bottom] = heap[allocator.bottom]
  BY StackGrowthIsEnough
<1> DEFINE b == g.stack.bottom
           top == g.stack.top
<1>2. /\ top \in Nat /\ b \in DOMAIN g.heap
      /\ top + Len(words) <= Len(g.heap[b])
  BY <1>1 DEF StackIn, Stacks
<1>3. stack' = [bottom |-> b, top |-> top + Len(words), limit |-> g.stack.limit]
  BY <1>1 DEF StackIn, Stacks
<1>4. Read(g.heap, b, 0, top) = StackWords
  BY <1>1, StackGrowthKeeps
<1>5. heap' = Write(g.heap, b, top, words)
  OBVIOUS
<1>6. HeapOK(heap') /\ DOMAIN heap' = DOMAIN g.heap
      /\ \A x \in DOMAIN g.heap : x # b => heap'[x] = g.heap[x]
  <2>1. top \in Int /\ HeapOK(g.heap)
    BY <1>1, <1>2
  <2> HIDE DEF b, top
  <2> QED BY <1>5, <2>1, WriteType DEF AnyWords
<1>7. Read(heap', b, top, Len(words)) = words
  <2> HIDE DEF b, top
  <2> QED BY <1>1, <1>2, <1>5, ReadWritten
<1>8. Read(heap', b, 0, top) = StackWords
  <2>1. 0 \in Nat /\ 0 + top <= Len(g.heap[b]) /\ 0 + top <= top
    BY <1>1, <1>2 DEF StackIn, Stacks
  <2> HIDE DEF b, top
  <2>2. Read(Write(g.heap, b, top, words), b, 0, top) = Read(g.heap, b, 0, top)
    <3>1. /\ HeapOK(g.heap) /\ b \in DOMAIN g.heap /\ top \in Nat
          /\ top + Len(words) <= Len(g.heap[b]) /\ words \in AnyWords
      BY <1>1, <1>2
    <3> QED BY <2>1, <3>1, ReadElsewhere
  <2> QED BY <1>4, <1>5, <2>2
<1>9. StackWords' = StackWords \o words
  <2>1. StackWords' = Read(heap', b, 0, top + Len(words))
    BY <1>3 DEF StackWords
  <2> HIDE DEF b, top
  <2> DEFINE total == top + Len(words)
  <2>2. /\ 0 \in Int /\ top = 0 + top /\ top \in Nat
        /\ Len(words) \in Nat /\ HeapOK(heap') /\ total = top + Len(words)
    BY <1>2, <1>6
  <2> HIDE DEF total
  <2>3. Read(heap', b, 0, total)
            = Cat(Read(heap', b, 0, top), Read(heap', b, top, Len(words)))
    BY <2>2, ReadConcat
  <2> QED BY <1>7, <1>8, <2>1, <2>2, <2>3 DEF total, Cat
<1>10. Ast' = Ast
  <2>1. /\ allocator.bottom \in DOMAIN heap /\ allocator.bottom \in DOMAIN heap'
        /\ heap'[allocator.bottom] = heap[allocator.bottom]
    BY <1>1, <1>6, WhileParsing
  <2>2. allocator.write_head \in Int /\ AstSize \in Nat
    BY WhileParsing DEF AllocatorIn, Allocators
  <2>3. AstSize' = AstSize
    BY DEF AstSize
  <2>4. Read(heap', allocator.bottom, allocator.write_head, AstSize)
            = Read(heap, allocator.bottom, allocator.write_head, AstSize)
    BY <2>1, <2>2, SameBlock
  <2> QED BY <2>3, <2>4 DEF Ast
<1> QED BY <1>9, <1>10

LEMMA ReserveKeeps ==
    ASSUME Inv, pc = "parse", NEW words \in AnyWords,
           Len(words) \in Nat \ {0}, ReserveAndWrite(words), stack' = stack
    PROVE  StackWords' = StackWords /\ Ast' = words \o Ast
<1>1. PICK g \in AstGrowths(Len(words)) :
          /\ allocator' = [g.allocator EXCEPT
                              !.write_head = g.allocator.write_head - Len(words)]
          /\ heap' = Write(g.heap, g.allocator.bottom,
                           g.allocator.write_head - Len(words), words)
  BY DEF ReserveAndWrite
<1>2. /\ HeapOK(g.heap) /\ AllocatorIn(g.heap, g.allocator)
      /\ Len(words) <= g.allocator.write_head
      /\ g.allocator.bottom # stack.bottom
      /\ DOMAIN g.heap = {g.allocator.bottom, stack.bottom}
      /\ g.heap[stack.bottom] = heap[stack.bottom]
  BY AstGrowthIsEnough
<1>3. /\ g.allocator.top - g.allocator.write_head = AstSize
      /\ Read(g.heap, g.allocator.bottom, g.allocator.write_head, AstSize) = Ast
      /\ AstSize \in Nat
  BY AstGrowthKeeps, WhileParsing
<1> DEFINE b == g.allocator.bottom
           old == g.allocator.write_head
           at == old - Len(words)
<1>4. /\ at \in Nat /\ old \in Nat /\ b \in DOMAIN g.heap
      /\ at + Len(words) = old /\ old <= Len(g.heap[b])
      /\ old + AstSize <= Len(g.heap[b])
  BY <1>2, <1>3 DEF AllocatorIn, Allocators
<1>5. allocator' = [bottom |-> b, top |-> g.allocator.top, write_head |-> at]
  BY <1>1, <1>2 DEF AllocatorIn, Allocators
<1>6. heap' = Write(g.heap, b, at, words)
  BY <1>1
<1>7. AstSize' = Len(words) + AstSize
  <2>1. g.allocator.top \in Nat
    BY <1>2 DEF AllocatorIn, Allocators
  <2> QED BY <1>3, <1>4, <1>5, <2>1, SMTT(30) DEF AstSize
<1> HIDE DEF b, old, at
<1>8. HeapOK(heap') /\ DOMAIN heap' = DOMAIN g.heap
      /\ \A x \in DOMAIN g.heap : x # b => heap'[x] = g.heap[x]
  <2>1. at \in Int /\ HeapOK(g.heap)
    BY <1>2, <1>4
  <2> QED BY <1>6, <2>1, WriteType DEF AnyWords
<1>9. Read(heap', b, at, Len(words)) = words
  <2>1. at + Len(words) <= Len(g.heap[b])
    BY <1>4
  <2> QED BY <1>2, <1>4, <1>6, <2>1, ReadWritten
<1>10. Read(heap', b, old, AstSize) = Ast
  <2>1. at + Len(words) <= Len(g.heap[b]) /\ at + Len(words) <= old
    BY <1>4
  <2>2. Read(Write(g.heap, b, at, words), b, old, AstSize)
            = Read(g.heap, b, old, AstSize)
    BY <1>2, <1>3, <1>4, <2>1, ReadElsewhere
  <2>3. Read(g.heap, b, old, AstSize) = Ast
    BY <1>3 DEF b, old
  <2> QED BY <1>6, <2>2, <2>3
<1>11. Ast' = words \o Ast
  <2>1. Ast' = Read(heap', b, at, Len(words) + AstSize)
    BY <1>5, <1>7 DEF Ast
  <2> DEFINE total == Len(words) + AstSize
  <2>2. /\ at \in Int /\ Len(words) \in Nat /\ AstSize \in Nat
        /\ HeapOK(heap') /\ old = at + Len(words)
        /\ total = Len(words) + AstSize
    BY <1>3, <1>4, <1>8
  <2> HIDE DEF total
  <2>3. Read(heap', b, at, total)
            = Cat(Read(heap', b, at, Len(words)), Read(heap', b, old, AstSize))
    BY <2>2, ReadConcat
  <2> QED BY <1>9, <1>10, <2>1, <2>3 DEF total, Cat
<1>12. StackWords' = StackWords
  <2>1. /\ stack.bottom \in DOMAIN heap /\ stack.bottom \in DOMAIN heap'
        /\ heap'[stack.bottom] = heap[stack.bottom]
    BY <1>2, <1>8, WhileParsing DEF b
  <2>2. 0 \in Int /\ stack.top \in Nat
    BY WhileParsing DEF StackIn, Stacks
  <2>3. Read(heap', stack.bottom, 0, stack.top)
            = Read(heap, stack.bottom, 0, stack.top)
    BY <2>1, <2>2, SameBlock
  <2> QED BY <2>3 DEF StackWords
<1> QED BY <1>11, <1>12

-----------------------------------------------------------------------------
(***************************************************************************)
(* The steps of the refinement.                                            *)
(***************************************************************************)

\* The document that parse() returns points to its own block.
DocumentReadable ==
    pc \in {"destructors", "returned"} /\ error = "none" =>
        /\ document # Null
        /\ allocator = NullAllocator
        /\ root.block = document

\* An AST begins empty.
AstBeginsEmpty ==
    /\ pc = "parser" => local.write_head = local.top
    /\ pc = "get_stack_head" => allocator.write_head = allocator.top

ContentsInv == Inv /\ DocumentReadable /\ AstBeginsEmpty

bars == <<stackBar, astBar, documentBar, statusBar>>

LEMMA ContentsStep ==
    ContentsInv /\ [Next]_vars => DocumentReadable' /\ AstBeginsEmpty'
<1> SUFFICES ASSUME ContentsInv, [Next]_vars
             PROVE  DocumentReadable' /\ AstBeginsEmpty'
  OBVIOUS
<1> USE DEF ContentsInv, DocumentReadable, AstBeginsEmpty
<1>1. CASE GetDocument
  BY <1>1 DEF GetDocument, Inv, Reached
<1>2. CASE Destructors
  BY <1>2 DEF Destructors
<1>3. CASE MakeAllocator
  BY <1>3 DEF MakeAllocator, Allocator
<1>4. CASE ~(GetDocument \/ Destructors \/ MakeAllocator)
  BY <1>4
     DEF Next, vars, ConstructParser, GetStackHead, Push, PushRefused,
         Reserve, Install, ReserveRefused, Reset, Return, DestroyStack,
         DropDocument
<1> QED BY <1>1, <1>2, <1>3, <1>4

\* While parsing, the mapping reads the two blocks.
LEMMA BarsWhileParsing ==
    ASSUME pc = "parse", error = "none"
    PROVE  /\ statusBar = "parsing" /\ stackBar = StackWords
           /\ astBar = Ast /\ documentBar = <<>>
  BY DEF statusBar, stackBar, astBar, documentBar, StackWords

LEMMA BarsStillParsing ==
    ASSUME pc' = "parse", error' = "none"
    PROVE  /\ statusBar' = "parsing" /\ stackBar' = StackWords'
           /\ astBar' = Ast' /\ documentBar' = <<>>
  BY DEF statusBar, stackBar, astBar, documentBar, StackWords

LEMMA BarsOfFailure ==
    ASSUME error' # "none"
    PROVE  /\ statusBar' = "failed" /\ stackBar' = <<>>
           /\ astBar' = <<>> /\ documentBar' = <<>>
<1>1. statusBar' = "failed"
  BY DEF statusBar
<1> QED BY <1>1 DEF stackBar, astBar, documentBar

LEMMA BarsOfFailed ==
    ASSUME error # "none"
    PROVE  /\ statusBar = "failed" /\ stackBar = <<>>
           /\ astBar = <<>> /\ documentBar = <<>>
<1>1. statusBar = "failed"
  BY DEF statusBar
<1> QED BY <1>1 DEF stackBar, astBar, documentBar

LEMMA WrittenType ==
    ASSUME NEW words \in Written
    PROVE  /\ words \in AnyWords /\ Len(words) \in Nat \ {0}
           /\ \E n \in Reservations : words \in [1 .. n -> Words]
<1>1. PICK n \in Reservations : words \in [1 .. n -> Words]
  BY DEF Written
<1>2. n \in Nat \ {0}
  BY SizesAssumption
<1> QED BY <1>1, <1>2 DEF AnyWords

LEMMA PushRefines == Inv /\ Push => Memory!Push
<1> SUFFICES ASSUME Inv, Push PROVE Memory!Push
  OBVIOUS
<1>1. pc = "parse" /\ error = "none" /\ UNCHANGED <<pc, error, allocator>>
  BY DEF Push, Inv, Reached
<1>2. PICK words \in Written : \E g \in StackGrowths(Len(words)) :
          /\ stack' = [g.stack EXCEPT !.top = @ + Len(words)]
          /\ heap' = Write(g.heap, g.stack.bottom, g.stack.top, words)
  BY DEF Push
<1>3. PICK g \in StackGrowths(Len(words)) :
          /\ stack' = [g.stack EXCEPT !.top = @ + Len(words)]
          /\ heap' = Write(g.heap, g.stack.bottom, g.stack.top, words)
  BY <1>2
<1>4. words \in AnyWords /\ Len(words) \in Nat \ {0}
  BY WrittenType
<1>5. StackWords' = StackWords \o words /\ Ast' = Ast
  BY <1>1, <1>3, <1>4, PushKeeps
<1>6. PICK n \in Reservations : words \in [1 .. n -> Words]
  BY WrittenType
<1>7. /\ statusBar = "parsing" /\ stackBar = StackWords
      /\ astBar = Ast /\ documentBar = <<>>
  BY <1>1, BarsWhileParsing
<1>8. /\ statusBar' = "parsing" /\ stackBar' = StackWords'
      /\ astBar' = Ast' /\ documentBar' = <<>>
  BY <1>1, BarsStillParsing
<1> QED BY <1>5, <1>6, <1>7, <1>8 DEF Memory!Push

LEMMA ReserveRefines == Inv /\ Reserve => Memory!Reserve
<1> SUFFICES ASSUME Inv, Reserve PROVE Memory!Reserve
  OBVIOUS
<1>1. pc = "parse" /\ error = "none" /\ UNCHANGED <<pc, error, stack>>
  BY DEF Reserve, Inv, Reached
<1>2. PICK words \in Written : ReserveAndWrite(words)
  BY DEF Reserve
<1>3. words \in AnyWords /\ Len(words) \in Nat \ {0}
  BY WrittenType
<1>4. StackWords' = StackWords /\ Ast' = words \o Ast
  BY <1>1, <1>2, <1>3, ReserveKeeps
<1>5. PICK n \in Reservations : words \in [1 .. n -> Words]
  BY WrittenType
<1>6. /\ statusBar = "parsing" /\ stackBar = StackWords
      /\ astBar = Ast /\ documentBar = <<>>
  BY <1>1, BarsWhileParsing
<1>7. /\ statusBar' = "parsing" /\ stackBar' = StackWords'
      /\ astBar' = Ast' /\ documentBar' = <<>>
  BY <1>1, BarsStillParsing
<1> QED BY <1>4, <1>5, <1>6, <1>7 DEF Memory!Reserve

LEMMA InstallRefines == Inv /\ Install => Memory!Install
<1> SUFFICES ASSUME Inv, Install PROVE Memory!Install
  OBVIOUS
<1>1. pc = "parse" /\ error = "none" /\ UNCHANGED <<pc, error, stack>>
  BY DEF Install, Inv, Reached
<1>2. HeapOK(heap) /\ stack.top \in Nat
  BY <1>1, WhileParsing DEF StackIn, Stacks
<1>3. PICK base \in 0 .. stack.top, length \in Words :
          ReserveAndWrite(<<length>> \o
                Read(heap, stack.bottom, base, stack.top - base))
  BY DEF Install
<1> DEFINE frame == Read(heap, stack.bottom, base, stack.top - base)
<1>4. base \in Int /\ base \in 0 .. stack.top /\ stack.top - base \in Nat
      /\ stack.top \in base .. stack.top
  BY <1>2
<1>5. frame \in AnyWords /\ Len(frame) = stack.top - base
  BY <1>2, <1>4, ReadType DEF AnyWords
<1>6. StackWords \in AnyWords /\ Len(StackWords) = stack.top
  BY <1>2, ReadType DEF AnyWords, StackWords
<1>7. frame = SubSeq(StackWords, base + 1, Len(StackWords))
  <2>1. frame = SubSeq(StackWords, base + 1, stack.top)
    BY <1>2, <1>4, ReadSubSeq DEF StackWords
  <2> QED BY <1>6, <2>1
<1> HIDE DEF frame
<1>8. /\ <<length>> \o frame \in AnyWords
      /\ Len(<<length>> \o frame) \in Nat \ {0}
  BY <1>4, <1>5 DEF AnyWords
<1>9. ReserveAndWrite(<<length>> \o frame)
  BY <1>3 DEF frame
<1> DEFINE words == <<length>> \o frame
<1>10. StackWords' = StackWords /\ Ast' = words \o Ast
  <2>1. words \in AnyWords /\ Len(words) \in Nat \ {0} /\ ReserveAndWrite(words)
    BY <1>8, <1>9
  <2> HIDE DEF words
  <2> QED BY <1>1, <2>1, ReserveKeeps
<1>11. /\ statusBar = "parsing" /\ stackBar = StackWords
       /\ astBar = Ast /\ documentBar = <<>>
  BY <1>1, BarsWhileParsing
<1>12. /\ statusBar' = "parsing" /\ stackBar' = StackWords'
       /\ astBar' = Ast' /\ documentBar' = <<>>
  BY <1>1, BarsStillParsing
<1>13. base \in 0 .. Len(StackWords)
  BY <1>4, <1>6
<1>14. Ast' = <<length>> \o SubSeq(StackWords, base + 1, Len(StackWords)) \o Ast
  BY <1>7, <1>10
<1> QED BY <1>10, <1>11, <1>12, <1>13, <1>14 DEF Memory!Install

LEMMA ResetRefines == Inv /\ Reset => Memory!Reset
<1> SUFFICES ASSUME Inv, Reset PROVE Memory!Reset
  OBVIOUS
<1>1. /\ pc = "parse" /\ error = "none"
      /\ UNCHANGED <<pc, error, heap, allocator>>
  BY DEF Reset, Inv, Reached
<1>2. HeapOK(heap) /\ stack.top \in Nat /\ stack \in Stacks
  BY <1>1, WhileParsing DEF StackIn, Stacks
<1>3. PICK new_top \in 0 .. stack.top : stack' = [stack EXCEPT !.top = new_top]
  BY DEF Reset
<1>4. new_top \in Nat /\ new_top - 0 = new_top /\ 0 + 1 = 1
      /\ new_top \in 0 .. stack.top /\ 0 \in 0 .. stack.top
  BY <1>2
<1>5. StackWords \in AnyWords /\ Len(StackWords) = stack.top
  BY <1>2, ReadType DEF AnyWords, StackWords
<1>6. StackWords' = Read(heap, stack.bottom, 0, new_top)
  BY <1>1, <1>2, <1>3 DEF StackWords, Stacks
<1>7. Read(heap, stack.bottom, 0, new_top - 0)
          = SubSeq(StackWords, 0 + 1, new_top)
  BY <1>2, <1>4, ReadSubSeq DEF StackWords
<1>8. StackWords' = SubSeq(StackWords, 1, new_top)
  BY <1>4, <1>6, <1>7
<1>9. Ast' = Ast
  BY <1>1 DEF Ast, AstSize
<1>10. /\ statusBar = "parsing" /\ stackBar = StackWords
       /\ astBar = Ast /\ documentBar = <<>>
  BY <1>1, BarsWhileParsing
<1>11. /\ statusBar' = "parsing" /\ stackBar' = StackWords'
       /\ astBar' = Ast' /\ documentBar' = <<>>
  BY <1>1, BarsStillParsing
<1>12. new_top \in 0 .. Len(StackWords)
  BY <1>4, <1>5
<1> QED BY <1>8, <1>9, <1>10, <1>11, <1>12 DEF Memory!Reset

\* parse() returns: the AST stays where it is until it is handed out.
LEMMA ReturnRefines == Inv /\ Return => Memory!Finish \/ Memory!Fail
<1> SUFFICES ASSUME Inv, Return PROVE Memory!Finish \/ Memory!Fail
  OBVIOUS
<1>1. /\ pc = "parse" /\ error = "none" /\ pc' = "return"
      /\ UNCHANGED <<heap, stack, allocator, root>>
      /\ error' \in {"none", "syntax"}
  BY DEF Return, Inv, Reached
<1>2. /\ statusBar = "parsing" /\ astBar = Ast /\ documentBar = <<>>
  BY <1>1, BarsWhileParsing
<1>3. Ast' = Ast
  BY <1>1 DEF Ast, AstSize
<1>4. CASE error' = "none"
  <2>1. /\ statusBar' = "finished" /\ stackBar' = <<>>
        /\ astBar' = Ast' /\ documentBar' = <<>>
    BY <1>1, <1>4 DEF statusBar, stackBar, astBar, documentBar
  <2> QED BY <1>2, <1>3, <2>1 DEF Memory!Finish
<1>5. CASE error' = "syntax"
  <2>1. /\ statusBar' = "failed" /\ stackBar' = <<>>
        /\ astBar' = <<>> /\ documentBar' = <<>>
    BY <1>5, BarsOfFailure
  <2> QED BY <1>2, <2>1 DEF Memory!Fail
<1> QED BY <1>1, <1>4, <1>5

\* A refusal, wherever it comes, loses everything there was.
LEMMA RefusalRefines ==
    ASSUME Inv, error = "none", error' = "OUT_OF_MEMORY",
           pc \in {"make_allocator", "get_stack_head", "parse"}
    PROVE  Memory!Fail
<1>1. statusBar \in {"start", "parsing"} /\ documentBar = <<>>
  BY DEF statusBar, documentBar
<1>2. /\ statusBar' = "failed" /\ stackBar' = <<>>
      /\ astBar' = <<>> /\ documentBar' = <<>>
  BY BarsOfFailure
<1> QED BY <1>1, <1>2 DEF Memory!Fail

LEMMA MakeAllocatorRefines ==
    Inv /\ MakeAllocator => Memory!Fail \/ UNCHANGED bars
<1> SUFFICES ASSUME Inv, MakeAllocator PROVE Memory!Fail \/ UNCHANGED bars
  OBVIOUS
<1>1. pc = "make_allocator" /\ error = "none"
  BY DEF MakeAllocator, Inv, Reached
<1>2. CASE pc' = "parser" /\ error' = error
  BY <1>1, <1>2 DEF bars, statusBar, stackBar, astBar, documentBar
<1>3. CASE error' = "OUT_OF_MEMORY"
  BY <1>1, <1>3, RefusalRefines
<1> QED BY <1>2, <1>3 DEF MakeAllocator

LEMMA GetStackHeadRefines ==
    ContentsInv /\ GetStackHead => Memory!Begin \/ Memory!Fail
<1> SUFFICES ASSUME ContentsInv, GetStackHead PROVE Memory!Begin \/ Memory!Fail
  OBVIOUS
<1> Inv
  BY DEF ContentsInv
<1>1. /\ pc = "get_stack_head" /\ error = "none"
      /\ UNCHANGED allocator /\ allocator.write_head = allocator.top
      /\ allocator.top \in Nat
  BY DEF GetStackHead, Inv, Reached, ContentsInv, AstBeginsEmpty, TypeOK,
         NullAllocator, Allocator
<1>2. CASE error' = "OUT_OF_MEMORY"
  BY <1>1, <1>2, RefusalRefines
<1>3. CASE \E b \in Free, capacity \in InitialCapacities :
              LET c == OrDefault(capacity, DefaultStack)
              IN  /\ heap' = New(heap, b, c)
                  /\ stack' = StackHead(b, 0, c)
                  /\ pc' = "parse"
                  /\ UNCHANGED error
  <2>1. pc' = "parse" /\ error' = "none" /\ stack'.top = 0
    BY <1>1, <1>3 DEF StackHead
  <2>2. /\ statusBar = "start" /\ stackBar = <<>> /\ astBar = <<>>
        /\ documentBar = <<>>
    BY <1>1 DEF statusBar, stackBar, astBar, documentBar
  <2>3. /\ statusBar' = "parsing" /\ stackBar' = StackWords'
        /\ astBar' = Ast' /\ documentBar' = <<>>
    BY <2>1, BarsStillParsing
  <2>4. StackWords' = <<>>
    BY <2>1 DEF StackWords, Read
  <2>5. AstSize' = 0
    BY <1>1 DEF AstSize
  <2>6. Ast' = <<>>
    BY <2>5 DEF Ast, Read
  <2> QED BY <2>2, <2>3, <2>4, <2>6 DEF Memory!Begin
<1> QED BY <1>2, <1>3 DEF GetStackHead

LEMMA DestroyStackRefines == Inv /\ DestroyStack => UNCHANGED bars
<1> SUFFICES ASSUME Inv, DestroyStack PROVE UNCHANGED bars
  OBVIOUS
<1>1. /\ pc = "return" /\ pc' = "get_document"
      /\ heap' = Delete(heap, stack.bottom)
      /\ UNCHANGED <<allocator, root, error>>
  BY DEF DestroyStack
<1>2. CASE error = "none"
  <2>1. allocator.bottom # Null /\ AllocatorIn(heap, allocator)
    BY <1>1, <1>2, InvTypes
       DEF Inv, Reached, WithinBlocks, AllocatorIn, NullAllocator, Allocator
  <2>2. stack.bottom # allocator.bottom
    <3>1. /\ DOMAIN Owners = {"stack", "local", "allocator", "document"}
          /\ Owners["stack"] = stack.bottom
          /\ Owners["allocator"] = allocator.bottom
      BY DEF Owners
    <3> QED BY <2>1, <3>1 DEF Inv, OneOwner
  <2>3. /\ allocator.bottom \in DOMAIN heap /\ allocator.bottom \in DOMAIN heap'
        /\ heap'[allocator.bottom] = heap[allocator.bottom]
    BY <1>1, <2>1, <2>2 DEF AllocatorIn, Delete
  <2>4. allocator.write_head \in Int /\ AstSize \in Nat
    BY <2>1 DEF AllocatorIn, Allocators, AstSize
  <2>5. Read(heap', allocator.bottom, allocator.write_head, AstSize)
            = Read(heap, allocator.bottom, allocator.write_head, AstSize)
    BY <2>3, <2>4, SameBlock
  <2>6. Ast' = Ast
    BY <1>1, <2>5 DEF Ast, AstSize
  <2> QED
    BY <1>1, <1>2, <2>6 DEF bars, statusBar, stackBar, astBar, documentBar
<1>3. CASE error # "none"
  <2>1. error' # "none"
    BY <1>1, <1>3
  <2> QED BY <1>3, <2>1, BarsOfFailure, BarsOfFailed DEF bars
<1> QED BY <1>2, <1>3

LEMMA GetDocumentRefines ==
    Inv /\ GetDocument => Memory!HandOut \/ UNCHANGED bars
<1> SUFFICES ASSUME Inv, GetDocument PROVE Memory!HandOut \/ UNCHANGED bars
  OBVIOUS
<1>1. /\ pc = "get_document" /\ pc' = "destructors"
      /\ UNCHANGED <<heap, stack, local, error>>
  BY DEF GetDocument
<1>2. CASE error = "none"
  <2>1. /\ root' = [block |-> allocator.bottom, offset |-> allocator.write_head]
    BY <1>2 DEF GetDocument
  <2>2. allocator.bottom # Null /\ AllocatorIn(heap, allocator)
    BY <1>1, <1>2, InvTypes
       DEF Inv, Reached, WithinBlocks, AllocatorIn, NullAllocator, Allocator
  <2>3. /\ statusBar = "finished" /\ stackBar = <<>> /\ astBar = Ast
        /\ documentBar = <<>>
    BY <1>1, <1>2 DEF statusBar, stackBar, astBar, documentBar
  <2>4. statusBar' = "accepted"
    BY <1>1, <1>2 DEF statusBar
  <2>5. stackBar' = <<>> /\ astBar' = <<>>
    BY <2>4 DEF stackBar, astBar
  <2>6. documentBar' = Ast
    BY <1>1, <2>1, <2>2, <2>4 DEF documentBar, Ast, AstSize, AllocatorIn
  <2> QED BY <2>3, <2>4, <2>5, <2>6 DEF Memory!HandOut
<1>3. CASE error # "none"
  <2>1. error' # "none"
    BY <1>1, <1>3
  <2> QED BY <1>3, <2>1, BarsOfFailure, BarsOfFailed DEF bars
<1> QED BY <1>2, <1>3

LEMMA DestructorsRefine == ContentsInv /\ Destructors => UNCHANGED bars
<1> SUFFICES ASSUME ContentsInv, Destructors PROVE UNCHANGED bars
  OBVIOUS
<1>1. /\ pc = "destructors" /\ pc' = "returned" /\ local = NullAllocator
      /\ heap' = Delete(Delete(heap, allocator.bottom), local.bottom)
      /\ UNCHANGED <<stack, root, error>>
  BY DEF Destructors, ContentsInv, Inv, Reached
<1>2. CASE error = "none"
  <2>1. document # Null /\ root.block = document /\ allocator = NullAllocator
    BY <1>1, <1>2 DEF ContentsInv, DocumentReadable
  <2>2. document \in DOMAIN heap
    BY <2>1 DEF ContentsInv, Inv, OneOwner, Owned, Owners
  <2>3. HeapOK(heap)
    BY InvTypes DEF ContentsInv
  <2>4. document \in DOMAIN heap' /\ heap'[document] = heap[document]
    BY <1>1, <2>1, <2>2 DEF Delete, NullAllocator, Allocator
  <2>5. statusBar = "accepted" /\ statusBar' = "accepted"
    BY <1>1, <1>2 DEF statusBar
  <2>6. documentBar' = documentBar
    BY <1>1, <2>1, <2>2, <2>4, <2>5 DEF documentBar, Read, WordAt
  <2> QED BY <2>5, <2>6 DEF bars, stackBar, astBar
<1>3. CASE error # "none"
  <2>1. error' # "none"
    BY <1>1, <1>3
  <2> QED BY <1>3, <2>1, BarsOfFailure, BarsOfFailed DEF bars
<1> QED BY <1>2, <1>3

LEMMA DropDocumentRefines == DropDocument => Memory!Drop \/ UNCHANGED bars
<1> SUFFICES ASSUME DropDocument PROVE Memory!Drop \/ UNCHANGED bars
  OBVIOUS
<1>1. pc = "returned" /\ pc' = "dropped" /\ error' = error
  BY DEF DropDocument
<1>2. CASE error = "none"
  <2>1. statusBar = "accepted" /\ statusBar' = "dropped"
    BY <1>1, <1>2 DEF statusBar
  <2> QED BY <2>1 DEF Memory!Drop, stackBar, astBar, documentBar
<1>3. CASE error # "none"
  <2>1. error' # "none"
    BY <1>1, <1>3
  <2> QED BY <1>3, <2>1, BarsOfFailure, BarsOfFailed DEF bars
<1> QED BY <1>2, <1>3

LEMMA ConstructParserRefines == Inv /\ ConstructParser => UNCHANGED bars
  BY DEF Inv, Reached, ConstructParser, bars, statusBar, stackBar, astBar,
         documentBar

LEMMA GrowthRefusedRefines ==
    Inv /\ (PushRefused \/ ReserveRefused) => Memory!Fail
<1> SUFFICES ASSUME Inv, PushRefused \/ ReserveRefused PROVE Memory!Fail
  OBVIOUS
<1>1. pc = "parse" /\ error = "none" /\ error' = "OUT_OF_MEMORY"
  BY DEF Inv, Reached, PushRefused, ReserveRefused
<1> QED BY <1>1, RefusalRefines

-----------------------------------------------------------------------------
(***************************************************************************)
(* The theorem.                                                            *)
(***************************************************************************)
LEMMA StepRefines ==
    ContentsInv /\ [Next]_vars => [Memory!Next]_bars
<1> SUFFICES ASSUME ContentsInv, [Next]_vars PROVE [Memory!Next]_bars
  OBVIOUS
<1> Inv
  BY DEF ContentsInv
<1>1. CASE UNCHANGED vars
  BY <1>1
     DEF vars, bars, statusBar, stackBar, astBar, documentBar, Ast, AstSize
<1>2. CASE Push \/ Reserve \/ Install \/ Reset
  BY <1>2, PushRefines, ReserveRefines, InstallRefines, ResetRefines
     DEF Memory!Next
<1>3. CASE \/ MakeAllocator \/ GetStackHead \/ PushRefused
           \/ ReserveRefused \/ Return
  BY <1>3, MakeAllocatorRefines, GetStackHeadRefines, GrowthRefusedRefines,
     ReturnRefines DEF Memory!Next
<1>4. CASE \/ ConstructParser \/ DestroyStack \/ GetDocument
           \/ Destructors \/ DropDocument
  BY <1>4, ConstructParserRefines, DestroyStackRefines, GetDocumentRefines,
     DestructorsRefine, DropDocumentRefines DEF Memory!Next
<1> QED BY <1>1, <1>2, <1>3, <1>4 DEF Next

LEMMA ContentsInvariance == Spec => []ContentsInv
<1>1. Init => ContentsInv
  BY InitInv DEF Init, ContentsInv, DocumentReadable, AstBeginsEmpty
<1>2. ContentsInv /\ [Next]_vars => ContentsInv'
  BY NextInv, ContentsStep DEF ContentsInv
<1> QED BY <1>1, <1>2, PTL DEF Spec

\* However often can_grow replaces a block, and whatever destructors run
\* before the caller reads it: the document of dynamic_allocation has the
\* words the parser wrote, in their places, as if there were one unbounded
\* memory; and a refused block ends the parse.
THEOREM ContentsSurvive == Spec => ImplementsWordMemory
<1>1. Init => Memory!Init
  BY DEF Init, Memory!Init, statusBar, stackBar, astBar, documentBar
<1>2. ContentsInv /\ [Next]_vars
        => [Memory!Next]_<<stackBar, astBar, documentBar, statusBar>>
  BY StepRefines DEF bars
<1> QED
  BY <1>1, <1>2, ContentsInvariance, PTL
     DEF Spec, ImplementsWordMemory, Memory!Spec, Memory!memoryVars
=============================================================================
