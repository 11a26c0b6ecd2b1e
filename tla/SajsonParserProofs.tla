------------------------- MODULE SajsonParserProofs -------------------------
(***************************************************************************)
(* The parser keeps to its buffer, and what it has written stays written.  *)
(* One inductive invariant, Inv, carries the theorems of this module; it   *)
(* holds for all four allocation strategies and all lengths of the input.  *)
(* What a buffer of bounded_allocation has to hold needs a second one      *)
(* (PaidInv), at the end.                                                  *)
(***************************************************************************)
EXTENDS SajsonParser, TLAPS

\* Before the root is opened nothing has been read or written.
Untouched ==
    pc \in {"make_allocator", "parse"} =>
        /\ stack_top = 0 /\ write_offset = 0 /\ current_base = 0 /\ p = 0
        /\ DOMAIN mem = {}

\* w is the header of a structure at stack offset b: the mark of the root, or
\* the offset of the enclosing header and the tag of its structure.  Inside
\* an object it stands where a value is due, after a key.
Header(B, w, b) ==
    /\ w.tag \in StructureTags
    /\ \/ w.val = RootMarker
       \/ /\ w.val \in B
          /\ w.val < b
          /\ w.tag = "object" => (b - w.val) % 3 = 0

\* B are the offsets of the headers of the open structures.  The innermost
\* header may be overwritten once it is in pop_element.
HeadersAt(B) ==
    /\ current_base \in B
    /\ \A b \in B : b < current_base => Header(B, mem[b], b)
    /\ pc \in Opened => Header(B, mem[current_base], current_base)
    /\ pc \in Closing => Header(B, pop_element, current_base)

Headers ==
    pc \in Opened \cup Closing =>
        \E B \in SUBSET (0 .. current_base) : HeadersAt(B)

\* Every word of the stack, and of the finished part of the AST, has been
\* written; of the structure being installed, those above todo.
Written ==
    pc \in Opened \cup Closing =>
        /\ current_base < stack_top
        /\ 0 .. stack_top - 1 \subseteq DOMAIN mem
        /\ InstalledFrom .. structure_end - 1 \subseteq DOMAIN mem
        /\ pc \in Closing => FrameLength < write_offset
        /\ pc = "install" =>
              /\ todo <= FrameLength
              /\ write_cursor + todo + 1 .. write_cursor + FrameLength
                    \subseteq DOMAIN mem

\* The label says which bracket opened the structure, and where p is.
LabelsAgree ==
    /\ pc = "array_close_or_element" => current_structure_tag = "array"
    /\ pc \in {"object_close_or_element", "object_key", "expect_colon"} =>
          current_structure_tag = "object"
    /\ pc \in {"array_close_or_element", "object_close_or_element"} =>
          p < input_length

\* The buffer is there once the parse has begun.
BufferGiven ==
    Strategy = "existing" /\ pc \in Running => Capacity >= input_length

Inv ==
    /\ TypeOK
    /\ Untouched
    /\ Headers
    /\ Written
    /\ LabelsAgree
    /\ BufferGiven
    /\ WordsPaidFor
    /\ BuffersNeverMeet
    /\ ObjectRecords
    /\ WritesInBounds
    /\ AstWritten

\* What no step may do to the words already written: the steps of
\* EnclosingFramesKept, AstKept and CopyKeepsFrame.  Until a structure is
\* closed its own frame is kept as well.
StackKept ==
    /\ \A a \in 0 .. current_base - 1 : mem'[a] = mem[a]
    /\ pc \in Opened /\ pc' \in Opened =>
          \A a \in 0 .. stack_top - 1 : mem'[a] = mem[a]
    /\ DOMAIN mem \subseteq DOMAIN mem'

FinishedKept ==
    \A a \in InstalledFrom .. structure_end - 1 : mem'[a] = mem[a] \/ Doomed'

FrameKept ==
    pc = "install" =>
        \A i \in 1 .. FrameLength : FrameWord(i)' = FrameWord(i)

\* A step that keeps the invariant and the words.
SafeStep == Inv' /\ StackKept /\ FinishedKept /\ FrameKept

-----------------------------------------------------------------------------

\* Inv holds when parse() is called.
LEMMA InitInv == Init => Inv
  BY SizesAssumption, StrategyAssumption
  DEF Init, Inv, TypeOK, Untouched, Headers, Written, LabelsAgree, BufferGiven,
      WordsPaidFor, BuffersNeverMeet, ObjectRecords, WritesInBounds,
      AstWritten, Labels, Running, Opened, Closing, StructureTags, ValueTags,
      Words, Raw, Errors, BufferWords, write_cursor, structure_end, Strategies

\* An error leaves everything as it was, and no part of Inv speaks of a parse
\* that has failed except of what it has written.
LEMMA RejectInv ==
    ASSUME Inv, NEW code \in Errors, Reject(code)
    PROVE  SafeStep
<1>1. TypeOK'
  BY DEF Inv, TypeOK, Reject, Labels, Running
<1>2. WordsPaidFor'
  BY DEF Inv, Reject, WordsPaidFor
<1>3. StackKept /\ FinishedKept /\ FrameKept
  BY DEF Reject, StackKept, FinishedKept, FrameKept, FrameWord, Unrelocate,
         IsElement, FrameLength, write_cursor, structure_end
<1>4. QED
  BY <1>1, <1>2, <1>3
  DEF SafeStep, Inv, Reject, Untouched, Headers, Written, LabelsAgree,
      BufferGiven, BuffersNeverMeet, ObjectRecords, WritesInBounds, AstWritten,
      Running, Opened, Closing, BufferWords, write_cursor, structure_end

\* make_allocator.
LEMMA MakeAllocatorInv ==
    ASSUME Inv, MakeAllocator
    PROVE  SafeStep
<1>1. CASE NoMemory /\ Reject("OUT_OF_MEMORY")
  BY <1>1, RejectInv DEF Errors
<1>2. CASE HasMemory /\ pc' = "parse" /\ UNCHANGED <<input_length, p, mem,
              stack_top, write_offset, current_base, current_structure_tag,
              pop_element, todo, root_tag, error>>
  BY <1>2
  DEF SafeStep, StackKept, FinishedKept, FrameKept, Inv, TypeOK, Untouched,
      Headers, Written, LabelsAgree, BufferGiven, WordsPaidFor,
      BuffersNeverMeet, ObjectRecords, WritesInBounds, AstWritten, Labels,
      Running, Opened, Closing, BufferWords, write_cursor, structure_end,
      MakeAllocator, HasMemory
<1>3. QED
  BY <1>1, <1>2 DEF MakeAllocator

\* The bracket of a structure, read at r when the words in use are paid for.
LEMMA OpenStructureInv ==
    ASSUME Inv,
           NEW r \in p .. input_length - 1,
           NEW t \in StructureTags,
           NEW header,
           stack_top + write_offset <= r,
           \/ pc = "parse" /\ header = Element(t, RootMarker)
           \/ /\ pc \in Opened
              /\ header = Element(current_structure_tag, current_base)
              /\ current_structure_tag = "object" => FrameLength % 3 = 2,
           OpenStructure(r, t, header)
    PROVE  SafeStep
<1> USE DEF Inv, Element
<1>1. CASE Reject("OUT_OF_MEMORY")
  BY <1>1, RejectInv DEF Errors
<1>2. CASE /\ ~NoRoom(stack_top, write_offset, 1)
           /\ mem' = Store(mem, At(stack_top, header))
           /\ current_base' = stack_top
           /\ stack_top' = stack_top + 1
           /\ current_structure_tag' = t
           /\ p' = r
           /\ pc' = AfterOpening(t)
           /\ UNCHANGED <<input_length, write_offset, pop_element, todo,
                          root_tag, error>>
  <2> USE <1>2
  <2>0. /\ pc' \in Opened /\ pc' \notin Closing /\ pc' \in Labels
        /\ pc' = IF t = "array" THEN "array_close_or_element"
                                ELSE "object_close_or_element"
        /\ header \in Words
        /\ input_length \in Nat /\ p \in Nat /\ r \in Nat
    BY SizesAssumption, RootMarkerAssumption
    DEF AfterOpening, Opened, Closing, Labels, Running, TypeOK, Words,
        StructureTags, ValueTags
  <2>1. /\ DOMAIN mem' = DOMAIN mem \cup {stack_top}
        /\ mem'[stack_top] = header
        /\ \A a \in DOMAIN mem : a # stack_top => mem'[a] = mem[a]
    BY DEF Store, At
  <2>2. TypeOK'
    BY <2>0, <2>1 DEF TypeOK
  <2>3. Untouched' /\ LabelsAgree'
    BY <2>0 DEF Untouched, LabelsAgree, StructureTags
  <2>4. Headers'
    <3>1. CASE pc = "parse"
      <4>1. PICK C : C = {stack_top}
        OBVIOUS
      <4>2. HeadersAt(C)'
        BY <2>0, <2>1, <3>1, <4>1 DEF HeadersAt, Header, TypeOK, Opened
      <4>3. QED
        BY <2>0, <4>1, <4>2 DEF Headers, TypeOK
    <3>2. CASE pc \in Opened
      <4>1. PICK B \in SUBSET (0 .. current_base) : HeadersAt(B)
        BY <3>2 DEF Headers
      <4>2. 0 .. stack_top - 1 \subseteq DOMAIN mem /\ current_base < stack_top
        BY <3>2 DEF Written
      <4>3. header.tag = "object" => (stack_top - header.val) % 3 = 0
        BY <3>2, <4>2, <2>0 DEF FrameLength, TypeOK, Opened
      <4>4. PICK C : C = B \cup {stack_top}
        OBVIOUS
      <4>5. C \in SUBSET (0 .. current_base')
        BY <4>1, <4>2, <4>4 DEF TypeOK
      <4>6. \A b \in B : b \in DOMAIN mem /\ b # stack_top /\ mem'[b] = mem[b]
        BY <2>1, <4>1, <4>2 DEF TypeOK
      <4>7. \A b \in B : Header(B, mem[b], b)
        BY <3>2, <4>1 DEF HeadersAt, TypeOK
      <4>8. HeadersAt(C)'
        <5>1. \A b \in C : b < current_base' => Header(C, mem'[b], b)
          BY <4>4, <4>6, <4>7, <2>0 DEF Header, TypeOK
        <5>2. Header(C, mem'[current_base'], current_base')
          BY <2>0, <2>1, <3>2, <4>1, <4>2, <4>3, <4>4
          DEF Header, HeadersAt, TypeOK
        <5>3. QED
          BY <5>1, <5>2, <4>4, <2>0 DEF HeadersAt
      <4>9. QED
        BY <4>5, <4>8 DEF Headers
    <3>3. QED
      BY <3>1, <3>2
  <2>5. Written'
    BY <2>0, <2>1, SizesAssumption
    DEF Written, TypeOK, InstalledFrom, write_cursor, structure_end, Opened,
        Closing, Untouched, FrameLength
  <2>6. BufferGiven' /\ WordsPaidFor' /\ BuffersNeverMeet'
    BY <2>0, SizesAssumption
    DEF BufferGiven, WordsPaidFor, BuffersNeverMeet, NoRoom, TypeOK,
        write_cursor, structure_end, Opened, Closing, Running
  <2>7. ObjectRecords'
    BY <2>0 DEF ObjectRecords, FrameLength, TypeOK, StructureTags
  <2>8. WritesInBounds'
    BY <2>0, <2>1, SizesAssumption, StrategyAssumption
    DEF WritesInBounds, BufferWords, structure_end, TypeOK, NoRoom,
        BufferGiven, Running, Opened, Strategies
  <2>9. AstWritten'
    BY DEF AstWritten, AfterOpening
  <2>10. StackKept /\ FinishedKept /\ FrameKept
    <3>1. current_base <= stack_top /\ 0 .. current_base - 1 \subseteq DOMAIN mem
      BY DEF Untouched, Written, TypeOK
    <3>a. pc \in Opened => 0 .. stack_top - 1 \subseteq DOMAIN mem
      BY DEF Written
    <3>b. \A a \in 0 .. current_base - 1 : a # stack_top
      BY <3>1 DEF TypeOK
    <3>c. \A a \in 0 .. stack_top - 1 : a # stack_top
      BY DEF TypeOK
    <3>2. StackKept
      BY <2>1, <3>1, <3>a, <3>b, <3>c DEF StackKept
    <3>3. write_cursor .. structure_end - 1 \subseteq DOMAIN mem \ {stack_top}
      <4>1. write_cursor .. structure_end - 1 \subseteq DOMAIN mem
        BY <2>0, SizesAssumption
        DEF Untouched, Written, InstalledFrom, write_cursor, structure_end,
            TypeOK, Opened
      <4>2. stack_top < write_cursor \/ structure_end = 0
        BY <2>0, SizesAssumption, StrategyAssumption
        DEF write_cursor, structure_end, NoRoom, TypeOK, Strategies
      <4>3. stack_top \notin write_cursor .. structure_end - 1
        BY <4>2, SizesAssumption DEF write_cursor, structure_end, TypeOK
      <4>4. QED
        BY <4>1, <4>3
    <3>4. FinishedKept /\ FrameKept
      BY <2>0, <2>1, <3>3 DEF FinishedKept, FrameKept, InstalledFrom, Opened
    <3>5. QED
      BY <3>2, <3>4
  <2>11. QED
    BY <2>2, <2>3, <2>4, <2>5, <2>6, <2>7, <2>8, <2>9, <2>10 DEF SafeStep
<1>3. QED
  BY <1>1, <1>2 DEF OpenStructure

\* A value of k words has been read up to q, where the words in use are paid
\* for, but for the one its element takes.
LEMMA PushValueInv ==
    ASSUME Inv,
           pc \in Opened,
           NEW t \in ValueTags,
           NEW q \in 0 .. input_length,
           NEW k \in Nat,
           NEW words \in [write_cursor - k .. write_cursor - 1 -> Words],
           /\ stack_top + write_offset + k <= q
           /\ stack_top + write_offset < input_length,
           ~NoRoom(stack_top, write_offset, k),
           current_structure_tag = "object" => FrameLength % 3 = 2,
           PushValue(t, q, words, write_offset + k)
    PROVE  SafeStep
<1> USE DEF Inv
<1>1. CASE Reject("OUT_OF_MEMORY")
  BY <1>1, RejectInv DEF Errors
<1>2. CASE /\ ~NoRoom(stack_top, write_offset + k, 1)
           /\ mem' = Store(Store(mem, words),
                           At(stack_top, Element(t, write_offset + k)))
           /\ stack_top' = stack_top + 1
           /\ write_offset' = write_offset + k
           /\ p' = q
           /\ pc' = "structure_close_or_comma"
           /\ UNCHANGED <<input_length, current_base, current_structure_tag,
                          pop_element, todo, root_tag, error>>
  <2> USE <1>2
  <2>0. /\ pc' \in Opened /\ pc' \notin Closing /\ pc' \in Labels
        /\ input_length \in Nat /\ p \in Nat /\ q \in Nat
        /\ Element(t, write_offset + k) \in Words
        /\ structure_end \in Int /\ structure_end' = structure_end
        /\ write_cursor = structure_end - write_offset
        /\ write_cursor' = write_cursor - k
    BY SizesAssumption
    DEF Opened, Closing, Labels, Running, TypeOK, Words, Element,
        structure_end, write_cursor
  <2>1. /\ current_base < stack_top
        /\ 0 .. stack_top - 1 \subseteq DOMAIN mem
        /\ write_cursor .. structure_end - 1 \subseteq DOMAIN mem
    BY DEF Written, InstalledFrom, Opened
  <2>2. \/ stack_top <= write_cursor - k
        \/ Strategy = "dynamic" /\ write_cursor - 1 < 0
    BY <2>0, SizesAssumption, StrategyAssumption
    DEF structure_end, write_cursor, NoRoom, TypeOK, Strategies
  <2>3. /\ DOMAIN mem' = DOMAIN mem \cup (write_cursor - k .. write_cursor - 1)
                                    \cup {stack_top}
        /\ mem'[stack_top] = Element(t, write_offset + k)
        /\ \A a \in DOMAIN mem' : mem'[a] \in Words
        /\ \A a \in 0 .. stack_top - 1 : mem'[a] = mem[a]
        /\ \A a \in DOMAIN mem : a = stack_top \/ mem'[a] = mem[a]
              \/ a \in write_cursor - k .. write_cursor - 1
    <3>1. DOMAIN mem' = DOMAIN mem \cup (write_cursor - k .. write_cursor - 1)
                                   \cup {stack_top}
      BY DEF Store, At
    <3>2. \A a \in DOMAIN mem' : mem'[a] =
              IF a = stack_top THEN Element(t, write_offset + k)
              ELSE IF a \in write_cursor - k .. write_cursor - 1
                   THEN words[a] ELSE mem[a]
      BY DEF Store, At
    <3>3. \A a \in 0 .. stack_top - 1 :
              a # stack_top /\ a \notin write_cursor - k .. write_cursor - 1
      BY <2>0, <2>2 DEF TypeOK
    <3>4. \A a \in 0 .. stack_top - 1 : mem'[a] = mem[a]
      BY <2>1, <3>1, <3>2, <3>3
    <3>5. \A a \in DOMAIN mem' : mem'[a] \in Words
      BY <2>0, <3>1, <3>2 DEF TypeOK
    <3>6. QED
      BY <3>1, <3>2, <3>4, <3>5
  <2>4. TypeOK'
    BY <2>0, <2>3 DEF TypeOK
  <2>5. Untouched' /\ LabelsAgree'
    BY DEF Untouched, LabelsAgree
  <2>6. Headers'
    <3>1. PICK B \in SUBSET (0 .. current_base) : HeadersAt(B)
      BY DEF Headers
    <3>2. \A b \in B : b \in 0 .. stack_top - 1 /\ mem'[b] = mem[b]
      BY <2>1, <2>3, <3>1 DEF TypeOK
    <3>3. HeadersAt(B)'
      BY <2>0, <3>1, <3>2 DEF HeadersAt
    <3>4. QED
      BY <3>1, <3>3 DEF Headers
  <2>7. Written'
    <3>1. 0 .. stack_top' - 1 \subseteq DOMAIN mem'
      BY <2>1, <2>3 DEF TypeOK
    <3>2. write_cursor' .. structure_end' - 1 \subseteq DOMAIN mem'
      <4>1. \A a \in write_cursor - k .. structure_end - 1 :
                \/ a \in write_cursor - k .. write_cursor - 1
                \/ a \in write_cursor .. structure_end - 1
        BY <2>0 DEF TypeOK
      <4>2. \A a \in write_cursor - k .. structure_end - 1 : a \in DOMAIN mem'
        BY <2>1, <2>3, <4>1
      <4>3. QED
        BY <2>0, <4>2
    <3>3. current_base' < stack_top' /\ InstalledFrom' = write_cursor'
      BY <2>0, <2>1 DEF TypeOK, InstalledFrom
    <3>4. QED
      BY <2>0, <3>1, <3>2, <3>3 DEF Written
  <2>8. BufferGiven' /\ WordsPaidFor' /\ BuffersNeverMeet'
    <3>1. BufferGiven'
      BY DEF BufferGiven, Running, Opened
    <3>2. WordsPaidFor'
      <4>1. stack_top' + write_offset' <= p' + 1
        BY DEF TypeOK
      <4>2. pc' = "structure_close_or_comma"
        OBVIOUS
      <4>3. QED
        BY <4>1, <4>2 DEF WordsPaidFor
    <3>3. BuffersNeverMeet'
      <4>1. Strategy = "bounded" => stack_top + 1 <= write_cursor - k
        BY <2>0, SizesAssumption DEF NoRoom, TypeOK, structure_end
      <4>2. QED
        BY <2>0, <4>1 DEF BuffersNeverMeet
    <3>4. QED
      BY <3>1, <3>2, <3>3
  <2>9. ObjectRecords'
    <3>1. FrameLength \in Nat /\ FrameLength' = FrameLength + 1
      BY <2>1 DEF FrameLength, TypeOK
    <3>2. QED
      BY <3>1 DEF ObjectRecords
  <2>10. WritesInBounds'
    <3>1. Strategy = "bounded" =>
            /\ 0 <= write_cursor - k /\ write_cursor <= BufferWords
            /\ stack_top < BufferWords
      BY <2>0, SizesAssumption DEF BufferWords, structure_end, TypeOK, NoRoom
    <3>2. Strategy \in {"single", "existing"} => input_length <= BufferWords
      BY <2>0 DEF BufferWords, BufferGiven, Running, Opened
    <3>3. Strategy \in {"single", "existing"} =>
            /\ 0 <= write_cursor - k /\ write_cursor <= BufferWords
            /\ stack_top < BufferWords
      BY <2>0, <3>2, SizesAssumption DEF BufferWords, structure_end, TypeOK
    <3>4. CASE Strategy # "dynamic"
      <4>1. /\ 0 <= write_cursor - k /\ write_cursor <= BufferWords
            /\ stack_top \in Nat /\ stack_top < BufferWords
            /\ BufferWords \in Nat
        BY <2>0, <3>1, <3>3, <3>4, SizesAssumption, StrategyAssumption
        DEF Strategies, BufferWords, TypeOK
      <4>2. \A a \in DOMAIN mem' : a \in 0 .. BufferWords - 1
        <5>1. \A a \in DOMAIN mem : a \in 0 .. BufferWords - 1
          BY <3>4 DEF WritesInBounds
        <5>2. \A a \in write_cursor - k .. write_cursor - 1 :
                  a \in 0 .. BufferWords - 1
          BY ONLY <2>0, <4>1, k \in Nat
        <5>3. stack_top \in 0 .. BufferWords - 1
          BY <4>1
        <5>4. QED
          BY ONLY <2>3, <5>1, <5>2, <5>3
      <4>3. BufferWords' = BufferWords
        BY DEF BufferWords
      <4>4. QED
        BY <4>2, <4>3 DEF WritesInBounds
    <3>5. QED
      BY <3>4 DEF WritesInBounds
  <2>11. AstWritten'
    BY DEF AstWritten
  <2>12. StackKept /\ FinishedKept /\ FrameKept
    <3>1. StackKept
      BY <2>1, <2>3 DEF StackKept, TypeOK
    <3>2. Doomed' \/ stack_top < write_cursor \/ Strategy = "dynamic"
      BY <2>0, SizesAssumption, StrategyAssumption
      DEF Doomed, NoRoom, TypeOK, structure_end, Strategies
    <3>3. \A a \in write_cursor .. structure_end - 1 :
              /\ a \in DOMAIN mem
              /\ a \notin write_cursor - k .. write_cursor - 1
              /\ Doomed' \/ a # stack_top
      <4>1. structure_end = 0 \/ Strategy # "dynamic"
        BY DEF structure_end
      <4>2. stack_top \in Nat
        BY DEF TypeOK
      <4>3. \A a \in write_cursor .. structure_end - 1 :
                a \notin write_cursor - k .. write_cursor - 1
        BY <2>0
      <4>4. \A a \in write_cursor .. structure_end - 1 :
                Doomed' \/ a # stack_top
        BY <2>0, <3>2, <4>1, <4>2
      <4>5. QED
        BY <2>1, <4>3, <4>4
    <3>4. FinishedKept /\ FrameKept
      BY <2>3, <3>3 DEF FinishedKept, FrameKept, InstalledFrom, Opened
    <3>5. QED
      BY <3>1, <3>4
  <2>13. QED
    BY <2>4, <2>5, <2>6, <2>7, <2>8, <2>9, <2>10, <2>11, <2>12 DEF SafeStep
<1>3. QED
  BY <1>1, <1>2 DEF PushValue

\* A delimiter at r, which takes the parse from one label to another.
LEMMA SkipInv ==
    ASSUME Inv,
           pc \in Opened,
           NEW r \in p .. input_length - 1,
           NEW label \in {"next_element", "object_key"},
           stack_top + write_offset <= r + 1,
           label = "object_key" =>
              current_structure_tag = "object" /\ FrameLength % 3 = 0,
           label = "next_element" /\ current_structure_tag = "object" =>
              FrameLength % 3 = 2,
           Skip(r, label)
    PROVE  SafeStep
<1> USE DEF Inv, Skip
<1>0. /\ pc' \in Opened /\ pc' \notin Closing /\ pc' \in Labels
      /\ input_length \in Nat /\ p \in Nat /\ r \in Nat
  BY SizesAssumption DEF Opened, Closing, Labels, Running, TypeOK
<1>1. TypeOK' /\ Untouched' /\ LabelsAgree' /\ BufferGiven'
  BY <1>0 DEF TypeOK, Untouched, LabelsAgree, BufferGiven, Opened, Running
<1>2. Headers'
  <2>1. PICK B \in SUBSET (0 .. current_base) : HeadersAt(B)
    BY DEF Headers
  <2>2. HeadersAt(B)'
    BY <1>0, <2>1 DEF HeadersAt
  <2>3. QED
    BY <2>1, <2>2 DEF Headers
<1>3. Written'
  BY <1>0 DEF Written, InstalledFrom, write_cursor, structure_end, Opened
<1>4. WordsPaidFor' /\ BuffersNeverMeet'
  BY <1>0 DEF WordsPaidFor, BuffersNeverMeet, write_cursor, structure_end,
              Opened, Closing
<1>5. ObjectRecords' /\ WritesInBounds'
  BY <1>0 DEF ObjectRecords, FrameLength, WritesInBounds, BufferWords, Opened
<1>6. AstWritten' /\ StackKept /\ FinishedKept /\ FrameKept
  BY DEF AstWritten, StackKept, FinishedKept, FrameKept, Opened
<1>7. QED
  BY <1>1, <1>2, <1>3, <1>4, <1>5, <1>6 DEF SafeStep

\* A string token has its two quotes inside the input.
LEMMA StringEndsLemma ==
    ASSUME TypeOK, NEW r \in Nat, NEW q \in StringEnds(r),
           NEW e \in DecodedEnds(r, q)
    PROVE  /\ q \in r + 2 .. input_length
           /\ e \in Nat
<1>1. PICK w \in StringWidths : q = r + w /\ r + w <= input_length
  BY DEF StringEnds
<1>2. w \in Nat /\ w >= 2 /\ input_length \in Nat
  BY SizesAssumption DEF TypeOK
<1>3. PICK k \in DecodedLengths(q - r - 2) : e = r + 1 + k
  BY DEF DecodedEnds
<1>4. k \in Nat
  BY <1>1, <1>2, <1>3 DEF DecodedLengths
<1>5. QED
  BY <1>1, <1>2, <1>3, <1>4

\* What parse_string, parse_number and the literals report are error codes.
LEMMA ErrorCodes ==
    ASSUME NEW r
    PROVE  /\ StringErrorsAt(r) \subseteq Errors
           /\ NumberErrors(r) \subseteq Errors
           /\ \A t \in {"null", "false", "true"} : ExpectedLiteral[t] \in Errors
  BY DEF StringErrorsAt, NumberErrors, ExpectedLiteral, Errors, StringErrors

\* A key, or what is found in its place.
LEMMA KeyAtInv ==
    ASSUME Inv,
           pc \in Opened,
           NEW r \in p .. input_length - 1,
           stack_top + write_offset <= r,
           current_structure_tag = "object",
           FrameLength % 3 = 0,
           KeyAt(r)
    PROVE  SafeStep
<1> USE DEF Inv
<1>1. CASE \E e \in Errors : Reject(e)
  BY <1>1, RejectInv
<1>2. CASE \E q \in StringEnds(r) : \E e \in DecodedEnds(r, q) :
              /\ ~NoRoom(stack_top, write_offset, 2)
              /\ mem' = Store(mem, Pair(stack_top, Raw(r + 1), Raw(e)))
              /\ stack_top' = stack_top + 2
              /\ p' = q
              /\ pc' = "expect_colon"
              /\ UNCHANGED <<input_length, write_offset, current_base,
                             current_structure_tag, pop_element, todo,
                             root_tag, error>>
  <2>a. PICK q \in StringEnds(r) : \E e \in DecodedEnds(r, q) :
              /\ ~NoRoom(stack_top, write_offset, 2)
              /\ mem' = Store(mem, Pair(stack_top, Raw(r + 1), Raw(e)))
              /\ stack_top' = stack_top + 2
              /\ p' = q
              /\ pc' = "expect_colon"
              /\ UNCHANGED <<input_length, write_offset, current_base,
                             current_structure_tag, pop_element, todo,
                             root_tag, error>>
    BY <1>2
  <2>b. PICK e \in DecodedEnds(r, q) :
              /\ ~NoRoom(stack_top, write_offset, 2)
              /\ mem' = Store(mem, Pair(stack_top, Raw(r + 1), Raw(e)))
              /\ stack_top' = stack_top + 2
              /\ p' = q
              /\ pc' = "expect_colon"
              /\ UNCHANGED <<input_length, write_offset, current_base,
                             current_structure_tag, pop_element, todo,
                             root_tag, error>>
    BY <2>a
  <2> USE <2>b
  <2>0. /\ pc' \in Opened /\ pc' \notin Closing /\ pc' \in Labels
        /\ input_length \in Nat /\ p \in Nat /\ r \in Nat
        /\ q \in r + 2 .. input_length
        /\ Raw(r + 1) \in Words /\ Raw(e) \in Words
        /\ structure_end \in Int /\ structure_end' = structure_end
        /\ write_cursor = structure_end - write_offset
        /\ write_cursor' = write_cursor
    BY SizesAssumption, StringEndsLemma
    DEF Opened, Closing, Labels, Running, TypeOK, Words, Raw, structure_end,
        write_cursor
  <2>1. /\ current_base < stack_top
        /\ 0 .. stack_top - 1 \subseteq DOMAIN mem
        /\ write_cursor .. structure_end - 1 \subseteq DOMAIN mem
    BY DEF Written, InstalledFrom, Opened
  <2>2. /\ DOMAIN mem' = DOMAIN mem \cup {stack_top, stack_top + 1}
        /\ \A a \in DOMAIN mem' : mem'[a] \in Words
        /\ \A a \in 0 .. stack_top - 1 : mem'[a] = mem[a]
        /\ \A a \in DOMAIN mem :
              a = stack_top \/ a = stack_top + 1 \/ mem'[a] = mem[a]
    <3>1. DOMAIN mem' = DOMAIN mem \cup {stack_top, stack_top + 1}
      BY DEF Store, Pair
    <3>2. \A a \in DOMAIN mem' : mem'[a] =
              IF a = stack_top THEN Raw(r + 1)
              ELSE IF a = stack_top + 1 THEN Raw(e) ELSE mem[a]
      BY DEF Store, Pair
    <3>3. \A a \in 0 .. stack_top - 1 : a # stack_top /\ a # stack_top + 1
      BY DEF TypeOK
    <3>4. QED
      BY <2>0, <2>1, <3>1, <3>2, <3>3 DEF TypeOK
  <2>3. TypeOK'
    BY <2>0, <2>2 DEF TypeOK
  <2>4. Untouched' /\ LabelsAgree'
    BY DEF Untouched, LabelsAgree
  <2>5. Headers'
    <3>1. PICK B \in SUBSET (0 .. current_base) : HeadersAt(B)
      BY DEF Headers
    <3>2. \A b \in B : b \in 0 .. stack_top - 1 /\ mem'[b] = mem[b]
      BY <2>1, <2>2, <3>1 DEF TypeOK
    <3>3. HeadersAt(B)'
      BY <2>0, <3>1, <3>2 DEF HeadersAt
    <3>4. QED
      BY <3>1, <3>3 DEF Headers
  <2>6. Written'
    BY <2>0, <2>1, <2>2 DEF Written, InstalledFrom, TypeOK, Opened
  <2>7. BufferGiven' /\ WordsPaidFor' /\ BuffersNeverMeet'
    BY <2>0, SizesAssumption
    DEF BufferGiven, WordsPaidFor, BuffersNeverMeet, NoRoom, TypeOK,
        write_cursor, structure_end, Opened, Closing, Running
  <2>8. ObjectRecords'
    <3>1. FrameLength \in Nat /\ FrameLength' = FrameLength + 2
      BY <2>1 DEF FrameLength, TypeOK
    <3>2. QED
      BY <3>1 DEF ObjectRecords
  <2>9. WritesInBounds'
    BY <2>0, <2>2, SizesAssumption, StrategyAssumption
    DEF WritesInBounds, BufferWords, structure_end, TypeOK, NoRoom,
        BufferGiven, Running, Opened, Strategies
  <2>10. AstWritten'
    BY DEF AstWritten
  <2>11. StackKept /\ FinishedKept /\ FrameKept
    <3>1. StackKept
      BY <2>1, <2>2 DEF StackKept, TypeOK
    <3>2. stack_top + 1 < write_cursor \/ Strategy = "dynamic"
      BY <2>0, SizesAssumption, StrategyAssumption
      DEF NoRoom, TypeOK, structure_end, Strategies
    <3>3. \A a \in write_cursor .. structure_end - 1 :
              a \in DOMAIN mem /\ a # stack_top /\ a # stack_top + 1
      BY <2>0, <2>1, <3>2 DEF TypeOK, structure_end
    <3>4. FinishedKept /\ FrameKept
      BY <2>2, <3>3 DEF FinishedKept, FrameKept, InstalledFrom, Opened
    <3>5. QED
      BY <3>1, <3>4
  <2>12. QED
    BY <2>3, <2>4, <2>5, <2>6, <2>7, <2>8, <2>9, <2>10, <2>11 DEF SafeStep
<1>3. QED
  BY <1>1, <1>2, ErrorCodes DEF KeyAt, Key, Errors

\* Facts about the tokens of the switch: a number takes at least as many
\* bytes as words, and at least one byte more than it has is there.
LEMMA NumberTokens ==
    ASSUME NEW t \in {"integer", "double"}, NEW w \in NumberWidthsOf(t)
    PROVE  w \in Nat /\ NumberWords[t] \in Nat /\ 1 <= NumberWords[t]
              /\ NumberWords[t] <= w
<1>1. NumberWords["integer"] = 1 /\ NumberWords["double"] = DoubleWords
  BY DEF NumberWords
<1>2. w \in NumberWidths /\ (t = "double" => w >= 3)
  BY DEF NumberWidthsOf
<1>3. w \in Nat /\ w >= 1
  BY <1>2, SizesAssumption
<1>4. CASE t = "integer"
  BY <1>1, <1>3, <1>4
<1>5. CASE t = "double"
  BY <1>1, <1>2, <1>3, <1>5, SizesAssumption
<1>6. QED
  BY <1>4, <1>5

\* A literal takes at least four bytes.
LEMMA LiteralTokens ==
    ASSUME NEW t \in {"null", "false", "true"}
    PROVE  LiteralWidth[t] \in Nat /\ 4 <= LiteralWidth[t]
  BY DEF LiteralWidth

\* The switch of next_element at the byte r, where a value is due and the
\* words in use are paid for by the bytes before r.
LEMMA SwitchInv ==
    ASSUME Inv,
           pc \in Opened,
           NEW r \in p .. input_length - 1,
           stack_top + write_offset <= r,
           current_structure_tag = "object" => FrameLength % 3 = 2,
           Switch(r)
    PROVE  SafeStep
<1> USE DEF Inv
<1>0. /\ input_length \in Nat /\ p \in Nat /\ r \in Nat
      /\ stack_top \in Nat /\ write_offset \in Nat
      /\ Strategy = "bounded" => stack_top + write_offset <= Capacity
      /\ write_cursor \in Int
  BY SizesAssumption
  DEF TypeOK, BuffersNeverMeet, write_cursor, structure_end
<1>1. CASE \E e \in Errors : Reject(e)
  BY <1>1, RejectInv
<1>2. CASE \E t \in StructureTags :
              OpenStructure(r, t, Element(current_structure_tag, current_base))
  BY <1>2, OpenStructureInv
<1>3. CASE \E t \in {"null", "false", "true"} :
              /\ r + LiteralWidth[t] <= input_length
              /\ PushValue(t, r + LiteralWidth[t], NoWords, write_offset)
  <2>1. PICK t \in {"null", "false", "true"} :
              /\ r + LiteralWidth[t] <= input_length
              /\ PushValue(t, r + LiteralWidth[t], NoWords, write_offset)
    BY <1>3
  <2>2. t \in ValueTags /\ r + LiteralWidth[t] \in r + 4 .. input_length
    BY <1>0, <2>1, LiteralTokens DEF ValueTags
  <2>3. NoWords \in [write_cursor - 0 .. write_cursor - 1 -> Words]
    BY <1>0 DEF NoWords
  <2>4. ~NoRoom(stack_top, write_offset, 0)
    BY <1>0, SizesAssumption DEF NoRoom
  <2>5. PushValue(t, r + LiteralWidth[t], NoWords, write_offset + 0)
    BY <1>0, <2>1
  <2>6. \A q \in r + 4 .. input_length :
            PushValue(t, q, NoWords, write_offset + 0) => SafeStep
    BY <1>0, <2>2, <2>3, <2>4, PushValueInv
  <2>7. QED
    BY <2>2, <2>5, <2>6
<1>4. CASE \E t \in {"integer", "double"} :
             \E w \in {x \in NumberWidthsOf(t) : r + x < input_length} :
                /\ ~NoRoom(stack_top, write_offset, NumberWords[t])
                /\ PushValue(t, r + w,
                        [a \in write_cursor - NumberWords[t]
                               .. write_cursor - 1 |-> Raw(r)],
                        write_offset + NumberWords[t])
  <2>1. PICK t \in {"integer", "double"} :
             \E w \in {x \in NumberWidthsOf(t) : r + x < input_length} :
                /\ ~NoRoom(stack_top, write_offset, NumberWords[t])
                /\ PushValue(t, r + w,
                        [a \in write_cursor - NumberWords[t]
                               .. write_cursor - 1 |-> Raw(r)],
                        write_offset + NumberWords[t])
    BY <1>4
  <2>2. PICK w \in NumberWidthsOf(t) :
                /\ r + w < input_length
                /\ ~NoRoom(stack_top, write_offset, NumberWords[t])
                /\ PushValue(t, r + w,
                        [a \in write_cursor - NumberWords[t]
                               .. write_cursor - 1 |-> Raw(r)],
                        write_offset + NumberWords[t])
    BY <2>1
  <2>3. PICK k \in Nat : k = NumberWords[t] /\ 1 <= k /\ k <= w /\ w \in Nat
    BY NumberTokens
  <2>4. PICK words : words = [a \in write_cursor - k .. write_cursor - 1 |-> Raw(r)]
    OBVIOUS
  <2>5. words \in [write_cursor - k .. write_cursor - 1 -> Words]
    BY <1>0, <2>4 DEF Raw, Words
  <2>6. t \in ValueTags
    BY DEF ValueTags
  <2>7. PICK q \in 0 .. input_length : q = r + w
    BY <1>0, <2>2, <2>3
  <2>8. /\ ~NoRoom(stack_top, write_offset, k)
        /\ PushValue(t, q, words, write_offset + k)
    BY <2>2, <2>3, <2>4, <2>7
  <2>9. /\ stack_top + write_offset + k <= q
        /\ stack_top + write_offset < input_length
    BY <1>0, <2>3, <2>7
  <2>10. QED
    BY <2>5, <2>6, <2>8, <2>9, PushValueInv
<1>5. CASE /\ ~NoRoom(stack_top, write_offset, 2)
           /\ \E q \in StringEnds(r) : \E e \in DecodedEnds(r, q) :
                PushValue("string", q,
                          Pair(write_cursor - 2, Raw(r + 1), Raw(e)),
                          write_offset + 2)
  <2>1. PICK q \in StringEnds(r) : \E e \in DecodedEnds(r, q) :
                PushValue("string", q,
                          Pair(write_cursor - 2, Raw(r + 1), Raw(e)),
                          write_offset + 2)
    BY <1>5
  <2>2. PICK e \in DecodedEnds(r, q) :
                PushValue("string", q,
                          Pair(write_cursor - 2, Raw(r + 1), Raw(e)),
                          write_offset + 2)
    BY <2>1
  <2>3. q \in r + 2 .. input_length /\ e \in Nat
    BY <1>0, StringEndsLemma
  <2>4. Pair(write_cursor - 2, Raw(r + 1), Raw(e))
            \in [write_cursor - 2 .. write_cursor - 1 -> Words]
    BY <1>0, <2>3 DEF Pair, Raw, Words
  <2>5. QED
    BY <1>0, <1>5, <2>2, <2>3, <2>4, PushValueInv DEF ValueTags
<1>6. QED
  <2>1. Literal(r) => SafeStep
    BY <1>1, <1>3, ErrorCodes DEF Literal, Errors
  <2>2. Number(r) => SafeStep
    BY <1>1, <1>4, ErrorCodes DEF Number, Errors
  <2>3. String(r) => SafeStep
    BY <1>1, <1>5, ErrorCodes DEF String, Errors
  <2>4. QED
    BY <1>1, <1>2, <2>1, <2>2, <2>3 DEF Switch, Errors

\* Sorting moves words about within the frame, above its header.
LEMMA SortedMembersLemma ==
    ASSUME TypeOK, NEW n \in Nat, NEW m \in SortedMembers(n),
           current_base + 1 .. current_base + 3 * n \subseteq DOMAIN mem
    PROVE  /\ DOMAIN m = DOMAIN mem
           /\ \A a \in DOMAIN mem : m[a] \in Words
           /\ \A a \in DOMAIN mem :
                a \notin current_base + 1 .. current_base + 3 * n => m[a] = mem[a]
<1> DEFINE from(f, a) ==
              current_base + 3 * (f[RecordOf(a)] - 1) + PartOf(a)
<1>1. PICK f \in [1 .. n -> 1 .. n] :
        m = [a \in DOMAIN mem |->
               IF a \in current_base + 1 .. current_base + 3 * n
               THEN mem[from(f, a)] ELSE mem[a]]
  BY DEF SortedMembers, MemberOrders, Bijection, Injection
<1>2. ASSUME NEW a \in current_base + 1 .. current_base + 3 * n
      PROVE  from(f, a) \in DOMAIN mem
  <2>1. RecordOf(a) \in 1 .. n /\ PartOf(a) \in 1 .. 3
    BY DEF TypeOK, RecordOf, PartOf
  <2>2. f[RecordOf(a)] \in 1 .. n
    BY <1>1, <2>1
  <2>3. \A x \in 1 .. n, y \in 1 .. 3 :
            current_base + 3 * (x - 1) + y \in
                current_base + 1 .. current_base + 3 * n
    BY DEF TypeOK
  <2>4. from(f, a) \in current_base + 1 .. current_base + 3 * n
    BY <2>1, <2>2, <2>3
  <2>5. QED
    BY <2>4
<1>3. QED
  BY <1>1, <1>2 DEF TypeOK

\* The closing bracket at r.
LEMMA CloseStructureInv ==
    ASSUME Inv,
           pc \in Opened,
           NEW r \in p .. input_length - 1,
           stack_top + write_offset <= r + 1,
           current_structure_tag = "object" => FrameLength % 3 = 0,
           CloseStructure(r)
    PROVE  SafeStep
<1> USE DEF Inv
<1>1. CASE Reject("OUT_OF_MEMORY")
  BY <1>1, RejectInv DEF Errors
<1>2. CASE /\ ~NoRoom(stack_top, write_offset, FrameLength + 1)
           /\ p' = r + 1
           /\ pop_element' = mem[current_base]
           /\ mem' \in IF Sorts(current_structure_tag, FrameLength)
                       THEN SortedMembers(MembersOf(FrameLength)) ELSE {mem}
           /\ write_offset' = write_offset + FrameLength + 1
           /\ todo' = FrameLength
           /\ pc' = "install"
           /\ UNCHANGED <<input_length, stack_top, current_base,
                          current_structure_tag, root_tag, error>>
  <2> USE <1>2
  <2>0. /\ pc' \notin Opened /\ pc' \in Closing /\ pc' \in Labels
        /\ input_length \in Nat /\ p \in Nat /\ r \in Nat
        /\ structure_end \in Int /\ structure_end' = structure_end
        /\ write_cursor = structure_end - write_offset
        /\ FrameLength' = FrameLength
        /\ write_cursor' = write_cursor - (FrameLength + 1)
    BY SizesAssumption
    DEF Opened, Closing, Labels, Running, TypeOK, structure_end, write_cursor,
        FrameLength
  <2>1. /\ current_base < stack_top
        /\ 0 .. stack_top - 1 \subseteq DOMAIN mem
        /\ write_cursor .. structure_end - 1 \subseteq DOMAIN mem
        /\ FrameLength \in Nat
        /\ stack_top = current_base + 1 + FrameLength
    BY DEF Written, InstalledFrom, Opened, FrameLength, TypeOK
  <2>2. /\ DOMAIN mem' = DOMAIN mem
        /\ \A a \in DOMAIN mem' : mem'[a] \in Words
        /\ \A a \in 0 .. current_base : mem'[a] = mem[a]
        /\ \A a \in DOMAIN mem \ (0 .. stack_top - 1) : mem'[a] = mem[a]
    <3>1. CASE mem' = mem
      BY <3>1 DEF TypeOK
    <3>2. CASE mem' \in SortedMembers(MembersOf(FrameLength))
      <4>1. PICK n \in Nat : n = MembersOf(FrameLength) /\ 3 * n <= FrameLength
        BY <2>1 DEF MembersOf
      <4>2. current_base + 1 .. current_base + 3 * n \subseteq DOMAIN mem
        BY <2>1, <4>1 DEF TypeOK
      <4>3. \A a \in 0 .. current_base :
                /\ a \in DOMAIN mem
                /\ a \notin current_base + 1 .. current_base + 3 * n
        BY <2>1, <4>1 DEF TypeOK
      <4>4. \A a \in DOMAIN mem \ (0 .. stack_top - 1) :
                a \notin current_base + 1 .. current_base + 3 * n
        BY <2>1, <4>1 DEF TypeOK
      <4>5. QED
        BY <3>2, <4>1, <4>2, <4>3, <4>4, SortedMembersLemma
    <3>3. QED
      BY <3>1, <3>2
  <2>3. mem[current_base] \in Words
    BY <2>1 DEF TypeOK
  <2>4. TypeOK'
    BY <2>0, <2>1, <2>2, <2>3 DEF TypeOK
  <2>5. Untouched' /\ LabelsAgree'
    BY DEF Untouched, LabelsAgree
  <2>6. Headers'
    <3>1. PICK B \in SUBSET (0 .. current_base) : HeadersAt(B)
      BY DEF Headers
    <3>2. HeadersAt(B)'
      BY <2>0, <2>2, <3>1 DEF HeadersAt
    <3>3. QED
      BY <3>1, <3>2 DEF Headers
  <2>7. Written'
    BY <2>0, <2>1, <2>2 DEF Written, InstalledFrom, TypeOK
  <2>8. BufferGiven' /\ WordsPaidFor' /\ BuffersNeverMeet'
    BY <2>0, <2>1, SizesAssumption
    DEF BufferGiven, WordsPaidFor, BuffersNeverMeet, NoRoom, TypeOK,
        structure_end, Opened, Running
  <2>9. ObjectRecords' /\ WritesInBounds'
    BY <2>0, <2>2 DEF ObjectRecords, WritesInBounds, BufferWords
  <2>10. AstWritten'
    BY DEF AstWritten
  <2>11. StackKept /\ FinishedKept /\ FrameKept
    <3>1. StackKept
      BY <2>0, <2>2 DEF StackKept, TypeOK
    <3>2. stack_top <= write_cursor \/ Strategy = "dynamic"
      BY <2>0, <2>1, SizesAssumption, StrategyAssumption
      DEF NoRoom, TypeOK, structure_end, Strategies
    <3>3. \A a \in write_cursor .. structure_end - 1 :
              a \in DOMAIN mem /\ a \notin 0 .. stack_top - 1
      BY <2>0, <2>1, <3>2 DEF TypeOK, structure_end
    <3>4. FinishedKept /\ FrameKept
      BY <2>2, <3>3 DEF FinishedKept, FrameKept, InstalledFrom, Opened
    <3>5. QED
      BY <3>1, <3>4
  <2>12. QED
    BY <2>4, <2>5, <2>6, <2>7, <2>8, <2>9, <2>10, <2>11 DEF SafeStep
<1>3. QED
  BY <1>1, <1>2 DEF CloseStructure

\* While a structure is closed its new place lies inside the AST, and does
\* not reach down to the headers of the enclosing structures.
LEMMA ClosingFacts ==
    ASSUME Inv, pc \in Closing
    PROVE  /\ structure_end \in Int
           /\ write_cursor = structure_end - write_offset
           /\ FrameLength \in Nat
           /\ stack_top = current_base + 1 + FrameLength
           /\ 0 .. stack_top - 1 \subseteq DOMAIN mem
           /\ write_cursor + FrameLength < structure_end
           /\ \/ Strategy # "dynamic" /\ current_base <= write_cursor
              \/ Strategy = "dynamic" /\ structure_end = 0
           /\ Strategy # "dynamic" => structure_end <= BufferWords
  BY SizesAssumption, StrategyAssumption
  DEF Inv, TypeOK, structure_end, write_cursor, FrameLength, Written,
      WordsPaidFor, BuffersNeverMeet, BufferGiven, BufferWords, Closing,
      Running, Strategies

\* A word w stored at address a, inside the place of the structure being
\* closed, as a step of the install loop.
LEMMA InstallWordInv ==
    ASSUME Inv, pc = "install", NEW i \in 0 .. FrameLength, NEW w \in Words,
           mem' = Store(mem, At(write_cursor + i, w)),
           \/ pc' = "install" /\ i = todo /\ todo' = todo - 1 /\ todo # 0
           \/ pc' = "pop" /\ i = 0 /\ todo' = todo /\ todo = 0,
           UNCHANGED <<input_length, p, stack_top, write_offset, current_base,
                       current_structure_tag, pop_element, root_tag, error>>
    PROVE  Inv' /\ StackKept /\ FinishedKept
<1> USE DEF Inv
<1>0. /\ pc' \in Closing /\ pc \in Closing /\ pc' \notin Opened /\ pc' \in Labels
      /\ structure_end' = structure_end
      /\ write_cursor' = write_cursor
      /\ FrameLength' = FrameLength
  BY DEF Opened, Closing, Labels, Running, structure_end, write_cursor,
         FrameLength
<1>1. /\ structure_end \in Int
      /\ write_cursor = structure_end - write_offset
      /\ FrameLength \in Nat
      /\ stack_top = current_base + 1 + FrameLength
      /\ 0 .. stack_top - 1 \subseteq DOMAIN mem
      /\ write_cursor + FrameLength < structure_end
      /\ \/ Strategy # "dynamic" /\ current_base <= write_cursor
         \/ Strategy = "dynamic" /\ structure_end = 0
      /\ Strategy # "dynamic" => structure_end <= BufferWords
  BY <1>0, ClosingFacts
<1>2. /\ DOMAIN mem' = DOMAIN mem \cup {write_cursor + i}
      /\ \A a \in DOMAIN mem' : mem'[a] \in Words
      /\ \A a \in DOMAIN mem : a # write_cursor + i => mem'[a] = mem[a]
      /\ \A a \in 0 .. current_base - 1 : mem'[a] = mem[a]
  <2>1. DOMAIN mem' = DOMAIN mem \cup {write_cursor + i}
    BY DEF Store, At
  <2>2. \A a \in DOMAIN mem' :
            mem'[a] = IF a = write_cursor + i THEN w ELSE mem[a]
    BY DEF Store, At
  <2>3. \A a \in 0 .. current_base - 1 : a # write_cursor + i
    BY <1>1 DEF TypeOK
  <2>4. 0 .. current_base - 1 \subseteq DOMAIN mem
    BY <1>1 DEF TypeOK
  <2>5. QED
    BY <2>1, <2>2, <2>3, <2>4 DEF TypeOK
<1>3. TypeOK'
  BY <1>0, <1>1, <1>2 DEF TypeOK
<1>4. Untouched' /\ LabelsAgree' /\ BufferGiven'
  BY <1>0 DEF Untouched, LabelsAgree, BufferGiven, Running
<1>5. Headers'
  <2>1. PICK B \in SUBSET (0 .. current_base) : HeadersAt(B)
    BY <1>0 DEF Headers
  <2>2. \A b \in B : b < current_base => mem'[b] = mem[b]
    BY <1>2, <2>1 DEF TypeOK
  <2>3. HeadersAt(B)'
    BY <1>0, <2>1, <2>2 DEF HeadersAt
  <2>4. QED
    BY <2>1, <2>3 DEF Headers
<1>6. Written'
  BY <1>0, <1>1, <1>2 DEF Written, InstalledFrom, TypeOK
<1>7. WordsPaidFor' /\ BuffersNeverMeet'
  BY <1>0 DEF WordsPaidFor, BuffersNeverMeet
<1>8. ObjectRecords'
  BY <1>0 DEF ObjectRecords
<1>9. WritesInBounds'
  <2>1. BufferWords' = BufferWords /\ BufferWords \in Int
    BY SizesAssumption DEF BufferWords, TypeOK
  <2>2. Strategy # "dynamic" => write_cursor + i \in 0 .. BufferWords - 1
    BY <1>1, <2>1 DEF TypeOK
  <2>3. QED
    BY <1>2, <2>1, <2>2 DEF WritesInBounds
<1>10. AstWritten'
  BY DEF AstWritten
<1>11. StackKept
  BY <1>0, <1>2 DEF StackKept
<1>12. FinishedKept
  BY <1>0, <1>1, <1>2 DEF FinishedKept, InstalledFrom, Written, TypeOK
<1>13. QED
  BY <1>3, <1>4, <1>5, <1>6, <1>7, <1>8, <1>9, <1>10, <1>11, <1>12

\* Counting a relocated element back gives the element there was.
LEMMA RelocateBack ==
    ASSUME NEW w \in Words, structure_end \in Int, write_cursor \in Int
    PROVE  Unrelocate(Relocate(w)) = w
  BY DEF Unrelocate, Relocate, Element, Words

\* The word moved goes above the words of the frame still to be moved, and
\* below those already moved.
LEMMA CopyWordKeepsFrame ==
    ASSUME Inv, CopyWord
    PROVE  FrameKept
<1>0. /\ pc \in Closing
      /\ todo \in 1 .. FrameLength
      /\ todo' = todo - 1
      /\ FrameLength \in Nat /\ current_base \in Nat
      /\ stack_top = current_base + 1 + FrameLength
      /\ 0 .. stack_top - 1 \subseteq DOMAIN mem
      /\ write_cursor + todo + 1 .. write_cursor + FrameLength \subseteq DOMAIN mem
      /\ structure_end \in Int /\ write_cursor \in Int
      /\ \/ current_base <= write_cursor
         \/ write_cursor + FrameLength < 0
  BY ClosingFacts DEF Inv, Written, TypeOK, CopyWord, InstallRest, Closing
<1>1. PICK w : w = mem[current_base + todo]
  OBVIOUS
<1>2. w \in Words
  <2>1. current_base + todo \in 0 .. stack_top - 1
    BY <1>0
  <2>2. QED
    BY <1>0, <1>1, <2>1 DEF Inv, TypeOK
<1>3. PICK v : v = IF IsElement(current_structure_tag, todo)
                   THEN Relocate(w) ELSE w
  OBVIOUS
<1>4. /\ mem' = Store(mem, At(write_cursor + todo, v))
      /\ write_cursor' = write_cursor /\ structure_end' = structure_end
      /\ current_base' = current_base
      /\ current_structure_tag' = current_structure_tag
  BY <1>1, <1>3 DEF CopyWord, MoveWord, InstallRest, write_cursor,
                    structure_end
<1>5. /\ mem'[write_cursor + todo] = v
      /\ \A a \in DOMAIN mem : a # write_cursor + todo => mem'[a] = mem[a]
  BY <1>4 DEF Store, At
<1>6. ASSUME NEW i \in 1 .. FrameLength
      PROVE  FrameWord(i)' = FrameWord(i)
  <2>1. CASE i < todo
    <3>1. i <= todo /\ i <= todo'
      BY <1>0, <2>1
    <3>2. current_base + i \in 0 .. stack_top - 1
      BY <1>0
    <3>3. current_base + i # write_cursor + todo
      BY <1>0, <2>1
    <3>4. mem'[current_base + i] = mem[current_base + i]
      BY <1>0, <1>5, <3>2, <3>3
    <3>5. QED
      BY <1>4, <3>1, <3>4 DEF FrameWord
  <2>2. CASE i = todo
    <3>1. i <= todo /\ ~(i <= todo')
      BY <1>0, <2>2
    <3>2. FrameWord(i) = w
      BY <1>1, <2>2, <3>1 DEF FrameWord
    <3>3. FrameWord(i)' = IF IsElement(current_structure_tag, i)
                          THEN Unrelocate(v) ELSE v
      BY <1>4, <1>5, <2>2, <3>1 DEF FrameWord, Unrelocate, IsElement
    <3>4. QED
      BY <1>0, <1>2, <1>3, <2>2, <3>2, <3>3, RelocateBack
  <2>3. CASE i > todo
    <3>1. ~(i <= todo) /\ ~(i <= todo')
      BY <1>0, <2>3
    <3>2. write_cursor + i \in DOMAIN mem /\ write_cursor + i # write_cursor + todo
      BY <1>0, <2>3
    <3>3. mem'[write_cursor + i] = mem[write_cursor + i]
      BY <1>5, <3>2
    <3>4. QED
      BY <1>4, <3>1, <3>3 DEF FrameWord, Unrelocate, IsElement
  <2>4. QED
    BY <1>0, <2>1, <2>2, <2>3
<1>7. QED
  <2>1. FrameLength' = FrameLength
    BY DEF CopyWord, InstallRest, FrameLength
  <2>2. QED
    BY <1>6 DEF FrameKept

\* The length goes below all of them.
LEMMA StoreLengthKeepsFrame ==
    ASSUME Inv, StoreLength
    PROVE  FrameKept
<1>0. /\ pc \in Closing /\ todo = 0 /\ todo' = 0
      /\ FrameLength \in Nat /\ write_cursor \in Int
      /\ write_cursor + 1 .. write_cursor + FrameLength \subseteq DOMAIN mem
  BY ClosingFacts DEF Inv, Written, TypeOK, StoreLength, Closing
<1>1. /\ \A a \in DOMAIN mem : a # write_cursor => mem'[a] = mem[a]
      /\ write_cursor' = write_cursor /\ structure_end' = structure_end
      /\ current_base' = current_base
      /\ current_structure_tag' = current_structure_tag
  BY DEF StoreLength, Store, At, write_cursor, structure_end
<1>2. ASSUME NEW i \in 1 .. FrameLength
      PROVE  FrameWord(i)' = FrameWord(i)
  <2>1. mem'[write_cursor + i] = mem[write_cursor + i]
    BY <1>0, <1>1
  <2>2. QED
    BY <1>0, <1>1, <2>1 DEF FrameWord, Unrelocate, IsElement
<1>3. QED
  BY <1>2 DEF FrameKept

\* One round of the install loop.
LEMMA CopyWordInv ==
    ASSUME Inv, CopyWord
    PROVE  SafeStep
<1>1. pc = "install" /\ todo # 0 /\ pc' = "install" /\ todo' = todo - 1
  BY DEF CopyWord, InstallRest, Inv, TypeOK
<1>2. todo \in 0 .. FrameLength /\ current_base + todo \in DOMAIN mem
  BY <1>1, ClosingFacts
  DEF Inv, Written, Closing, TypeOK, FrameLength, CopyWord
<1>3. PICK w : w = mem[current_base + todo]
  OBVIOUS
<1>4. w \in Words
  BY <1>2, <1>3 DEF Inv, TypeOK
<1>5. Relocate(w) \in Words
  BY <1>1, <1>4, ClosingFacts DEF Relocate, Element, Words, Closing, Inv,
                                  TypeOK
<1>6. PICK v \in Words : mem' = Store(mem, At(write_cursor + todo, v))
  BY <1>3, <1>4, <1>5 DEF CopyWord, MoveWord
<1>7. Inv' /\ StackKept /\ FinishedKept
  BY <1>1, <1>2, <1>6, InstallWordInv DEF CopyWord, InstallRest
<1>8. QED
  BY <1>7, CopyWordKeepsFrame DEF SafeStep

\* The length of the structure, below its words.
LEMMA StoreLengthInv ==
    ASSUME Inv, StoreLength
    PROVE  SafeStep
<1>1. FrameLength \in Nat
  BY ClosingFacts DEF StoreLength, Closing
<1>2. LengthWord(current_structure_tag, FrameLength) \in Words
  BY <1>1 DEF LengthWord, MembersOf, Raw, Words
<1>3. write_cursor + 0 = write_cursor
  BY ClosingFacts DEF StoreLength, Closing, Inv, TypeOK
<1>4. Inv' /\ StackKept /\ FinishedKept
  BY <1>1, <1>2, <1>3, InstallWordInv DEF StoreLength
<1>5. QED
  BY <1>4, StoreLengthKeepsFrame DEF SafeStep

\* pop, of the root.
LEMMA PopRootInv ==
    ASSUME Inv, PopRoot
    PROVE  SafeStep
<1>1. TypeOK'
  BY DEF Inv, TypeOK, PopRoot, Labels, Errors
<1>2. AstWritten'
  BY DEF Inv, Written, AstWritten, InstalledFrom, PopRoot, Closing,
         write_cursor, structure_end
<1>3. StackKept /\ FinishedKept /\ FrameKept
  BY DEF StackKept, FinishedKept, FrameKept, PopRoot
<1>4. QED
  BY <1>1, <1>2, <1>3
  DEF SafeStep, PopRoot, Inv, Untouched, Headers, Written, LabelsAgree,
      BufferGiven, WordsPaidFor, BuffersNeverMeet, ObjectRecords,
      WritesInBounds, AstWritten, Running, Opened, Closing, BufferWords,
      write_cursor, structure_end

\* pop, of a nested structure: its frame gives way to one element on the
\* frame that encloses it, whose header is one of those below.
LEMMA PopNestedInv ==
    ASSUME Inv, PopNested
    PROVE  SafeStep
<1> USE DEF Inv
<1>a. /\ pc = "pop" /\ pc' = "structure_close_or_comma"
      /\ pop_element.val # RootMarker
      /\ ~NoRoom(current_base, write_offset, 1)
      /\ mem' = Store(mem, At(current_base, Element(current_structure_tag,
                                                   write_offset)))
      /\ stack_top' = current_base + 1
      /\ current_base' = pop_element.val
      /\ current_structure_tag' = pop_element.tag
      /\ input_length' = input_length /\ p' = p
      /\ write_offset' = write_offset /\ pop_element' = pop_element
      /\ todo' = todo /\ root_tag' = root_tag /\ error' = error
  BY DEF PopNested, PopTo
<1> HIDE DEF PopNested
<1>0. /\ pc' \in Opened /\ pc' \notin Closing /\ pc' \in Labels /\ pc \in Closing
      /\ structure_end' = structure_end
      /\ write_cursor' = write_cursor
      /\ input_length \in Nat
      /\ Element(current_structure_tag, write_offset) \in Words
  BY <1>a, SizesAssumption
  DEF Opened, Closing, Labels, Running, structure_end, write_cursor, TypeOK,
      Element, Words, ValueTags
<1>1. /\ structure_end \in Int
      /\ write_cursor = structure_end - write_offset
      /\ FrameLength \in Nat
      /\ stack_top = current_base + 1 + FrameLength
      /\ 0 .. stack_top - 1 \subseteq DOMAIN mem
      /\ write_cursor + FrameLength < structure_end
      /\ \/ Strategy # "dynamic" /\ current_base <= write_cursor
         \/ Strategy = "dynamic" /\ structure_end = 0
      /\ Strategy # "dynamic" => structure_end <= BufferWords
  BY <1>0, ClosingFacts
<1>2. PICK B \in SUBSET (0 .. current_base) : HeadersAt(B)
  BY <1>0 DEF Headers
<1>3. PICK parent \in B :
        /\ pop_element.val = parent
        /\ parent < current_base
        /\ pop_element.tag \in StructureTags
        /\ pop_element.tag = "object" => (current_base - parent) % 3 = 0
  BY <1>a, <1>0, <1>2 DEF HeadersAt, Header, TypeOK
<1>b. parent \in 0 .. current_base /\ current_base' = parent
  BY <1>a, <1>2, <1>3
<1>4. /\ DOMAIN mem' = DOMAIN mem
      /\ \A a \in DOMAIN mem' : mem'[a] \in Words
      /\ \A a \in DOMAIN mem : a # current_base => mem'[a] = mem[a]
  <2>1. DOMAIN mem' = DOMAIN mem \cup {current_base}
    BY <1>a DEF Store, At
  <2>2. \A a \in DOMAIN mem' :
            mem'[a] = IF a = current_base
                      THEN Element(current_structure_tag, write_offset)
                      ELSE mem[a]
    BY <1>a DEF Store, At
  <2>3. current_base \in DOMAIN mem
    BY <1>1 DEF TypeOK
  <2>4. QED
    BY <1>0, <2>1, <2>2, <2>3 DEF TypeOK
<1>5. TypeOK'
  BY <1>a, <1>0, <1>2, <1>b, <1>3, <1>4 DEF TypeOK
<1>6. Untouched' /\ LabelsAgree' /\ BufferGiven'
  BY <1>a, <1>0 DEF Untouched, LabelsAgree, BufferGiven, Running, Closing
<1>7. Headers'
  <2>1. PICK C : C = {b \in B : b <= parent}
    OBVIOUS
  <2>0. C \in SUBSET (0 .. parent) /\ parent \in C
    <3>1. parent \in Nat /\ parent \in B /\ current_base \in Nat
      BY <1>b, <1>3 DEF TypeOK
    <3>2. \A b \in B : b \in Nat
      BY <1>2, <3>1
    <3>3. \A b \in C : b \in Nat /\ b <= parent
      BY <2>1, <3>2
    <3>4. \A b \in C : b \in 0 .. parent
      BY <3>1, <3>3
    <3>5. parent \in C
      BY <2>1, <3>1
    <3>6. QED
      BY <3>4, <3>5
  <2>2. C \in SUBSET (0 .. current_base') /\ current_base' \in C
    BY <1>b, <2>0
  <2>3. \A b \in C : b < current_base /\ Header(B, mem[b], b) /\ mem'[b] = mem[b]
    BY <1>1, <1>2, <1>b, <1>3, <1>4, <2>1 DEF HeadersAt, TypeOK
  <2>4. ASSUME NEW b \in C PROVE Header(C, mem'[b], b)
    <3>1. PICK w : w = mem'[b] /\ Header(B, w, b)
      BY <2>3
    <3>2. CASE w.val = RootMarker
      BY <3>1, <3>2 DEF Header
    <3>3. CASE w.val \in B /\ w.val < b
      <4>1. PICK v \in B : v = w.val /\ v < b
        BY <3>3
      <4>2. v \in C
        <5>1. v \in Int /\ b \in Int /\ parent \in Int /\ b <= parent
          BY <1>2, <1>b, <2>1 DEF TypeOK
        <5>2. v <= parent
          BY <4>1, <5>1
        <5>3. QED
          BY <2>1, <4>1, <5>2
      <4>3. QED
        BY <3>1, <3>3, <4>1, <4>2 DEF Header
    <3>4. QED
      BY <3>1, <3>2, <3>3 DEF Header
  <2>5. HeadersAt(C)'
    BY <1>a, <1>0, <1>b, <2>2, <2>4 DEF HeadersAt
  <2>6. QED
    BY <2>2, <2>5 DEF Headers
<1>8. Written'
  BY <1>a, <1>0, <1>1, <1>2, <1>b, <1>3, <1>4
  DEF Written, InstalledFrom, TypeOK, Closing
<1>9. WordsPaidFor' /\ BuffersNeverMeet'
  BY <1>a, <1>0, <1>1, SizesAssumption
  DEF WordsPaidFor, BuffersNeverMeet, NoRoom, TypeOK, structure_end
<1>10. ObjectRecords'
  <2>1. FrameLength' = current_base - parent
    BY <1>a, <1>2, <1>b, <1>3 DEF FrameLength, TypeOK
  <2>2. QED
    BY <1>a, <1>b, <1>3, <2>1 DEF ObjectRecords
<1>11. WritesInBounds'
  BY <1>a, <1>4 DEF WritesInBounds, BufferWords
<1>12. AstWritten'
  BY <1>a DEF AstWritten
<1>13. StackKept /\ FinishedKept /\ FrameKept
  <2>1. StackKept
    BY <1>a, <1>1, <1>4 DEF StackKept, TypeOK, Opened
  <2>2. Doomed' \/ current_base < write_cursor \/ Strategy = "dynamic"
    BY <1>a, <1>0, <1>1, SizesAssumption, StrategyAssumption
    DEF Doomed, WordsPaidFor, BuffersNeverMeet, TypeOK, structure_end,
        Strategies
  <2>3. \A a \in write_cursor .. structure_end - 1 :
            a \in DOMAIN mem /\ (Doomed' \/ a # current_base)
    BY <1>a, <1>0, <1>1, <2>2
    DEF Written, InstalledFrom, TypeOK, structure_end
  <2>4. FinishedKept /\ FrameKept
    BY <1>a, <1>4, <2>3 DEF FinishedKept, FrameKept, InstalledFrom
  <2>5. QED
    BY <2>1, <2>4
<1>14. QED
  BY <1>5, <1>6, <1>7, <1>8, <1>9, <1>10, <1>11, <1>12, <1>13 DEF SafeStep

-----------------------------------------------------------------------------

\* What Inv gives at a label where a byte is read: the paid words, and where
\* the frame of an object stands.
LEMMA OpenedFacts ==
    ASSUME Inv, pc \in Opened, NEW r \in NonSpace(p)
    PROVE  /\ r \in p .. input_length - 1
           /\ stack_top + write_offset <= r + 1
           /\ pc \in {"object_key", "expect_colon", "next_element"} =>
                 stack_top + write_offset <= r
  BY SizesAssumption DEF Inv, NonSpace, TypeOK, WordsPaidFor, Opened

\* After an opening bracket, which is at p, a byte further on is read.
LEMMA AfterBracketFacts ==
    ASSUME Inv, pc \in {"array_close_or_element", "object_close_or_element"},
           NEW r \in NonSpace(p + 1)
    PROVE  /\ r \in p .. input_length - 1
           /\ stack_top + write_offset <= r
  BY SizesAssumption DEF Inv, NonSpace, TypeOK, WordsPaidFor

\* Every step of the parser is safe.
LEMMA NextInv ==
    ASSUME Inv, [Next]_vars
    PROVE  SafeStep
<1>0. ASSUME NEW code \in Errors, OnlySpaceLeft(code) PROVE SafeStep
  BY <1>0, RejectInv DEF OnlySpaceLeft
<1>1. CASE MakeAllocator
  BY <1>1, MakeAllocatorInv
<1>2. CASE ParseRoot
  <2>1. CASE OnlySpaceLeft("MISSING_ROOT_ELEMENT") \/ Reject("BAD_ROOT")
    BY <1>0, <2>1, RejectInv DEF Errors
  <2>2. ASSUME NEW r \in NonSpace(p), NEW t \in StructureTags,
               OpenStructure(r, t, Element(t, RootMarker))
        PROVE  SafeStep
    <3>1. pc = "parse"
      BY <1>2 DEF ParseRoot
    <3>2. /\ r \in p .. input_length - 1
          /\ stack_top + write_offset <= r
      BY <2>2, <3>1, SizesAssumption DEF Inv, Untouched, NonSpace, TypeOK
    <3>3. QED
      BY <2>2, <3>1, <3>2, OpenStructureInv
  <2>3. QED
    BY <1>2, <2>1, <2>2 DEF ParseRoot
<1>3. CASE ArrayCloseOrElement
  <2>1. /\ pc = "array_close_or_element" /\ pc \in Opened
        /\ current_structure_tag = "array"
    BY <1>3 DEF ArrayCloseOrElement, Opened, Inv, LabelsAgree
  <2>2. ASSUME NEW r \in NonSpace(p + 1), CloseStructure(r)
        PROVE  SafeStep
    <3>1. /\ r \in p .. input_length - 1
          /\ stack_top + write_offset <= r + 1
      BY <2>1, AfterBracketFacts, SizesAssumption DEF Inv, TypeOK
    <3>2. QED
      BY <2>1, <2>2, <3>1, CloseStructureInv
  <2>3. ASSUME NEW r \in NonSpace(p + 1), Switch(r)
        PROVE  SafeStep
    BY <2>1, <2>3, AfterBracketFacts, SwitchInv
  <2>4. QED
    BY <1>0, <1>3, <2>2, <2>3 DEF ArrayCloseOrElement, Errors
<1>4. CASE ObjectCloseOrElement
  <2>1. /\ pc = "object_close_or_element" /\ pc \in Opened
        /\ current_structure_tag = "object" /\ FrameLength % 3 = 0
    BY <1>4 DEF ObjectCloseOrElement, Opened, Inv, LabelsAgree, ObjectRecords
  <2>2. ASSUME NEW r \in NonSpace(p + 1), CloseStructure(r)
        PROVE  SafeStep
    <3>1. /\ r \in p .. input_length - 1
          /\ stack_top + write_offset <= r + 1
      BY <2>1, AfterBracketFacts, SizesAssumption DEF Inv, TypeOK
    <3>2. QED
      BY <2>1, <2>2, <3>1, CloseStructureInv
  <2>3. ASSUME NEW r \in NonSpace(p + 1), KeyAt(r)
        PROVE  SafeStep
    BY <2>1, <2>3, AfterBracketFacts, KeyAtInv
  <2>4. QED
    BY <1>0, <1>4, <2>2, <2>3 DEF ObjectCloseOrElement, Errors
<1>5. CASE StructureCloseOrComma
  <2>1. /\ pc = "structure_close_or_comma" /\ pc \in Opened
        /\ current_structure_tag = "object" => FrameLength % 3 = 0
        /\ current_structure_tag \in StructureTags
    BY <1>5 DEF StructureCloseOrComma, Opened, Inv, ObjectRecords, TypeOK
  <2>2. ASSUME NEW r \in NonSpace(p), CloseStructure(r)
        PROVE  SafeStep
    BY <2>1, <2>2, OpenedFacts, CloseStructureInv
  <2>3. ASSUME NEW r \in NonSpace(p),
               Skip(r, AfterComma(current_structure_tag))
        PROVE  SafeStep
    <3>1. CASE current_structure_tag = "array"
      BY <2>1, <2>3, <3>1, OpenedFacts, SkipInv DEF AfterComma
    <3>2. CASE current_structure_tag = "object"
      BY <2>1, <2>3, <3>2, OpenedFacts, SkipInv DEF AfterComma
    <3>3. QED
      BY <2>1, <3>1, <3>2 DEF StructureTags
  <2>4. QED
    BY <1>0, <1>5, <2>2, <2>3, RejectInv DEF StructureCloseOrComma, Errors
<1>6. CASE ObjectKey
  <2>1. /\ pc = "object_key" /\ pc \in Opened
        /\ current_structure_tag = "object" /\ FrameLength % 3 = 0
    BY <1>6 DEF ObjectKey, Opened, Inv, LabelsAgree, ObjectRecords
  <2>2. ASSUME NEW r \in NonSpace(p), KeyAt(r) PROVE SafeStep
    BY <2>1, <2>2, OpenedFacts, KeyAtInv
  <2>3. QED
    BY <1>0, <1>6, <2>2 DEF ObjectKey, Errors
<1>7. CASE ExpectColon
  <2>1. /\ pc = "expect_colon" /\ pc \in Opened
        /\ current_structure_tag = "object" /\ FrameLength % 3 = 2
    BY <1>7 DEF ExpectColon, Opened, Inv, LabelsAgree, ObjectRecords
  <2>2. ASSUME NEW r \in NonSpace(p), Skip(r, "next_element") PROVE SafeStep
    BY <2>1, <2>2, OpenedFacts, SkipInv
  <2>3. QED
    BY <1>7, <2>2, RejectInv DEF ExpectColon, Errors
<1>8. CASE NextElement
  <2>1. /\ pc = "next_element" /\ pc \in Opened
        /\ current_structure_tag = "object" => FrameLength % 3 = 2
    BY <1>8 DEF NextElement, Opened, Inv, ObjectRecords
  <2>2. ASSUME NEW r \in NonSpace(p), Switch(r) PROVE SafeStep
    BY <2>1, <2>2, OpenedFacts, SwitchInv
  <2>3. QED
    BY <1>0, <1>8, <2>2 DEF NextElement, Errors
<1>9. CASE CopyWord \/ StoreLength \/ PopRoot \/ PopNested
  BY <1>9, CopyWordInv, StoreLengthInv, PopRootInv, PopNestedInv
<1>10. CASE UNCHANGED vars
  BY <1>10
  DEF vars, SafeStep, StackKept, FinishedKept, FrameKept, FrameWord,
      Unrelocate, IsElement, Inv, TypeOK, Untouched, Headers, HeadersAt,
      Written, LabelsAgree, BufferGiven, WordsPaidFor, BuffersNeverMeet,
      ObjectRecords, WritesInBounds, AstWritten, InstalledFrom, FrameLength,
      BufferWords, write_cursor, structure_end
<1>11. QED
  BY <1>1, <1>2, <1>3, <1>4, <1>5, <1>6, <1>7, <1>8, <1>9, <1>10 DEF Next

\* The invariant holds in every state of the parser.
THEOREM Invariance == Spec => []Inv
<1>1. Init => Inv
  BY InitInv
<1>2. Inv /\ [Next]_vars => Inv'
  BY NextInv DEF SafeStep
<1>3. QED
  BY <1>1, <1>2, PTL DEF Spec

-----------------------------------------------------------------------------

\* Every variable keeps its type, and the parser never leaves the input.
THEOREM TypeCorrect == Spec => []TypeOK
<1>1. Inv => TypeOK
  BY DEF Inv
<1>2. QED
  BY <1>1, Invariance, PTL

\* single_allocation and bounded_allocation stay inside their buffer, the
\* first without testing anything.
THEOREM StaysInBuffer == Spec => []WritesInBounds
<1>1. Inv => WritesInBounds
  BY DEF Inv
<1>2. QED
  BY <1>1, Invariance, PTL

\* Every word in use is paid for by a byte already read.
THEOREM EveryWordIsPaidFor == Spec => []WordsPaidFor
<1>1. Inv => WordsPaidFor
  BY DEF Inv
<1>2. QED
  BY <1>1, Invariance, PTL

\* stack_top <= write_cursor, the invariant bounded_allocation states.
THEOREM StackStaysBelowAst == Spec => []BuffersNeverMeet
<1>1. Inv => BuffersNeverMeet
  BY DEF Inv
<1>2. QED
  BY <1>1, Invariance, PTL

\* install_object's assertion: the frame of an object holds whole records.
THEOREM ObjectsHoldRecords == Spec => []ObjectRecords
<1>1. Inv => ObjectRecords
  BY DEF Inv
<1>2. QED
  BY <1>1, Invariance, PTL

\* An accepted document has no AST word that was never written.
THEOREM AstIsComplete == Spec => []AstWritten
<1>1. Inv => AstWritten
  BY DEF Inv
<1>2. QED
  BY <1>1, Invariance, PTL

\* The frames of enclosing structures survive everything done inside.
THEOREM EnclosingFramesSurvive == Spec => EnclosingFramesKept
<1>1. Inv /\ [Next]_vars => [\A a \in 0 .. current_base - 1 : mem'[a] = mem[a]]_vars
  BY NextInv DEF SafeStep, StackKept
<1>2. QED
  BY <1>1, Invariance, PTL DEF Spec, EnclosingFramesKept

\* What has been installed in the AST stays, but in a parse bound to fail.
THEOREM FinishedAstSurvives == Spec => AstKept
<1>1. Inv /\ [Next]_vars =>
        [\A a \in InstalledFrom .. structure_end - 1 :
            mem'[a] = mem[a] \/ Doomed']_vars
  BY NextInv DEF SafeStep, FinishedKept
<1>2. QED
  BY <1>1, Invariance, PTL DEF Spec, AstKept

\* The overlapping back-to-front copy loses no word.
THEOREM CopyIsSafe == Spec => CopyKeepsFrame
<1>1. Inv /\ [Next]_vars =>
        [pc = "install" =>
            \A i \in 1 .. FrameLength : FrameWord(i)' = FrameWord(i)]_vars
  BY NextInv DEF SafeStep, FrameKept
<1>2. QED
  BY <1>1, Invariance, PTL DEF Spec, CopyKeepsFrame

-----------------------------------------------------------------------------
(***************************************************************************)
(* How much memory bounded_allocation needs: a buffer of three words for   *)
(* every two bytes of the input never runs out.                            *)
(*                                                                         *)
(* Closing a structure needs its frame twice, on the stack and in the AST, *)
(* so a word on the innermost frame costs two.  A byte pays for one and a  *)
(* half.  That is enough for the structure at hand (OwnFramePaid); for the *)
(* enclosing ones, whose frames are as long now as they will be when the   *)
(* structure at hand has become one element of them, each has to be able   *)
(* to pay for its copy as well (Affords).                                  *)
(***************************************************************************)

Roomy == Strategy = "bounded" /\ 2 * Capacity >= 3 * input_length

\* After a comma or a colon its byte has been read and counted; at the other
\* labels a delimiter is still to come.
Slack == IF pc \in {"next_element", "object_key"} THEN 0 ELSE 3

\* The words on the stack, once the structure being closed has become one.
StackWords == IF pc \in Closing THEN current_base + 1 ELSE stack_top

\* Closing the structure at hand takes stack_top + write_offset +
\* FrameLength + 1 words; here for it, or for the one it will be an element
\* of.
OwnFramePaid ==
    /\ pc \in Opened =>
          2 * (2 * stack_top - current_base + write_offset)
              <= 3 * p + Slack + 1
    /\ pc \in Closing /\ pop_element.val # RootMarker =>
          2 * (2 * (current_base + 1) - pop_element.val + write_offset)
              <= 3 * p + 4

\* The header w at b belongs to the root, or the structure that encloses b
\* will be able to pay when b has been closed.  B are the open headers.
Affords(B, w, b) ==
    \/ w.val = RootMarker
    \/ /\ w.val \in B
       /\ w.val < b
       /\ 2 * (b - w.val + StackWords + write_offset) <= 3 * p + Slack

FramesPaid(B) ==
    /\ current_base \in B
    /\ \A b \in B : b < current_base => Affords(B, mem[b], b)
    /\ pc \in Opened => Affords(B, mem[current_base], current_base)
    /\ pc \in Closing =>
          \/ pop_element.val = RootMarker
          \/ pop_element.val \in B /\ pop_element.val < current_base

EnclosingFramesPaid ==
    pc \in Opened \cup Closing =>
        \E B \in SUBSET (0 .. current_base) : FramesPaid(B)

Paid == OwnFramePaid /\ EnclosingFramesPaid

\* What a step has to keep.
PaidInv == Strategy = "bounded" => Paid /\ RoomyBufferSuffices
PaidStep == Paid' /\ RoomyBufferSuffices'

-----------------------------------------------------------------------------

\* Any error but the lack of memory.
LEMMA RejectPaid ==
    ASSUME Inv, RoomyBufferSuffices,
           NEW code \in Errors, Reject(code),
           Roomy => code # "OUT_OF_MEMORY"
    PROVE  PaidStep
  BY DEF PaidStep, Paid, OwnFramePaid, EnclosingFramesPaid, Reject, Opened,
         Closing, RoomyBufferSuffices, Roomy

\* Words pushed and reserved within the frame at hand, a pushed one counting
\* twice, for bytes read.
LEMMA SpendPaid ==
    ASSUME Inv, Strategy = "bounded", Paid, RoomyBufferSuffices, SafeStep,
           pc \in Opened, pc' \in Opened,
           current_base' = current_base, input_length' = input_length,
           error' = error,
           mem'[current_base] = mem[current_base],
           stack_top' >= stack_top,
           2 * (2 * (stack_top' - stack_top) + (write_offset' - write_offset))
               <= 3 * (p' - p) + Slack' - Slack
    PROVE  PaidStep
<1>0. /\ pc \notin Closing /\ pc' \notin Closing
      /\ p \in Int /\ p' \in Int /\ stack_top \in Nat /\ stack_top' \in Nat
      /\ write_offset \in Nat /\ write_offset' \in Nat /\ current_base \in Nat
      /\ Slack \in Int /\ Slack' \in Int
  BY DEF SafeStep, Inv, TypeOK, Opened, Closing, Slack
<1>1. OwnFramePaid'
  <2>1. 2 * (2 * stack_top - current_base + write_offset) <= 3 * p + Slack + 1
    BY DEF Paid, OwnFramePaid
  <2>2. 2 * (2 * stack_top' - current_base + write_offset')
            <= 3 * p' + Slack' + 1
    <3>1. PICK s \in Nat, w \in Nat, q \in Int, k \in Int :
              s = stack_top' /\ w = write_offset' /\ q = p' /\ k = Slack'
      BY <1>0
    <3>2. 2 * (2 * (s - stack_top) + (w - write_offset)) <= 3 * (q - p) + k - Slack
      BY <3>1
    <3>3. 2 * (2 * s - current_base + w) <= 3 * q + k + 1
      BY <1>0, <2>1, <3>2
    <3> QED
      BY <3>1, <3>3
  <2> QED
    BY <1>0, <2>2 DEF OwnFramePaid
<1>2. PICK B \in SUBSET (0 .. current_base) : FramesPaid(B)
  BY DEF Paid, EnclosingFramesPaid
<1>3. \A b \in B : b \in 0 .. current_base /\ mem'[b] = mem[b]
  <2>1. \A b \in 0 .. current_base :
            b = current_base \/ b \in 0 .. current_base - 1
    BY <1>0
  <2>2. \A b \in 0 .. current_base : mem'[b] = mem[b]
    BY <2>1 DEF SafeStep, StackKept
  <2>3. QED
    BY <1>2, <2>2
<1>4. StackWords = stack_top /\ StackWords' = stack_top'
  BY <1>0 DEF StackWords
<1>5. ASSUME NEW b \in B, Affords(B, mem[b], b)
      PROVE  Affords(B, mem[b], b)'
  <2>1. PICK w : w = mem[b] /\ w = mem'[b]
    BY <1>3
  <2>2. CASE w.val = RootMarker
    BY <2>1, <2>2 DEF Affords
  <2>3. CASE /\ w.val \in B
             /\ w.val < b
             /\ 2 * (b - w.val + stack_top + write_offset) <= 3 * p + Slack
    <3>1. PICK h \in 0 .. current_base : h = w.val
      BY <1>3, <2>3
    <3>2. 2 * (b - h + stack_top' + write_offset') <= 3 * p' + Slack'
      BY <1>0, <1>3, <2>3, <3>1
    <3>3. QED
      BY <1>4, <2>1, <2>3, <3>1, <3>2 DEF Affords
  <2>4. QED
    BY <1>4, <1>5, <2>1, <2>2, <2>3 DEF Affords
<1>6. FramesPaid(B)'
  BY <1>0, <1>2, <1>3, <1>5 DEF FramesPaid
<1>7. EnclosingFramesPaid'
  BY <1>2, <1>6 DEF EnclosingFramesPaid
<1>8. QED
  BY <1>1, <1>7 DEF PaidStep, Paid, RoomyBufferSuffices

\* Reading a token at r when the words in use are paid for by the bytes before
\* it: there is room for its words and for its element.
Due(r) == 3 * p + Slack <= 3 * r

LEMMA RoomForToken ==
    ASSUME Inv, Paid, Roomy, pc \in Opened,
           NEW r \in p .. input_length - 1, Due(r)
    PROVE  /\ ~NoRoom(stack_top, write_offset, 1)
           /\ ~NoRoom(stack_top, write_offset, 2)
           /\ \A k \in {0, 1} : ~NoRoom(stack_top, write_offset + k, 1)
           /\ r + 2 <= input_length => ~NoRoom(stack_top, write_offset + 2, 1)
<1>1. /\ p \in Nat /\ r \in Nat /\ input_length \in Nat /\ Capacity \in Nat
      /\ stack_top \in Nat /\ write_offset \in Nat /\ current_base \in Nat
      /\ current_base < stack_top /\ Slack \in Int
  BY SizesAssumption DEF Inv, TypeOK, Written, Slack
<1>2. 2 * (stack_top + write_offset + 1) <= 3 * r + 1
  BY <1>1 DEF Paid, OwnFramePaid, Due
<1>3. stack_top + write_offset + 2 <= Capacity
  BY <1>1, <1>2 DEF Roomy
<1>4. r + 2 <= input_length => stack_top + write_offset + 3 <= Capacity
  BY <1>1, <1>2 DEF Roomy
<1>5. QED
  BY <1>1, <1>3, <1>4 DEF NoRoom

\* A value of k words read up to q, w bytes after r, where those bytes pay
\* for its words and, but for two thirds of a byte, for its element.
LEMMA PushValuePaid ==
    ASSUME Inv, Strategy = "bounded", Paid, RoomyBufferSuffices, SafeStep,
           pc \in Opened,
           NEW r \in p .. input_length - 1, Due(r),
           NEW t \in ValueTags,
           NEW q \in r .. input_length,
           NEW k \in Nat,
           NEW words \in [write_cursor - k .. write_cursor - 1 -> Words],
           2 * k + 1 <= 3 * (q - r),
           Roomy => ~NoRoom(stack_top, write_offset + k, 1),
           PushValue(t, q, words, write_offset + k)
    PROVE  PaidStep
<1>1. CASE /\ \/ NoRoom(stack_top, write_offset + k, 1)
              \/ GrowthFails(stack_top, stack_top + 1)
           /\ Reject("OUT_OF_MEMORY")
  BY <1>1, RejectPaid DEF GrowthFails, Errors
<1>2. CASE /\ mem' = Store(Store(mem, words),
                           At(stack_top, Element(t, write_offset + k)))
           /\ stack_top' = stack_top + 1
           /\ write_offset' = write_offset + k
           /\ p' = q
           /\ pc' = "structure_close_or_comma"
           /\ UNCHANGED <<input_length, current_base, current_structure_tag,
                          pop_element, todo, root_tag, error>>
  <2>1. /\ p \in Nat /\ r \in Nat /\ q \in Nat /\ k \in Nat
        /\ stack_top \in Nat /\ write_offset \in Nat /\ current_base \in Nat
        /\ current_base < stack_top /\ Slack \in Int /\ Slack' = 3
        /\ pc' \in Opened /\ Capacity \in Nat
        /\ current_base \in DOMAIN mem
    BY <1>2, SizesAssumption DEF Inv, TypeOK, Written, Slack, Opened
  <2>0. /\ write_cursor = Capacity - write_offset
        /\ write_cursor' = write_cursor - k
    BY <1>2, <2>1 DEF write_cursor, structure_end
  <2>2. stack_top + 1 <= write_cursor - k
    BY <1>2, <2>0, <2>1 DEF SafeStep, Inv, BuffersNeverMeet
  <2>3. mem'[current_base] = mem[current_base]
    <3>1. current_base # stack_top
      BY <2>1
    <3>2. current_base \notin write_cursor - k .. write_cursor - 1
      BY <2>0, <2>1, <2>2
    <3>3. QED
      BY <1>2, <2>1, <3>1, <3>2 DEF Store, At
  <2>4. 2 * (2 * (stack_top' - stack_top) + (write_offset' - write_offset))
            <= 3 * (p' - p) + Slack' - Slack
    BY <1>2, <2>1 DEF Due
  <2>5. stack_top' >= stack_top
    BY <1>2, <2>1
  <2>6. QED
    BY <1>2, <2>1, <2>3, <2>4, <2>5, SpendPaid
<1>3. QED
  BY <1>1, <1>2 DEF PushValue

\* The bracket at r, of a structure in another: its header is charged to the
\* enclosing frame, and the room for the copy of that frame to its bytes.
LEMMA OpenNestedPaid ==
    ASSUME Inv, Strategy = "bounded", Paid, RoomyBufferSuffices, SafeStep,
           pc \in Opened,
           NEW r \in p .. input_length - 1, Due(r),
           NEW t \in StructureTags,
           OpenStructure(r, t, Element(current_structure_tag, current_base))
    PROVE  PaidStep
<1>1. CASE /\ \/ NoRoom(stack_top, write_offset, 1)
              \/ GrowthFails(stack_top, stack_top + 1)
           /\ Reject("OUT_OF_MEMORY")
  BY <1>1, RejectPaid, RoomForToken DEF GrowthFails, Errors
<1>2. CASE /\ mem' = Store(mem, At(stack_top,
                               Element(current_structure_tag, current_base)))
           /\ current_base' = stack_top
           /\ stack_top' = stack_top + 1
           /\ current_structure_tag' = t
           /\ p' = r
           /\ pc' = AfterOpening(t)
           /\ UNCHANGED <<input_length, write_offset, pop_element, todo,
                          root_tag, error>>
  <2>1. /\ p \in Nat /\ r \in Nat /\ stack_top \in Nat /\ write_offset \in Nat
        /\ current_base \in Nat /\ current_base < stack_top
        /\ 0 .. stack_top - 1 \subseteq DOMAIN mem
        /\ Slack \in Int /\ Slack' = 3
        /\ pc \notin Closing /\ pc' \notin Closing /\ pc' \in Opened
    BY <1>2, SizesAssumption
    DEF Inv, TypeOK, Written, Slack, Opened, Closing, AfterOpening
  <2>2. 2 * (2 * stack_top - current_base + write_offset) <= 3 * r + 1
    BY <2>1 DEF Paid, OwnFramePaid, Due
  <2>3. OwnFramePaid'
    BY <1>2, <2>1, <2>2 DEF OwnFramePaid
  <2>4. PICK B \in SUBSET (0 .. current_base) : FramesPaid(B)
    BY DEF Paid, EnclosingFramesPaid
  <2>0. PICK s \in Nat : s = stack_top
    BY <2>1
  <2>5. PICK C : C = B \cup {s}
    OBVIOUS
  <2>6. C \in SUBSET (0 .. stack_top)
    BY <2>0, <2>1, <2>4, <2>5
  <2>7. StackWords = stack_top /\ StackWords' = stack_top + 1
    BY <1>2, <2>1 DEF StackWords
  <2>8. \A a \in 0 .. current_base : a < stack_top /\ mem'[a] = mem[a]
    BY <1>2, <2>1 DEF Store, At
  <2>9. mem'[stack_top] = Element(current_structure_tag, current_base)
    BY <1>2 DEF Store, At
  <2>10. Affords(C, mem[s], s)'
    <3>0. PICK h \in Nat : h = current_base
      BY <2>1
    <3>1. 2 * (s - h + (s + 1) + write_offset) <= 3 * r + 3
      BY <2>0, <2>1, <2>2, <3>0
    <3>2. h \in C /\ h < s
      BY <2>0, <2>1, <2>4, <2>5, <3>0 DEF FramesPaid
    <3>3. mem'[s].val = h
      BY <2>0, <2>9, <3>0 DEF Element
    <3>4. /\ StackWords' = s + 1 /\ write_offset' = write_offset
          /\ p' = r /\ Slack' = 3
      BY <1>2, <2>0, <2>1, <2>7
    <3>5. QED
      BY <3>1, <3>2, <3>3, <3>4 DEF Affords
  <2>11. ASSUME NEW b \in B
         PROVE  Affords(C, mem[b], b)'
    <3>1. PICK w : w = mem[b] /\ w = mem'[b] /\ b \in 0 .. current_base
      BY <2>4, <2>8
    <3>2. Affords(B, w, b)
      <4>1. b < current_base \/ b = current_base
        BY <2>1, <3>1
      <4>2. QED
        BY <2>4, <3>1, <4>1 DEF FramesPaid
    <3>3. CASE w.val = RootMarker
      BY <3>1, <3>3 DEF Affords
    <3>4. CASE /\ w.val \in B
               /\ w.val < b
               /\ 2 * (b - w.val + stack_top + write_offset) <= 3 * p + Slack
      <4>1. PICK h \in 0 .. current_base : h = w.val
        BY <2>4, <3>4
      <4>2. 2 * (b - h + (stack_top + 1) + write_offset) <= 3 * r + 3
        BY <2>1, <3>1, <3>4, <4>1 DEF Due
      <4>3. QED
        BY <1>2, <2>1, <2>5, <2>7, <3>1, <3>4, <4>1, <4>2 DEF Affords
    <3>5. QED
      BY <2>7, <3>2, <3>3, <3>4 DEF Affords
  <2>12. FramesPaid(C)'
    <3>1. current_base' = s /\ s \in C
      BY <1>2, <2>0, <2>5
    <3>2. \A b \in C : b = s \/ b \in B
      BY <2>5
    <3>3. QED
      BY <2>1, <2>10, <2>11, <3>1, <3>2 DEF FramesPaid
  <2>13. EnclosingFramesPaid'
    BY <1>2, <2>6, <2>12 DEF EnclosingFramesPaid
  <2>14. QED
    BY <1>2, <2>3, <2>13 DEF PaidStep, Paid, RoomyBufferSuffices
<1>3. QED
  BY <1>1, <1>2 DEF OpenStructure

\* A key: two words on the stack, and two quotes in the input.
LEMMA KeyAtPaid ==
    ASSUME Inv, Strategy = "bounded", Paid, RoomyBufferSuffices, SafeStep,
           pc \in Opened,
           NEW r \in p .. input_length - 1, Due(r),
           KeyAt(r)
    PROVE  PaidStep
<1>1. CASE \E e \in Errors \ {"OUT_OF_MEMORY"} : Reject(e)
  BY <1>1, RejectPaid
<1>2. CASE /\ \/ NoRoom(stack_top, write_offset, 2)
              \/ GrowthFails(stack_top, stack_top + 2)
           /\ Reject("OUT_OF_MEMORY")
  BY <1>2, RejectPaid, RoomForToken DEF GrowthFails, Errors
<1>3. CASE \E q \in StringEnds(r) : \E e \in DecodedEnds(r, q) :
              /\ mem' = Store(mem, Pair(stack_top, Raw(r + 1), Raw(e)))
              /\ stack_top' = stack_top + 2
              /\ p' = q
              /\ pc' = "expect_colon"
              /\ UNCHANGED <<input_length, write_offset, current_base,
                             current_structure_tag, pop_element, todo,
                             root_tag, error>>
  <2>a. PICK q \in StringEnds(r) : \E e \in DecodedEnds(r, q) :
              /\ mem' = Store(mem, Pair(stack_top, Raw(r + 1), Raw(e)))
              /\ stack_top' = stack_top + 2
              /\ p' = q
              /\ pc' = "expect_colon"
              /\ UNCHANGED <<input_length, write_offset, current_base,
                             current_structure_tag, pop_element, todo,
                             root_tag, error>>
    BY <1>3
  <2>1. PICK e \in DecodedEnds(r, q) :
              /\ mem' = Store(mem, Pair(stack_top, Raw(r + 1), Raw(e)))
              /\ stack_top' = stack_top + 2
              /\ p' = q
              /\ pc' = "expect_colon"
              /\ UNCHANGED <<input_length, write_offset, current_base,
                             current_structure_tag, pop_element, todo,
                             root_tag, error>>
    BY <2>a
  <2>2. /\ p \in Nat /\ r \in Nat /\ stack_top \in Nat /\ write_offset \in Nat
        /\ current_base \in Nat /\ current_base < stack_top
        /\ current_base \in DOMAIN mem
        /\ Slack \in Int /\ Slack' = 3 /\ pc' \in Opened
    BY <2>1, SizesAssumption DEF Inv, TypeOK, Written, Slack, Opened
  <2>3. q \in Nat /\ q >= r + 2
    BY <2>2, StringEndsLemma DEF Inv, TypeOK
  <2>4. mem'[current_base] = mem[current_base]
    BY <2>1, <2>2 DEF Store, Pair
  <2>5. 2 * (2 * (stack_top' - stack_top) + (write_offset' - write_offset))
            <= 3 * (p' - p) + Slack' - Slack
    BY <2>1, <2>2, <2>3 DEF Due
  <2>6. stack_top' >= stack_top
    BY <2>1, <2>2
  <2>7. QED
    BY <2>1, <2>2, <2>4, <2>5, <2>6, SpendPaid
<1>4. QED
  BY <1>1, <1>2, <1>3, ErrorCodes
  DEF KeyAt, Key, Errors, StringErrorsAt, StringErrors

\* The switch of next_element, at the byte r.
LEMMA SwitchPaid ==
    ASSUME Inv, Strategy = "bounded", Paid, RoomyBufferSuffices, SafeStep,
           pc \in Opened,
           NEW r \in p .. input_length - 1, Due(r),
           Switch(r)
    PROVE  PaidStep
<1>0. /\ input_length \in Nat /\ r \in Nat /\ write_offset \in Nat
      /\ write_cursor \in Int
  BY SizesAssumption DEF Inv, TypeOK, write_cursor, structure_end
<1>1. CASE \E e \in Errors \ {"OUT_OF_MEMORY"} : Reject(e)
  BY <1>1, RejectPaid
<1>2. CASE \E t \in StructureTags :
              OpenStructure(r, t, Element(current_structure_tag, current_base))
  BY <1>2, OpenNestedPaid
<1>3. CASE \E t \in {"null", "false", "true"} :
              /\ r + LiteralWidth[t] <= input_length
              /\ PushValue(t, r + LiteralWidth[t], NoWords, write_offset)
  <2>1. PICK t \in {"null", "false", "true"} :
              /\ r + LiteralWidth[t] <= input_length
              /\ PushValue(t, r + LiteralWidth[t], NoWords, write_offset)
    BY <1>3
  <2>2. PICK q \in r + 4 .. input_length : q = r + LiteralWidth[t]
    BY <1>0, <2>1, LiteralTokens
  <2>3. /\ t \in ValueTags /\ q \in r .. input_length
        /\ 2 * 0 + 1 <= 3 * (q - r)
        /\ NoWords \in [write_cursor - 0 .. write_cursor - 1 -> Words]
    BY <1>0, <2>1, <2>2 DEF ValueTags, NoWords
  <2>4. Roomy => ~NoRoom(stack_top, write_offset + 0, 1)
    BY RoomForToken
  <2>5. PushValue(t, q, NoWords, write_offset + 0)
    BY <1>0, <2>1, <2>2
  <2>6. QED
    BY <2>3, <2>4, <2>5, PushValuePaid
<1>4. CASE Number(r)
  <2>1. PICK t \in {"integer", "double"} :
            \/ \E e \in Errors \ {"OUT_OF_MEMORY"} : Reject(e)
            \/ \E w \in {x \in NumberWidthsOf(t) : r + x < input_length} :
                  \/ PushValue(t, r + w,
                               [a \in write_cursor - NumberWords[t]
                                      .. write_cursor - 1 |-> Raw(r)],
                               write_offset + NumberWords[t])
                  \/ /\ \/ NoRoom(stack_top, write_offset, NumberWords[t])
                        \/ GrowthFails(write_offset,
                                       write_offset + NumberWords[t])
                     /\ Reject("OUT_OF_MEMORY")
    BY <1>4, ErrorCodes DEF Number, NumberErrors
  <2>2. ASSUME NEW w \in NumberWidthsOf(t), r + w < input_length,
               PushValue(t, r + w,
                         [a \in write_cursor - NumberWords[t]
                                .. write_cursor - 1 |-> Raw(r)],
                         write_offset + NumberWords[t])
        PROVE  PaidStep
    <3>1. PICK k \in Nat : /\ k = NumberWords[t] /\ k \in {1, 2} /\ k <= w
                          /\ w \in Nat /\ (k = 2 => w >= 3)
      BY NumberTokens, SizesAssumption DEF NumberWords, NumberWidthsOf
    <3>2. t \in ValueTags /\ r + w \in r .. input_length
      BY <1>0, <2>2, <3>1 DEF ValueTags
    <3>3. r + w - r = w /\ 2 * k + 1 <= 3 * w
      BY <1>0, <3>1
    <3>4. [a \in write_cursor - k .. write_cursor - 1 |-> Raw(r)]
              \in [write_cursor - k .. write_cursor - 1 -> Words]
      BY <1>0 DEF Raw, Words
    <3>5. Roomy => ~NoRoom(stack_top, write_offset + k, 1)
      BY <1>0, <2>2, <3>1, RoomForToken
    <3>6. QED
      BY <2>2, <3>1, <3>2, <3>3, <3>4, <3>5, PushValuePaid
  <2>3. ASSUME NoRoom(stack_top, write_offset, NumberWords[t]),
               Reject("OUT_OF_MEMORY")
        PROVE  PaidStep
    <3>1. NumberWords[t] \in {1, 2}
      BY SizesAssumption DEF NumberWords
    <3>2. QED
      BY <2>3, <3>1, RejectPaid, RoomForToken DEF Errors
  <2>4. QED
    BY <1>1, <2>1, <2>2, <2>3 DEF GrowthFails
<1>5. CASE String(r)
  <2>1. CASE \E q \in StringEnds(r) : \E e \in DecodedEnds(r, q) :
                PushValue("string", q,
                          Pair(write_cursor - 2, Raw(r + 1), Raw(e)),
                          write_offset + 2)
    <3>1. PICK q \in StringEnds(r) : \E e \in DecodedEnds(r, q) :
                PushValue("string", q,
                          Pair(write_cursor - 2, Raw(r + 1), Raw(e)),
                          write_offset + 2)
      BY <2>1
    <3>2. PICK e \in DecodedEnds(r, q) :
                PushValue("string", q,
                          Pair(write_cursor - 2, Raw(r + 1), Raw(e)),
                          write_offset + 2)
      BY <3>1
    <3>3. q \in r + 2 .. input_length /\ e \in Nat
      BY <1>0, StringEndsLemma DEF Inv
    <3>4. /\ "string" \in ValueTags /\ q \in r .. input_length
          /\ 2 * 2 + 1 <= 3 * (q - r)
      BY <1>0, <3>3 DEF ValueTags
    <3>5. Pair(write_cursor - 2, Raw(r + 1), Raw(e))
              \in [write_cursor - 2 .. write_cursor - 1 -> Words]
      BY <1>0, <3>3 DEF Pair, Raw, Words
    <3>6. Roomy => ~NoRoom(stack_top, write_offset + 2, 1)
      BY <1>0, <3>3, RoomForToken
    <3>7. QED
      BY <3>2, <3>4, <3>5, <3>6, PushValuePaid
  <2>2. CASE NoRoom(stack_top, write_offset, 2) /\ Reject("OUT_OF_MEMORY")
    BY <2>2, RejectPaid, RoomForToken DEF Errors
  <2>3. QED
    BY <1>1, <1>5, <2>1, <2>2, ErrorCodes
    DEF String, GrowthFails, StringErrorsAt, StringErrors, Errors
<1>6. CASE Literal(r)
  BY <1>1, <1>3, <1>6 DEF Literal, ExpectedLiteral, Errors
<1>7. QED
  BY <1>1, <1>2, <1>4, <1>5, <1>6 DEF Switch, Errors

\* A comma or colon at r.
LEMMA SkipPaid ==
    ASSUME Inv, Strategy = "bounded", Paid, RoomyBufferSuffices, SafeStep,
           pc \in Opened, pc \notin {"object_key", "next_element"},
           NEW r \in p .. input_length - 1,
           NEW label \in {"object_key", "next_element"},
           Skip(r, label)
    PROVE  PaidStep
<1>1. /\ p \in Nat /\ r \in Nat /\ stack_top \in Nat /\ write_offset \in Nat
      /\ Slack = 3 /\ Slack' = 0 /\ pc' \in Opened
  BY SizesAssumption DEF Skip, Inv, TypeOK, Slack, Opened
<1>2. 2 * (2 * (stack_top' - stack_top) + (write_offset' - write_offset))
          <= 3 * (p' - p) + Slack' - Slack
  BY <1>1 DEF Skip
<1>3. QED
  BY <1>1, <1>2, SpendPaid DEF Skip

\* The closing bracket at r pays for the copy of the frame, and for the
\* element that will stand for it.
LEMMA CloseStructurePaid ==
    ASSUME Inv, Strategy = "bounded", Paid, RoomyBufferSuffices, SafeStep,
           pc \in Opened,
           NEW r \in p .. input_length - 1,
           CloseStructure(r)
    PROVE  PaidStep
<1>0. /\ p \in Nat /\ r \in Nat /\ input_length \in Nat /\ Capacity \in Nat
      /\ stack_top \in Nat /\ write_offset \in Nat /\ current_base \in Nat
      /\ FrameLength = stack_top - current_base - 1
      /\ Slack \in 0 .. 3 /\ pc \notin Closing /\ StackWords = stack_top
  BY SizesAssumption
  DEF Inv, TypeOK, FrameLength, Slack, Opened, Closing, StackWords
<1>1. CASE /\ \/ NoRoom(stack_top, write_offset, FrameLength + 1)
              \/ GrowthFails(write_offset, write_offset + FrameLength + 1)
           /\ Reject("OUT_OF_MEMORY")
  <2>1. 2 * (2 * stack_top - current_base + write_offset) <= 3 * p + Slack + 1
    BY DEF Paid, OwnFramePaid
  <2>2. 2 * (2 * stack_top - current_base + write_offset) <= 3 * input_length + 1
    BY <1>0, <2>1
  <2>3. Roomy => 2 * stack_top - current_base + write_offset <= Capacity
    BY <1>0, <2>2 DEF Roomy
  <2>4. Roomy => ~NoRoom(stack_top, write_offset, FrameLength + 1)
    BY <1>0, <2>3 DEF NoRoom
  <2>5. QED
    BY <1>1, <2>4, RejectPaid DEF GrowthFails, Errors
<1>2. CASE /\ p' = r + 1
           /\ pop_element' = mem[current_base]
           /\ write_offset' = write_offset + FrameLength + 1
           /\ pc' = "install"
           /\ UNCHANGED <<input_length, stack_top, current_base,
                          current_structure_tag, root_tag, error>>
  <2>1. /\ pc' \notin Opened /\ pc' \in Closing /\ Slack' = 3
        /\ StackWords' = current_base + 1
        /\ write_offset' = write_offset + stack_top - current_base
    BY <1>0, <1>2 DEF Opened, Closing, Slack, StackWords
  <2>2. PICK B \in SUBSET (0 .. current_base) : FramesPaid(B)
    BY DEF Paid, EnclosingFramesPaid
  <2>3. PICK w : w = mem[current_base] /\ pop_element' = w
    BY <1>2
  <2>4. \/ w.val = RootMarker
        \/ /\ w.val \in B /\ w.val < current_base
           /\ 2 * (current_base - w.val + stack_top + write_offset)
                  <= 3 * p + Slack
    BY <1>0, <2>2, <2>3 DEF FramesPaid, Affords
  <2>5. OwnFramePaid'
    <3>1. CASE w.val = RootMarker
      BY <2>1, <2>3, <3>1 DEF OwnFramePaid
    <3>2. CASE /\ w.val \in B
               /\ 2 * (current_base - w.val + stack_top + write_offset)
                      <= 3 * p + Slack
      <4>1. PICK h \in 0 .. current_base : h = w.val
        BY <2>2, <3>2
      <4>2. 2 * (2 * (current_base + 1) - h
                    + (write_offset + stack_top - current_base))
                <= 3 * (r + 1) + 4
        BY <1>0, <3>2, <4>1
      <4>3. QED
        BY <1>2, <2>1, <2>3, <4>1, <4>2 DEF OwnFramePaid
    <3>3. QED
      BY <2>4, <3>1, <3>2
  <2>6. ASSUME NEW b \in B, b < current_base
        PROVE  Affords(B, mem[b], b)'
    <3>0. b \in 0 .. current_base - 1
      BY <1>0, <2>2, <2>6
    <3>1. PICK v : v = mem[b] /\ v = mem'[b]
      BY <3>0 DEF SafeStep, StackKept
    <3>2. Affords(B, v, b)
      BY <2>2, <2>6, <3>1 DEF FramesPaid
    <3>3. CASE v.val = RootMarker
      BY <3>1, <3>3 DEF Affords
    <3>4. CASE /\ v.val \in B /\ v.val < b
               /\ 2 * (b - v.val + stack_top + write_offset) <= 3 * p + Slack
      <4>1. PICK h \in 0 .. current_base : h = v.val
        BY <2>2, <3>4
      <4>2. 2 * (b - h + (current_base + 1)
                    + (write_offset + stack_top - current_base))
                <= 3 * (r + 1) + 3
        BY <1>0, <2>2, <3>4, <4>1
      <4>3. QED
        BY <1>2, <2>1, <3>1, <3>4, <4>1, <4>2 DEF Affords
    <3>5. QED
      BY <1>0, <3>2, <3>3, <3>4 DEF Affords
  <2>7. FramesPaid(B)'
    BY <1>2, <2>1, <2>2, <2>3, <2>4, <2>6 DEF FramesPaid
  <2>8. EnclosingFramesPaid'
    BY <1>2, <2>2, <2>7 DEF EnclosingFramesPaid
  <2>9. QED
    BY <1>2, <2>5, <2>8 DEF PaidStep, Paid, RoomyBufferSuffices
<1>3. QED
  BY <1>1, <1>2 DEF CloseStructure

\* The steps of the install loop move words that are paid for.
LEMMA InstallPaid ==
    ASSUME Inv, Paid, RoomyBufferSuffices, SafeStep,
           pc \in Closing, pc' \in Closing,
           UNCHANGED <<input_length, p, stack_top, write_offset, current_base,
                       pop_element, error>>
    PROVE  PaidStep
<1>1. pc \notin Opened /\ pc' \notin Opened /\ current_base \in Nat
      /\ Slack' = Slack /\ StackWords' = StackWords
  BY DEF Inv, TypeOK, Opened, Closing, Slack, StackWords
<1>2. OwnFramePaid'
  BY <1>1 DEF Paid, OwnFramePaid
<1>3. PICK B \in SUBSET (0 .. current_base) : FramesPaid(B)
  BY DEF Paid, EnclosingFramesPaid
<1>4. ASSUME NEW b \in B, b < current_base
      PROVE  mem'[b] = mem[b]
  <2>1. b \in 0 .. current_base - 1
    BY <1>1, <1>3, <1>4
  <2>2. QED
    BY <2>1 DEF SafeStep, StackKept
<1>5. ASSUME NEW b \in B, b < current_base
      PROVE  Affords(B, mem[b], b)'
  BY <1>1, <1>3, <1>4, <1>5 DEF FramesPaid, Affords
<1>6. FramesPaid(B)'
  BY <1>1, <1>3, <1>5 DEF FramesPaid
<1>7. QED
  BY <1>2, <1>3, <1>6
  DEF PaidStep, Paid, EnclosingFramesPaid, RoomyBufferSuffices

\* pop, of a nested structure: what was charged to the enclosing frame is now
\* its own.
LEMMA PopNestedPaid ==
    ASSUME Inv, Strategy = "bounded", Paid, RoomyBufferSuffices, SafeStep,
           PopNested
    PROVE  PaidStep
<1>1. /\ pc = "pop" /\ pc' = "structure_close_or_comma"
      /\ pop_element.val # RootMarker
      /\ stack_top' = current_base + 1
      /\ current_base' = pop_element.val
      /\ input_length' = input_length /\ p' = p
      /\ write_offset' = write_offset /\ error' = error
  BY DEF PopNested, PopTo
<1>2. /\ pc \in Closing /\ pc \notin Opened /\ pc' \in Opened
      /\ pc' \notin Closing /\ Slack = 3 /\ Slack' = 3
      /\ StackWords' = StackWords /\ current_base \in Nat
  BY <1>1 DEF Opened, Closing, Slack, StackWords, Inv, TypeOK
<1>3. PICK B \in SUBSET (0 .. current_base) : FramesPaid(B)
  BY <1>2 DEF Paid, EnclosingFramesPaid
<1>4. PICK parent \in B : pop_element.val = parent /\ parent < current_base
  BY <1>1, <1>2, <1>3 DEF FramesPaid
<1>5. PICK C : C = {b \in B : b <= parent}
  OBVIOUS
<1>6. parent \in Nat /\ parent \in C /\ C \in SUBSET (0 .. parent)
  <2>1. \A b \in B : b \in Nat
    BY <1>2, <1>3
  <2>2. parent \in Nat /\ parent \in C
    BY <1>4, <1>5, <2>1
  <2>3. \A b \in C : b \in Nat /\ b <= parent
    BY <1>5, <2>1
  <2>4. \A b \in C : b \in 0 .. parent
    BY <2>2, <2>3
  <2>5. QED
    BY <2>2, <2>4
<1>7. OwnFramePaid'
  <2>1. 2 * (2 * (current_base + 1) - parent + write_offset) <= 3 * p + 4
    BY <1>1, <1>2, <1>4 DEF Paid, OwnFramePaid
  <2>2. /\ stack_top' = current_base + 1 /\ current_base' = parent
        /\ p \in Nat /\ write_offset \in Nat
    BY <1>1, <1>4 DEF Inv, TypeOK
  <2>3. QED
    BY <1>1, <1>2, <1>6, <2>1, <2>2 DEF OwnFramePaid
<1>8. ASSUME NEW b \in C
      PROVE  Affords(C, mem[b], b)'
  <2>1. b \in Nat /\ b \in B /\ b <= parent /\ b < current_base
    BY <1>2, <1>4, <1>5, <1>6
  <2>2. PICK w : w = mem[b] /\ w = mem'[b]
    BY <1>2, <2>1 DEF SafeStep, StackKept
  <2>3. Affords(B, w, b)
    BY <1>3, <2>1, <2>2 DEF FramesPaid
  <2>4. CASE w.val = RootMarker
    BY <2>2, <2>4 DEF Affords
  <2>5. CASE w.val \in B /\ w.val < b
             /\ 2 * (b - w.val + StackWords + write_offset) <= 3 * p + Slack
    <3>1. PICK h \in B : h = w.val
      BY <2>5
    <3>2. h \in Nat
      BY <1>2, <1>3
    <3>3. h \in C
      BY <1>5, <1>6, <2>1, <2>5, <3>1, <3>2
    <3>4. QED
      BY <1>1, <1>2, <2>2, <2>5, <3>1, <3>3 DEF Affords
  <2>6. QED
    BY <2>3, <2>4, <2>5 DEF Affords
<1>9. FramesPaid(C)'
  BY <1>1, <1>2, <1>4, <1>6, <1>8 DEF FramesPaid
<1>10. EnclosingFramesPaid'
  BY <1>1, <1>4, <1>6, <1>9 DEF EnclosingFramesPaid
<1>11. QED
  BY <1>1, <1>7, <1>10 DEF PaidStep, Paid, RoomyBufferSuffices

\* The bracket of the root, at r: one word for it, and one byte read, with
\* another to come.
LEMMA ParseRootPaid ==
    ASSUME Inv, Strategy = "bounded", RoomyBufferSuffices,
           pc = "parse",
           NEW r \in p .. input_length - 1,
           NEW t \in StructureTags,
           OpenStructure(r, t, Element(t, RootMarker))
    PROVE  PaidStep
<1>0. /\ p = 0 /\ r \in Nat /\ input_length \in Nat /\ Capacity \in Nat
      /\ stack_top = 0 /\ write_offset = 0 /\ current_base = 0
  BY SizesAssumption DEF Inv, TypeOK, Untouched
<1>1. CASE /\ \/ NoRoom(stack_top, write_offset, 1)
              \/ GrowthFails(stack_top, stack_top + 1)
           /\ Reject("OUT_OF_MEMORY")
  <2>1. Roomy => ~NoRoom(stack_top, write_offset, 1)
    BY <1>0 DEF Roomy, NoRoom
  <2>2. QED
    BY <1>1, <2>1, RejectPaid DEF GrowthFails, Errors
<1>2. CASE /\ mem' = Store(mem, At(stack_top, Element(t, RootMarker)))
           /\ current_base' = stack_top
           /\ stack_top' = stack_top + 1
           /\ p' = r
           /\ pc' = AfterOpening(t)
           /\ UNCHANGED <<input_length, write_offset, pop_element, todo,
                          root_tag, error>>
  <2>1. /\ pc' \in Opened /\ pc' \notin Closing /\ Slack' = 3
        /\ current_base' = 0 /\ stack_top' = 1 /\ write_offset' = 0
        /\ mem'[0].val = RootMarker
    BY <1>0, <1>2 DEF Opened, Closing, Slack, AfterOpening, Store, At, Element
  <2>2. OwnFramePaid'
    BY <1>0, <1>2, <2>1 DEF OwnFramePaid
  <2>3. FramesPaid({0})'
    BY <2>1 DEF FramesPaid, Affords
  <2>4. {0} \in SUBSET (0 .. current_base')
    BY <2>1
  <2>5. QED
    BY <1>2, <2>2, <2>3, <2>4
    DEF PaidStep, Paid, EnclosingFramesPaid, RoomyBufferSuffices
<1>3. QED
  BY <1>1, <1>2 DEF OpenStructure

\* A byte found at r is paid for in full when it is read after a delimiter,
\* or after the opening bracket at p.
LEMMA DueBytes ==
    ASSUME Inv, NEW r \in Nat,
           \/ pc \in {"next_element", "object_key"} /\ r \in NonSpace(p)
           \/ /\ pc \in {"array_close_or_element", "object_close_or_element"}
              /\ r \in NonSpace(p + 1)
    PROVE  r \in p .. input_length - 1 /\ Due(r)
  BY SizesAssumption DEF Inv, TypeOK, NonSpace, Due, Slack

\* Every step keeps the words paid for, and none runs out of memory.
LEMMA NextPaid ==
    ASSUME Inv, SafeStep, PaidInv, [Next]_vars, Strategy = "bounded"
    PROVE  PaidStep
<1> USE DEF PaidInv
<1>0. ASSUME NEW code \in Errors \ {"OUT_OF_MEMORY"},
             OnlySpaceLeft(code) \/ Reject(code)
      PROVE  PaidStep
  BY <1>0, RejectPaid DEF OnlySpaceLeft
<1>1. CASE MakeAllocator
  BY <1>1
  DEF MakeAllocator, NoMemory, PaidStep, Paid, OwnFramePaid,
      EnclosingFramesPaid, RoomyBufferSuffices, Opened, Closing
<1>2. CASE ParseRoot
  <2>1. ASSUME NEW r \in NonSpace(p), NEW t \in StructureTags,
               OpenStructure(r, t, Element(t, RootMarker))
        PROVE  PaidStep
    <3>1. r \in p .. input_length - 1
      BY SizesAssumption DEF Inv, TypeOK, NonSpace
    <3>2. QED
      BY <1>2, <2>1, <3>1, ParseRootPaid DEF ParseRoot
  <2>2. QED
    BY <1>0, <1>2, <2>1 DEF ParseRoot, Errors
<1>3. CASE ArrayCloseOrElement
  <2>1. pc = "array_close_or_element" /\ pc \in Opened
    BY <1>3 DEF ArrayCloseOrElement, Opened
  <2>2. ASSUME NEW r \in NonSpace(p + 1), CloseStructure(r) \/ Switch(r)
        PROVE  PaidStep
    <3>1. r \in Nat
      BY SizesAssumption DEF Inv, TypeOK, NonSpace
    <3>2. QED
      BY <2>1, <2>2, <3>1, DueBytes, CloseStructurePaid, SwitchPaid
  <2>3. QED
    BY <1>0, <1>3, <2>2 DEF ArrayCloseOrElement, Errors
<1>4. CASE ObjectCloseOrElement
  <2>1. pc = "object_close_or_element" /\ pc \in Opened
    BY <1>4 DEF ObjectCloseOrElement, Opened
  <2>2. ASSUME NEW r \in NonSpace(p + 1), CloseStructure(r) \/ KeyAt(r)
        PROVE  PaidStep
    <3>1. r \in Nat
      BY SizesAssumption DEF Inv, TypeOK, NonSpace
    <3>2. QED
      BY <2>1, <2>2, <3>1, DueBytes, CloseStructurePaid, KeyAtPaid
  <2>3. QED
    BY <1>0, <1>4, <2>2 DEF ObjectCloseOrElement, Errors
<1>5. CASE StructureCloseOrComma
  <2>1. pc = "structure_close_or_comma" /\ pc \in Opened
    BY <1>5 DEF StructureCloseOrComma, Opened
  <2>2. ASSUME NEW r \in NonSpace(p),
               \/ CloseStructure(r)
               \/ Skip(r, AfterComma(current_structure_tag))
        PROVE  PaidStep
    <3>1. r \in p .. input_length - 1
      BY SizesAssumption DEF Inv, TypeOK, NonSpace
    <3>2. AfterComma(current_structure_tag) \in {"object_key", "next_element"}
      BY DEF AfterComma
    <3>3. QED
      BY <2>1, <2>2, <3>1, <3>2, CloseStructurePaid, SkipPaid
  <2>3. QED
    BY <1>0, <1>5, <2>2 DEF StructureCloseOrComma, Errors
<1>6. CASE ObjectKey
  <2>1. pc = "object_key" /\ pc \in Opened
    BY <1>6 DEF ObjectKey, Opened
  <2>2. ASSUME NEW r \in NonSpace(p), KeyAt(r) PROVE PaidStep
    <3>1. r \in Nat
      BY SizesAssumption DEF Inv, TypeOK, NonSpace
    <3>2. QED
      BY <2>1, <2>2, <3>1, DueBytes, KeyAtPaid
  <2>3. QED
    BY <1>0, <1>6, <2>2 DEF ObjectKey, Errors
<1>7. CASE ExpectColon
  <2>1. pc = "expect_colon" /\ pc \in Opened
    BY <1>7 DEF ExpectColon, Opened
  <2>2. ASSUME NEW r \in NonSpace(p), Skip(r, "next_element") PROVE PaidStep
    <3>1. r \in p .. input_length - 1
      BY SizesAssumption DEF Inv, TypeOK, NonSpace
    <3>2. QED
      BY <2>1, <2>2, <3>1, SkipPaid
  <2>3. QED
    BY <1>0, <1>7, <2>2 DEF ExpectColon, Errors
<1>8. CASE NextElement
  <2>1. pc = "next_element" /\ pc \in Opened
    BY <1>8 DEF NextElement, Opened
  <2>2. ASSUME NEW r \in NonSpace(p), Switch(r) PROVE PaidStep
    <3>1. r \in Nat
      BY SizesAssumption DEF Inv, TypeOK, NonSpace
    <3>2. QED
      BY <2>1, <2>2, <3>1, DueBytes, SwitchPaid
  <2>3. QED
    BY <1>0, <1>8, <2>2 DEF NextElement, Errors
<1>9. CASE CopyWord \/ StoreLength
  <2>1. /\ pc \in Closing /\ pc' \in Closing
        /\ UNCHANGED <<input_length, p, stack_top, write_offset, current_base,
                       pop_element, error>>
    BY <1>9 DEF CopyWord, InstallRest, StoreLength, Closing
  <2>2. QED
    BY <2>1, InstallPaid
<1>10. CASE PopRoot
  BY <1>10
  DEF PopRoot, PaidStep, Paid, OwnFramePaid, EnclosingFramesPaid,
      RoomyBufferSuffices, Opened, Closing
<1>11. CASE PopNested
  BY <1>11, PopNestedPaid
<1>12. CASE UNCHANGED vars
  BY <1>12
  DEF vars, PaidStep, Paid, OwnFramePaid, EnclosingFramesPaid, FramesPaid,
      Affords, StackWords, Slack, RoomyBufferSuffices
<1>13. QED
  BY <1>1, <1>2, <1>3, <1>4, <1>5, <1>6, <1>7, <1>8, <1>9, <1>10, <1>11,
     <1>12
  DEF Next

\* bounded_allocation never runs out of a buffer with three words for every
\* two bytes of the input.
THEOREM RoomyBufferIsEnough == Spec => []RoomyBufferSuffices
<1>1. Init => PaidInv
  BY DEF Init, PaidInv, Paid, OwnFramePaid, EnclosingFramesPaid, Opened,
         Closing, RoomyBufferSuffices
<1>2. Inv /\ PaidInv /\ [Next]_vars => PaidInv'
  BY NextInv, NextPaid DEF PaidInv, PaidStep
<1>3. PaidInv => RoomyBufferSuffices
  BY DEF PaidInv, RoomyBufferSuffices
<1>4. QED
  BY <1>1, <1>2, <1>3, Invariance, PTL DEF Spec
=============================================================================
