--------------------------- MODULE SajsonDocument ---------------------------
(***************************************************************************)
(* The parser implements JsonDocument.  A frame of the parse stack is read *)
(* back the way class value of include/sajson.h reads the AST, so that the *)
(* refinement says: what the accessors return from an accepted document is *)
(* what the parser met in the text, whichever words were moved where.      *)
(***************************************************************************)
EXTENDS SajsonParser, Sequences

\* A word nobody has written reads as a word no parse writes.
Unwritten == Raw(-1)

\* The AST by write offset, the last word of the buffer being at offset 1.
ast ==
    [v \in Nat |-> IF structure_end - v \in DOMAIN mem
                   THEN mem[structure_end - v] ELSE Unwritten]

\* payload[i] of the value whose payload is at write offset v.
Payload(words, v, i) == IF i < v THEN words[v - i] ELSE Unwritten

get_length(words, v) == Payload(words, v, 0).val
get_array_element(words, v, i) == Payload(words, v, 1 + i)
get_object_key(words, v, i) ==
    <<Payload(words, v, 1 + i * 3).val, Payload(words, v, 2 + i * 3).val>>
get_object_value(words, v, i) == Payload(words, v, 3 + i * 3)
as_string(words, v) == <<Payload(words, v, 0).val, Payload(words, v, 1).val>>

\* A double on 32 bits is two words; both stand for the same text.
get_number_value(words, v, t) ==
    {Payload(words, v, i).val : i \in 0 .. NumberWords[t] - 1}

\* What no element stands for.
NoValue == <<"raw">>

\* What element e of the structure at write offset v stands for, given the
\* values at smaller offsets: a structure lies in front of all that is in it.
ElementValue(inner, v, e) ==
    IF e.tag # "raw" /\ e.val \in 1 .. v
    THEN inner[v - e.val][e.tag] ELSE NoValue

\* The value of tag t with its payload at write offset v.
ValueAt(words, inner, v, t) ==
    CASE t = "array" ->
            <<t, [i \in 1 .. get_length(words, v) |->
                    ElementValue(inner, v, get_array_element(words, v, i - 1))]>>
      [] t = "object" ->
            <<t, [i \in 1 .. get_length(words, v) |->
                    <<get_object_key(words, v, i - 1),
                      ElementValue(inner, v,
                                   get_object_value(words, v, i - 1))>>]>>
      [] t = "string" -> <<t, as_string(words, v)>>
      [] t \in {"integer", "double"} -> <<t, get_number_value(words, v, t)>>
      [] OTHER -> <<t>>

\* All the values an AST of these words has, by write offset and tag.
Values(words) ==
    LET value[v \in Nat] ==
            [t \in ValueTags |-> ValueAt(words, value, v, t)]
    IN  value

-----------------------------------------------------------------------------
(***************************************************************************)
(* The refinement mapping.  A word of the stack counts from the end of the *)
(* AST; vals are the values in it, m is the memory with the stack.         *)
(***************************************************************************)
StackValue(vals, w) ==
    IF w.tag = "raw" THEN NoValue ELSE vals[w.val][w.tag]

\* The values or members in the n words of a frame.
Items(vals, t, n, word) ==
    IF t = "array"
    THEN [i \in 1 .. n |-> StackValue(vals, word[i])]
    ELSE [i \in 1 .. MembersOf(n) |->
            <<<<word[3 * i - 2].val, word[3 * i - 1].val>>,
              StackValue(vals, word[3 * i])>>]

\* An object with two words more than whole records has a key pending.
FrameOf(vals, t, n, word) ==
    [kind |-> t,
     items |-> Items(vals, t, n, word),
     key |-> IF t = "object" /\ n % 3 = 2
             THEN <<word[n - 1].val, word[n].val>> ELSE <<>>]

\* The frame with its header at base and its last word below top.
FrameAt(m, vals, t, base, top) ==
    FrameOf(vals, t, top - base - 1,
            [i \in 1 .. top - base - 1 |-> m[base + i]])

\* The frames around the one at base, given what its header says and what is
\* around lower ones: from the root's down.
AroundAt(m, vals, inner, header, base) ==
    IF header.val \in 0 .. base - 1
    THEN Append(inner[header.val],
                FrameAt(m, vals, header.tag, header.val, base))
    ELSE <<>>

Arounds(m, vals) ==
    LET around[base \in Nat] == AroundAt(m, vals, around, m[base], base)
    IN  around

Around(m, vals, header, base) ==
    AroundAt(m, vals, Arounds(m, vals), header, base)

\* The structure being closed: closed already, as far as the document goes.
ClosedStructure ==
    <<current_structure_tag,
      Items(Values(ast), current_structure_tag, FrameLength,
            [i \in 1 .. FrameLength |-> FrameWord(i)])>>

ClosingRoot == pc \in Closing /\ pop_element.val = RootMarker

statusBar ==
    CASE pc \in {"make_allocator", "parse"} -> "start"
      [] pc \in Opened \cup Closing ->
            IF ClosingRoot THEN "closed"
            ELSE IF Doomed THEN "exhausted" ELSE "building"
      [] OTHER -> pc

\* The structures open once the one being closed is put into its own.
ClosedInto(frames) ==
    [frames EXCEPT ![Len(frames)] =
        [kind |-> @.kind,
         items |-> Append(@.items, IF @.kind = "array" THEN ClosedStructure
                                   ELSE <<@.key, ClosedStructure>>),
         key |-> <<>>]]

openBar ==
    IF statusBar # "building" THEN <<>>
    ELSE IF pc \in Closing
    THEN ClosedInto(Around(mem, Values(ast), pop_element, current_base))
    ELSE Append(Around(mem, Values(ast), mem[current_base], current_base),
                FrameAt(mem, Values(ast), current_structure_tag, current_base,
                        stack_top))

documentBar ==
    CASE ClosingRoot -> ClosedStructure
      [] pc = "accepted" -> Values(ast)[write_offset][root_tag]
      [] OTHER -> <<>>

\* A string or key is known by where its decoded text is, a number by where
\* its text starts.
Offsets == UNION {0 .. n : n \in Lengths}
Texts == {s \in Offsets \X Offsets : s[1] <= s[2]}
ScalarsBar ==
    {<<t>> : t \in {"null", "false", "true"}}
      \cup {<<"string", s>> : s \in Texts}
      \cup {<<t, {i}>> : t \in {"integer", "double"}, i \in Offsets}

\* The pairs of keys that object_key_comparator finds in order.
KeyOrderBar == {k \in Texts \X Texts : Less(k[1], k[2])}

Document == INSTANCE JsonDocument
    WITH open <- openBar, status <- statusBar, document <- documentBar,
         Scalars <- ScalarsBar, Keys <- Texts,
         KeyOrder <- KeyOrderBar

-----------------------------------------------------------------------------
(***************************************************************************)
(* Lookup in the AST of an accepted document.                              *)
(***************************************************************************)
\* The elements of the structure of tag t at write offset v.
Elements(words, v, t) ==
    CASE t = "array" -> {get_array_element(words, v, i - 1) :
                            i \in 1 .. get_length(words, v)}
      [] t = "object" -> {get_object_value(words, v, i - 1) :
                            i \in 1 .. get_length(words, v)}
      [] OTHER -> {}

\* Where the values in the value of tag t at write offset v are.
Within(words) ==
    LET within[v \in Nat] ==
            [t \in ValueTags |-> {<<v, t>>} \cup
                UNION {within[v - e.val][e.tag] : e \in Elements(words, v, t)}]
    IN  within

KeysAt(words, v) ==
    [i \in 1 .. get_length(words, v) |-> get_object_key(words, v, i - 1)]

\* std::lower_bound over the records of an object: the first, from 0, that is
\* not below the wanted key, if the records are in order.
lower_bound(keys, wanted) ==
    LET bound[first \in 0 .. Len(keys), count \in 0 .. Len(keys)] ==
            IF count = 0 THEN first
            ELSE LET half == count \div 2
                 IN  IF Less(keys[first + half + 1], wanted)
                     THEN bound[first + half + 1, count - half - 1]
                     ELSE bound[first, half]
    IN  bound[0, Len(keys)]

\* object_key_record::match
Matches(a, b) == KeyLength(a) = KeyLength(b) /\ BytesOf(a) = BytesOf(b)

\* find_object_key bisects the objects that are large: in every one of them, at
\* any depth of an accepted document, it finds each key that was in the text.
LargeObjectsSearchable ==
    pc = "accepted" =>
        \A at \in Within(ast)[write_offset][root_tag] :
            LET keys == KeysAt(ast, at[1])
            IN  at[2] = "object" /\ Len(keys) > SortAbove =>
                    \A i \in 1 .. Len(keys) :
                        LET b == lower_bound(keys, keys[i])
                        IN  b < Len(keys) /\ Matches(keys[b + 1], keys[i])

\* Every behaviour of the parser over its memory is one of JsonDocument.
ImplementsDocument == Document!Spec
=============================================================================
