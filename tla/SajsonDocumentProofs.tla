------------------------ MODULE SajsonDocumentProofs ------------------------
(***************************************************************************)
(* The parser implements JsonDocument: whatever words it moves, overwrites *)
(* and counts from another end, what the accessors read in the end is what *)
(* was met in the text.                                                    *)
(***************************************************************************)
EXTENDS SajsonDocument, SajsonParserProofs, SequenceTheorems,
        WellFoundedInduction

-----------------------------------------------------------------------------
(***************************************************************************)
(* Induction, and lists, whatever is in them.                              *)
(***************************************************************************)
LEMMA LeastNatural ==
    ASSUME NEW T \in SUBSET Nat, T # {}
    PROVE  \E m \in T : \A n \in T : m <= n
<1>1. PICK m \in T : \A y \in T : ~(<<y, m>> \in OpToRel(<, Nat))
  BY NatLessThanWellFounded, WFMin
<1>2. \A y \in T : ~(y < m)
  <2>1. \A x, y \in Nat : <<x, y>> \in OpToRel(<, Nat) <=> x < y
    BY DEF OpToRel
  <2> QED
    BY <1>1, <2>1, Zenon
<1> QED
  BY <1>2

IsList(s) == Len(s) \in Nat /\ s = [i \in 1 .. Len(s) |-> s[i]]

LEMMA EmptyIsList == IsList(<<>>) /\ Len(<<>>) = 0
  BY DEF IsList

\* A function on 1 .. n is a list of n.
LEMMA FunctionIsList ==
    ASSUME NEW n \in Nat, NEW s, s = [i \in 1 .. n |-> s[i]]
    PROVE  IsList(s) /\ Len(s) = n
<1> DEFINE S == {s[i] : i \in 1 .. n}
<1>1. s \in [1 .. n -> S]
  OBVIOUS
<1>2. s \in Seq(S)
  <2> HIDE DEF S
  <2> QED
    BY <1>1
<1>3. DOMAIN s = 1 .. Len(s) /\ Len(s) \in Nat
  BY <1>2, LenProperties
<1>4. 1 .. Len(s) = 1 .. n
  BY <1>1, <1>3
<1>5. Len(s) = n
  BY <1>3, <1>4
<1> QED
  BY <1>3, <1>5 DEF IsList

\* A list is a sequence of its elements.
LEMMA ListInSeq ==
    ASSUME NEW s, IsList(s), NEW S, \A i \in 1 .. Len(s) : s[i] \in S
    PROVE  s \in Seq(S)
<1>1. s \in [1 .. Len(s) -> S] /\ Len(s) \in Nat
  BY DEF IsList
<1> QED
  BY <1>1

\* Appending to a list.
LEMMA AppendToList ==
    ASSUME NEW s, IsList(s), NEW e
    PROVE  /\ IsList(Append(s, e))
           /\ Len(Append(s, e)) = Len(s) + 1
           /\ \A i \in 1 .. Len(s) : Append(s, e)[i] = s[i]
           /\ Append(s, e)[Len(s) + 1] = e
<1> DEFINE S == {s[i] : i \in 1 .. Len(s)} \cup {e}
<1>1. s \in Seq(S) /\ e \in S
  BY ListInSeq
<1> HIDE DEF S
<1>2. Append(s, e) \in Seq(S)
  BY <1>1
<1>3. Len(s) \in Nat /\ Len(Append(s, e)) = Len(s) + 1
  BY <1>1
<1>4. IsList(Append(s, e))
  <2>1. PICK a \in Seq(S) : a = Append(s, e)
    BY <1>2
  <2>2. IsList(a)
    BY DEF IsList
  <2> QED
    BY <2>1, <2>2
<1> QED
  BY <1>1, <1>3, <1>4, AppendProperties

\* What changing or taking off the last element of a list comes to.
LEMMA LastOfList ==
    ASSUME NEW s, IsList(s), NEW e, NEW f
    PROVE  /\ Append(s, e)[Len(Append(s, e))] = e
           /\ SubSeq(Append(s, e), 1, Len(Append(s, e)) - 1) = s
           /\ [Append(s, e) EXCEPT ![Len(Append(s, e))] = f] = Append(s, f)
<1> DEFINE S == {s[i] : i \in 1 .. Len(s)} \cup {e, f}
<1>1. s \in Seq(S) /\ e \in S /\ f \in S
  BY ListInSeq
<1> HIDE DEF S
<1>2. PICK n \in Nat : n = Len(s)
  BY <1>1
<1>3. /\ Append(s, e) \in Seq(S) /\ Append(s, f) \in Seq(S)
      /\ Len(Append(s, e)) = n + 1 /\ Len(Append(s, f)) = n + 1
      /\ \A i \in 1 .. n : Append(s, e)[i] = s[i] /\ Append(s, f)[i] = s[i]
      /\ Append(s, e)[n + 1] = e /\ Append(s, f)[n + 1] = f
  BY <1>1, <1>2, AppendProperties
<1>4. PICK a \in Seq(S) : a = Append(s, e)
  BY <1>3
<1>5. PICK b \in Seq(S) : b = Append(s, f)
  BY <1>3
<1>6. SubSeq(a, 1, n) = s
  <2>1. s = [i \in 1 .. n |-> s[i]] /\ s \in Seq(S)
    BY <1>1, <1>2
  <2>2. SubSeq(a, 1, n) = [i \in 1 .. n |-> a[i]]
    BY <1>3, <1>4, SubSeqProperties
  <2> QED
    BY <1>3, <1>4, <2>1, <2>2
<1>7. [a EXCEPT ![n + 1] = f] = b
  <2>1. DOMAIN a = 1 .. n + 1 /\ DOMAIN b = 1 .. n + 1
    BY <1>3, <1>4, <1>5
  <2>2. \A i \in 1 .. n + 1 : i = n + 1 \/ i \in 1 .. n
    OBVIOUS
  <2>3. \A i \in 1 .. n + 1 : [a EXCEPT ![n + 1] = f][i] = b[i]
    BY <1>3, <1>4, <1>5, <2>1, <2>2
  <2>4. b = [i \in 1 .. n + 1 |-> b[i]]
    BY <2>1
  <2> QED
    BY <2>1, <2>3, <2>4
<1> QED
  BY <1>3, <1>4, <1>6, <1>7, <1>5

-----------------------------------------------------------------------------
(***************************************************************************)
(* The values in an AST.  A value depends on the words at its own and at   *)
(* smaller offsets, which is why it can be defined by recursion, and why   *)
(* it stays what it is when the AST grows.                                 *)
(***************************************************************************)
AstWords == [Nat -> Words]

\* Whatever is read is a word.
LEMMA PayloadIsWord ==
    ASSUME NEW words \in AstWords, NEW v \in Nat, NEW i \in Nat
    PROVE  Payload(words, v, i) \in Words /\ Payload(words, v, i).val \in Int
<1>1. Unwritten \in Words
  BY DEF Unwritten, Raw, Words
<1>2. Payload(words, v, i) \in Words
  BY <1>1 DEF Payload, AstWords
<1> QED
  BY <1>2 DEF Words

LEMMA PayloadKept ==
    ASSUME NEW a \in AstWords, NEW b \in AstWords, NEW v \in Nat,
           \A u \in 1 .. v : a[u] = b[u], NEW i \in Nat
    PROVE  Payload(a, v, i) = Payload(b, v, i)
BY DEF Payload

\* An element of a structure is a value at a smaller offset.
LEMMA ElementLocal ==
    ASSUME NEW f, NEW g, NEW v \in Nat, \A u \in 0 .. v - 1 : f[u] = g[u],
           NEW e \in Words
    PROVE  ElementValue(f, v, e) = ElementValue(g, v, e)
<1>1. ASSUME e.val \in 1 .. v PROVE f[v - e.val] = g[v - e.val]
  BY <1>1
<1> QED
  BY <1>1 DEF ElementValue

\* A value depends on the words and the values below its offset only.
LEMMA ValueLocal ==
    ASSUME NEW a \in AstWords, NEW b \in AstWords, NEW v \in Nat,
           \A u \in 1 .. v : a[u] = b[u],
           NEW f, NEW g, \A u \in 0 .. v - 1 : f[u] = g[u],
           NEW t
    PROVE  ValueAt(a, f, v, t) = ValueAt(b, g, v, t)
<1>a. \A i \in Nat : Payload(a, v, i) = Payload(b, v, i)
  BY PayloadKept
<1>b. \A i \in Nat : Payload(a, v, i) \in Words
  BY PayloadIsWord
<1>c. \A e \in Words : ElementValue(f, v, e) = ElementValue(g, v, e)
  BY ElementLocal
<1>1. \A i \in Nat : /\ Payload(a, v, i) = Payload(b, v, i)
                     /\ Payload(a, v, i) \in Words
                     /\ ElementValue(f, v, Payload(a, v, i))
                            = ElementValue(g, v, Payload(b, v, i))
  BY <1>a, <1>b, <1>c
<1>2. PICK n \in Int : n = get_length(a, v) /\ n = get_length(b, v)
  BY <1>1, PayloadIsWord DEF get_length
<1>3. \A i \in 1 .. n :
          /\ ElementValue(f, v, get_array_element(a, v, i - 1))
                = ElementValue(g, v, get_array_element(b, v, i - 1))
          /\ ElementValue(f, v, get_object_value(a, v, i - 1))
                = ElementValue(g, v, get_object_value(b, v, i - 1))
          /\ get_object_key(a, v, i - 1) = get_object_key(b, v, i - 1)
  BY <1>1 DEF get_array_element, get_object_value, get_object_key
<1>4. CASE t = "array"
  BY <1>2, <1>3, <1>4 DEF ValueAt
<1>5. CASE t = "object"
  BY <1>2, <1>3, <1>5 DEF ValueAt
<1>6. CASE t = "string"
  BY <1>1, <1>6 DEF ValueAt, as_string
<1>7. CASE t \in {"integer", "double"}
  <2>1. NumberWords[t] \in Nat
    BY <1>7, SizesAssumption DEF NumberWords
  <2>2. get_number_value(a, v, t) = get_number_value(b, v, t)
    BY <1>1, <2>1 DEF get_number_value
  <2> QED
    BY <1>7, <2>2 DEF ValueAt
<1> QED
  BY <1>4, <1>5, <1>6, <1>7 DEF ValueAt

\* The equation of the recursive function Values.
LEMMA ValuesEquation ==
    ASSUME NEW words \in AstWords
    PROVE  Values(words) =
              [v \in Nat |-> [t \in ValueTags |->
                  ValueAt(words, Values(words), v, t)]]
<1> DEFINE Body(f, v) == [t \in ValueTags |-> ValueAt(words, f, v, t)]
           Solves(f, S) == f = [v \in S |-> Body(f, v)]
           part(v) == CHOOSE g : Solves(g, 0 .. v - 1)
           pasted(S) == [v \in S |-> Body(part(v), v)]
<1>1. ASSUME NEW f, NEW g, NEW v \in Nat, \A u \in 0 .. v - 1 : f[u] = g[u]
      PROVE  Body(f, v) = Body(g, v)
  <2>1. \A t \in ValueTags : ValueAt(words, f, v, t) = ValueAt(words, g, v, t)
    BY <1>1, ValueLocal
  <2> QED
    BY <2>1
<1> HIDE DEF Body
<1>2. ASSUME NEW m \in Nat, NEW l \in Nat, NEW g, NEW h,
             Solves(g, 0 .. m - 1), Solves(h, 0 .. l - 1)
      PROVE  \A k \in Nat : k < m /\ k < l => g[k] = h[k]
  <2> DEFINE T == {k \in Nat : k < m /\ k < l /\ g[k] # h[k]}
  <2> SUFFICES ASSUME T # {} PROVE FALSE
    OBVIOUS
  <2>1. PICK k \in T : \A j \in T : k <= j
    BY LeastNatural
  <2>2. \A j \in 0 .. k - 1 : g[j] = h[j]
    BY <2>1
  <2>3. k \in 0 .. m - 1 /\ k \in 0 .. l - 1 /\ g[k] # h[k]
    BY <2>1
  <2>4. g[k] = Body(g, k) /\ h[k] = Body(h, k)
    BY <1>2, <2>3
  <2> QED
    BY <1>1, <2>2, <2>3, <2>4
<1>3. ASSUME NEW S \in SUBSET Nat,
             \A v \in S : 0 .. v - 1 \subseteq S /\ Solves(part(v), 0 .. v - 1)
      PROVE  Solves(pasted(S), S)
  <2> HIDE DEF part
  <2>1. ASSUME NEW v \in S PROVE Body(part(v), v) = Body(pasted(S), v)
    <3>1. ASSUME NEW u \in 0 .. v - 1 PROVE part(v)[u] = pasted(S)[u]
      <4>1. /\ u \in S /\ u \in Nat /\ v \in Nat
            /\ Solves(part(v), 0 .. v - 1) /\ Solves(part(u), 0 .. u - 1)
        BY <1>3
      <4>2. pasted(S)[u] = Body(part(u), u)
        BY <4>1
      <4>3. part(v)[u] = Body(part(v), u)
        BY <4>1
      <4> HIDE DEF Solves
      <4>4. \A w \in Nat : w < v /\ w < u => part(v)[w] = part(u)[w]
        BY <1>2, <4>1
      <4>5. \A w \in 0 .. u - 1 : part(v)[w] = part(u)[w]
        BY <4>1, <4>4
      <4> QED
        BY <1>1, <4>1, <4>2, <4>3, <4>5
    <3> HIDE DEF pasted
    <3> QED
      BY <1>1, <3>1
  <2> QED
    BY <2>1
<1>4. \A m \in Nat : Solves(part(m), 0 .. m - 1)
  <2> DEFINE T == {m \in Nat : ~Solves(part(m), 0 .. m - 1)}
  <2> SUFFICES ASSUME T # {} PROVE FALSE
    OBVIOUS
  <2>1. PICK m \in T : \A j \in T : m <= j
    BY LeastNatural
  <2>2. \A v \in 0 .. m - 1 : /\ 0 .. v - 1 \subseteq 0 .. m - 1
                              /\ Solves(part(v), 0 .. v - 1)
    <3> HIDE DEF Solves, part
    <3>1. \A v \in 0 .. m - 1 : v \in Nat /\ v \notin T
      BY <2>1
    <3> QED
      BY <3>1
  <2> HIDE DEF Solves, pasted
  <2>3. 0 .. m - 1 \in SUBSET Nat
    OBVIOUS
  <2>4. Solves(pasted(0 .. m - 1), 0 .. m - 1)
    BY <1>3, <2>2, <2>3
  <2>5. Solves(part(m), 0 .. m - 1)
    BY <2>4
  <2> QED
    BY <2>5
<1>5. Solves(pasted(Nat), Nat)
  <2> HIDE DEF Solves, pasted, part
  <2>1. \A v \in Nat : 0 .. v - 1 \subseteq Nat /\ Solves(part(v), 0 .. v - 1)
    BY <1>4
  <2> QED
    BY <1>3, <2>1
<1>6. Values(words) = CHOOSE f : Solves(f, Nat)
  BY DEF Values, Body
<1>7. Solves(Values(words), Nat)
  <2> HIDE DEF Solves, pasted
  <2> QED
    BY <1>5, <1>6
<1> QED
  BY <1>7 DEF Body

\* While the AST grows the values in it stay what they are.
LEMMA ValuesKept ==
    ASSUME NEW a \in AstWords, NEW b \in AstWords, NEW n \in Nat,
           \A u \in 1 .. n : a[u] = b[u]
    PROVE  \A v \in 0 .. n : Values(a)[v] = Values(b)[v]
<1> DEFINE T == {v \in 0 .. n : Values(a)[v] # Values(b)[v]}
<1> SUFFICES ASSUME T # {} PROVE FALSE
  OBVIOUS
<1>1. PICK v \in T : \A u \in T : v <= u
  <2>1. T \in SUBSET Nat
    OBVIOUS
  <2> QED
    BY <2>1, LeastNatural
<1>2. v \in Nat /\ v \in 0 .. n /\ Values(a)[v] # Values(b)[v]
  OBVIOUS
<1>3. \A u \in 0 .. v - 1 : Values(a)[u] = Values(b)[u]
  <2>1. \A u \in 0 .. v - 1 : u \in 0 .. n /\ u \notin T
    BY <1>1, <1>2
  <2> QED
    BY <2>1
<1>4. \A u \in 1 .. v : a[u] = b[u]
  BY <1>2
<1>5. \A t : ValueAt(a, Values(a), v, t) = ValueAt(b, Values(b), v, t)
  BY <1>2, <1>3, <1>4, ValueLocal
<1>6. Values(a)[v] = [t \in ValueTags |-> ValueAt(a, Values(a), v, t)]
  BY <1>2, ValuesEquation
<1>7. Values(b)[v] = [t \in ValueTags |-> ValueAt(b, Values(b), v, t)]
  BY <1>2, ValuesEquation
<1> QED
  BY <1>2, <1>5, <1>6, <1>7

-----------------------------------------------------------------------------
(***************************************************************************)
(* The frames on the stack.                                                *)
(***************************************************************************)
\* The equation of the recursive function Arounds.
LEMMA AroundsEquation ==
    ASSUME NEW m, NEW vals
    PROVE  Arounds(m, vals) =
              [b \in Nat |-> AroundAt(m, vals, Arounds(m, vals), m[b], b)]
<1> DEFINE Body(f, b) == AroundAt(m, vals, f, m[b], b)
           Solves(f, S) == f = [b \in S |-> Body(f, b)]
           part(b) == CHOOSE g : Solves(g, 0 .. b - 1)
           pasted(S) == [b \in S |-> Body(part(b), b)]
<1>1. ASSUME NEW f, NEW g, NEW b \in Nat, \A c \in 0 .. b - 1 : f[c] = g[c]
      PROVE  Body(f, b) = Body(g, b)
  BY <1>1 DEF AroundAt
<1> HIDE DEF Body
<1>2. ASSUME NEW j \in Nat, NEW l \in Nat, NEW g, NEW h,
             Solves(g, 0 .. j - 1), Solves(h, 0 .. l - 1)
      PROVE  \A k \in Nat : k < j /\ k < l => g[k] = h[k]
  <2> DEFINE T == {k \in Nat : k < j /\ k < l /\ g[k] # h[k]}
  <2> SUFFICES ASSUME T # {} PROVE FALSE
    OBVIOUS
  <2>1. PICK k \in T : \A i \in T : k <= i
    BY LeastNatural
  <2>2. \A i \in 0 .. k - 1 : g[i] = h[i]
    BY <2>1
  <2>3. k \in 0 .. j - 1 /\ k \in 0 .. l - 1 /\ g[k] # h[k]
    BY <2>1
  <2>4. g[k] = Body(g, k) /\ h[k] = Body(h, k)
    BY <1>2, <2>3
  <2> QED
    BY <1>1, <2>2, <2>3, <2>4
<1>3. ASSUME NEW S \in SUBSET Nat,
             \A b \in S : 0 .. b - 1 \subseteq S /\ Solves(part(b), 0 .. b - 1)
      PROVE  Solves(pasted(S), S)
  <2> HIDE DEF part
  <2>1. ASSUME NEW b \in S PROVE Body(part(b), b) = Body(pasted(S), b)
    <3>1. ASSUME NEW c \in 0 .. b - 1 PROVE part(b)[c] = pasted(S)[c]
      <4>1. /\ c \in S /\ c \in Nat /\ b \in Nat
            /\ Solves(part(b), 0 .. b - 1) /\ Solves(part(c), 0 .. c - 1)
        BY <1>3
      <4>2. pasted(S)[c] = Body(part(c), c)
        BY <4>1
      <4>3. part(b)[c] = Body(part(b), c)
        BY <4>1
      <4> HIDE DEF Solves
      <4>4. \A i \in Nat : i < b /\ i < c => part(b)[i] = part(c)[i]
        BY <1>2, <4>1
      <4>5. \A i \in 0 .. c - 1 : part(b)[i] = part(c)[i]
        BY <4>1, <4>4
      <4> QED
        BY <1>1, <4>1, <4>2, <4>3, <4>5
    <3> HIDE DEF pasted
    <3> QED
      BY <1>1, <3>1
  <2> QED
    BY <2>1
<1>4. \A j \in Nat : Solves(part(j), 0 .. j - 1)
  <2> DEFINE T == {j \in Nat : ~Solves(part(j), 0 .. j - 1)}
  <2> SUFFICES ASSUME T # {} PROVE FALSE
    OBVIOUS
  <2>1. PICK j \in T : \A i \in T : j <= i
    BY LeastNatural
  <2>2. \A b \in 0 .. j - 1 : /\ 0 .. b - 1 \subseteq 0 .. j - 1
                              /\ Solves(part(b), 0 .. b - 1)
    <3> HIDE DEF Solves, part
    <3>1. \A b \in 0 .. j - 1 : b \in Nat /\ b \notin T
      BY <2>1
    <3> QED
      BY <3>1
  <2> HIDE DEF Solves, pasted
  <2>3. 0 .. j - 1 \in SUBSET Nat
    OBVIOUS
  <2>4. Solves(pasted(0 .. j - 1), 0 .. j - 1)
    BY <1>3, <2>2, <2>3
  <2>5. Solves(part(j), 0 .. j - 1)
    BY <2>4
  <2> QED
    BY <2>5
<1>5. Solves(pasted(Nat), Nat)
  <2> HIDE DEF Solves, pasted, part
  <2>1. \A b \in Nat : 0 .. b - 1 \subseteq Nat /\ Solves(part(b), 0 .. b - 1)
    BY <1>4
  <2> QED
    BY <1>3, <2>1
<1>6. Arounds(m, vals) = CHOOSE f : Solves(f, Nat)
  BY DEF Arounds, Body
<1>7. Solves(Arounds(m, vals), Nat)
  <2> HIDE DEF Solves, pasted
  <2> QED
    BY <1>5, <1>6
<1> QED
  BY <1>7 DEF Body

\* Around a frame there is nothing, or what is around the one its header
\* names, and that one.
LEMMA AroundIs ==
    ASSUME NEW m, NEW vals, NEW header, NEW base \in Nat
    PROVE  /\ header.val \notin 0 .. base - 1 =>
                Around(m, vals, header, base) = <<>>
           /\ header.val \in 0 .. base - 1 =>
                Around(m, vals, header, base) =
                    Append(Around(m, vals, m[header.val], header.val),
                           FrameAt(m, vals, header.tag, header.val, base))
<1>1. \A b \in Nat : Arounds(m, vals)[b] = Around(m, vals, m[b], b)
  BY AroundsEquation DEF Around
<1>2. CASE header.val \notin 0 .. base - 1
  BY <1>2 DEF Around, AroundAt
<1>3. CASE header.val \in 0 .. base - 1
  <2>1. PICK c \in Nat : c = header.val
    BY <1>3
  <2>2. Around(m, vals, header, base)
            = Append(Arounds(m, vals)[c],
                     FrameAt(m, vals, header.tag, c, base))
    BY <1>3, <2>1 DEF Around, AroundAt
  <2> QED
    BY <1>1, <1>3, <2>1, <2>2
<1> QED
  BY <1>2, <1>3

LEMMA AroundIsList ==
    ASSUME NEW m, NEW vals, NEW header, NEW base \in Nat
    PROVE  IsList(Around(m, vals, header, base))
<1> DEFINE T == {b \in Nat : ~IsList(Around(m, vals, m[b], b))}
<1>1. ASSUME NEW b \in Nat, NEW w,
             \A c \in 0 .. b - 1 : IsList(Around(m, vals, m[c], c))
      PROVE  IsList(Around(m, vals, w, b))
  <2>1. CASE w.val \notin 0 .. b - 1
    BY <2>1, AroundIs, EmptyIsList
  <2>2. CASE w.val \in 0 .. b - 1
    <3>1. PICK s : s = Around(m, vals, m[w.val], w.val) /\ IsList(s)
      BY <1>1, <2>2
    <3>2. PICK f : f = FrameAt(m, vals, w.tag, w.val, b)
      OBVIOUS
    <3>3. Around(m, vals, w, b) = Append(s, f)
      BY <2>2, <3>1, <3>2, AroundIs
    <3> QED
      BY <3>1, <3>3, AppendToList
  <2> QED
    BY <2>1, <2>2
<1>2. T = {}
  <2> SUFFICES ASSUME T # {} PROVE FALSE
    OBVIOUS
  <2>1. PICK b \in T : \A c \in T : b <= c
    BY LeastNatural
  <2>2. \A c \in 0 .. b - 1 : c \in Nat /\ c \notin T
    BY <2>1
  <2> QED
    BY <1>1, <2>2
<1>3. \A c \in 0 .. base - 1 : IsList(Around(m, vals, m[c], c))
  BY <1>2
<1> QED
  BY <1>1, <1>3

\* Frames are the same that have the same words, if these stand for the same.
LEMMA SameItems ==
    ASSUME NEW vals, NEW wals, NEW t, NEW n \in Nat, NEW v, NEW w,
           \A i \in 1 .. n : /\ v[i] = w[i]
                             /\ StackValue(vals, v[i]) = StackValue(wals, w[i])
    PROVE  Items(vals, t, n, v) = Items(wals, t, n, w)
<1>1. \A i \in 1 .. MembersOf(n) :
          3 * i - 2 \in 1 .. n /\ 3 * i - 1 \in 1 .. n /\ 3 * i \in 1 .. n
  BY DEF MembersOf
<1> QED
  BY <1>1 DEF Items

LEMMA SameFrames ==
    ASSUME NEW vals, NEW wals, NEW t, NEW n \in Nat, NEW v, NEW w,
           \A i \in 1 .. n : /\ v[i] = w[i]
                             /\ StackValue(vals, v[i]) = StackValue(wals, w[i])
    PROVE  FrameOf(vals, t, n, v) = FrameOf(wals, t, n, w)
<1>1. Items(vals, t, n, v) = Items(wals, t, n, w)
  BY SameItems
<1>2. n % 3 = 2 => n - 1 \in 1 .. n /\ n \in 1 .. n
  OBVIOUS
<1> QED
  BY <1>1, <1>2 DEF FrameOf

LEMMA SameFramesAt ==
    ASSUME NEW m, NEW n, NEW vals, NEW wals, NEW t,
           NEW base \in Nat, NEW top \in Nat, base < top,
           \A a \in base + 1 .. top - 1 :
              /\ m[a] = n[a]
              /\ StackValue(vals, m[a]) = StackValue(wals, n[a])
    PROVE  FrameAt(m, vals, t, base, top) = FrameAt(n, wals, t, base, top)
<1> DEFINE v == [i \in 1 .. top - base - 1 |-> m[base + i]]
           w == [i \in 1 .. top - base - 1 |-> n[base + i]]
<1>1. top - base - 1 \in Nat
  OBVIOUS
<1>2. \A i \in 1 .. top - base - 1 :
          v[i] = w[i] /\ StackValue(vals, v[i]) = StackValue(wals, w[i])
  OBVIOUS
<1> HIDE DEF v, w
<1>3. FrameOf(vals, t, top - base - 1, v) = FrameOf(wals, t, top - base - 1, w)
  BY <1>1, <1>2, SameFrames
<1> QED
  BY <1>3 DEF FrameAt, v, w

\* The header of the frame at base leads to one of B, and no other is between.
Leads(B, header, base) ==
    header.val \in 0 .. base - 1 =>
        /\ header.val \in B
        /\ \A b \in B : b <= header.val \/ b >= base

\* What is around a frame stays what it is if the words below it do and, but
\* for the headers, stand for the same.
LEMMA SameAround ==
    ASSUME NEW m, NEW n, NEW vals, NEW wals, NEW B \in SUBSET Nat,
           NEW base \in Nat, NEW header, Leads(B, header, base),
           \A b \in B : b < base => Leads(B, m[b], b),
           \A a \in 0 .. base - 1 : m[a] = n[a],
           \A a \in (0 .. base - 1) \ B :
              StackValue(vals, m[a]) = StackValue(wals, n[a])
    PROVE  Around(m, vals, header, base) = Around(n, wals, header, base)
<1>1. ASSUME NEW b \in Nat, b <= base, NEW w, Leads(B, w, b),
             \A c \in B : c < b =>
                Around(m, vals, m[c], c) = Around(n, wals, n[c], c)
      PROVE  Around(m, vals, w, b) = Around(n, wals, w, b)
  <2>1. CASE w.val \notin 0 .. b - 1
    BY <2>1, AroundIs
  <2>2. CASE w.val \in 0 .. b - 1
    <3>1. PICK c \in Nat : c = w.val /\ c \in B /\ c < b
      BY <1>1, <2>2 DEF Leads
    <3>2. \A a \in c + 1 .. b - 1 : a \in (0 .. base - 1) \ B
      BY <1>1, <2>2, <3>1 DEF Leads
    <3>3. FrameAt(m, vals, w.tag, c, b) = FrameAt(n, wals, w.tag, c, b)
      BY <3>1, <3>2, SameFramesAt
    <3>4. Around(m, vals, m[c], c) = Around(n, wals, n[c], c)
      BY <1>1, <3>1
    <3>5. Around(m, vals, w, b) = Append(Around(m, vals, m[c], c),
                                         FrameAt(m, vals, w.tag, c, b))
      BY <2>2, <3>1, AroundIs
    <3>6. Around(n, wals, w, b) = Append(Around(n, wals, n[c], c),
                                         FrameAt(n, wals, w.tag, c, b))
      BY <2>2, <3>1, AroundIs
    <3> QED
      BY <3>3, <3>4, <3>5, <3>6
  <2> QED
    BY <2>1, <2>2
<1> DEFINE T == {b \in B : b < base /\
                    Around(m, vals, m[b], b) # Around(n, wals, n[b], b)}
<1>2. T = {}
  <2> SUFFICES ASSUME T # {} PROVE FALSE
    OBVIOUS
  <2>1. PICK b \in T : \A c \in T : b <= c
    BY LeastNatural
  <2>2. /\ b \in Nat /\ b \in B /\ b < base
        /\ Around(m, vals, m[b], b) # Around(n, wals, n[b], b)
    OBVIOUS
  <2>a. m[b] = n[b] /\ Leads(B, m[b], b)
    BY <2>2
  <2>3. \A c \in B : c < b => c \notin T
    BY <2>1
  <2>4. \A c \in B : c < b =>
            Around(m, vals, m[c], c) = Around(n, wals, n[c], c)
    BY <2>2, <2>3
  <2>5. Around(m, vals, m[b], b) = Around(n, wals, m[b], b)
    BY <1>1, <2>2, <2>a, <2>4
  <2> QED
    BY <2>2, <2>a, <2>5
<1>3. \A c \in B : c < base =>
          Around(m, vals, m[c], c) = Around(n, wals, n[c], c)
  BY <1>2
<1> QED
  BY <1>1, <1>3

\* A frame with one word more has one value more.
LEMMA FrameWithValue ==
    ASSUME NEW m, NEW n, NEW vals, NEW wals, NEW t \in StructureTags,
           NEW base \in Nat, NEW top \in Nat, base < top,
           t = "object" => (top - base - 1) % 3 = 2,
           \A a \in base + 1 .. top - 1 :
              /\ m[a] = n[a]
              /\ StackValue(vals, m[a]) = StackValue(wals, n[a])
    PROVE  FrameAt(n, wals, t, base, top + 1)
              = Document!WithValue(FrameAt(m, vals, t, base, top),
                                   StackValue(wals, n[top]))
<1>1. PICK l \in Nat : l = top - base - 1 /\ l + 1 = (top + 1) - base - 1
  OBVIOUS
<1> DEFINE v == [i \in 1 .. l |-> m[base + i]]
           w == [i \in 1 .. l + 1 |-> n[base + i]]
           x == StackValue(wals, n[top])
<1>2. /\ FrameAt(m, vals, t, base, top) = FrameOf(vals, t, l, v)
      /\ FrameAt(n, wals, t, base, top + 1) = FrameOf(wals, t, l + 1, w)
  BY <1>1 DEF FrameAt
<1>3. \A i \in 1 .. l : /\ v[i] = w[i]
                        /\ StackValue(vals, v[i]) = StackValue(wals, w[i])
  <2>1. \A i \in 1 .. l : base + i \in base + 1 .. top - 1
    BY <1>1
  <2>2. \A i \in 1 .. l : /\ v[i] = m[base + i]
                          /\ w[i] = n[base + i]
    BY <1>1
  <2> QED
    BY <2>1, <2>2
<1>4. w[l + 1] = n[top]
  <2>1. l + 1 \in 1 .. l + 1 /\ base + (l + 1) = top
    BY <1>1
  <2> QED
    BY <2>1
<1> HIDE DEF v, w
<1>5. CASE t = "array"
  <2> DEFINE I == Items(vals, t, l, v)
  <2>1. I = [i \in 1 .. l |-> StackValue(wals, w[i])]
    BY <1>3, <1>5 DEF Items
  <2>2. Items(wals, t, l + 1, w)
            = [i \in 1 .. l + 1 |-> StackValue(wals, w[i])]
    BY <1>5 DEF Items
  <2> DEFINE J == [i \in 1 .. l + 1 |-> StackValue(wals, w[i])]
  <2>3. J = Append(I, x)
    <3>1. IsList(I) /\ Len(I) = l
      <4>1. I = [i \in 1 .. l |-> I[i]]
        BY <2>1
      <4> HIDE DEF I
      <4> QED
        BY <4>1, FunctionIsList
    <3>2. PICK A : A = Append(I, x)
      OBVIOUS
    <3> HIDE DEF I
    <3>3. /\ IsList(A) /\ Len(A) = l + 1 /\ A[l + 1] = x
          /\ \A i \in 1 .. l : A[i] = I[i]
      BY <3>1, <3>2, AppendToList
    <3>4. A = [i \in 1 .. l + 1 |-> A[i]]
      BY <3>3 DEF IsList
    <3>5. \A i \in 1 .. l + 1 : i = l + 1 \/ i \in 1 .. l
      OBVIOUS
    <3>6. \A i \in 1 .. l + 1 : A[i] = J[i]
      BY <1>4, <2>1, <3>3, <3>5
    <3> QED
      BY <3>2, <3>4, <3>6
  <2> HIDE DEF I, J
  <2>4. /\ FrameOf(vals, t, l, v) = [kind |-> t, items |-> I, key |-> <<>>]
        /\ FrameOf(wals, t, l + 1, w)
              = [kind |-> t, items |-> Append(I, x), key |-> <<>>]
    BY <1>5, <2>2, <2>3 DEF FrameOf, I, J
  <2> HIDE DEF x
  <2>5. Document!WithValue([kind |-> t, items |-> I, key |-> <<>>], x)
            = [kind |-> t, items |-> Append(I, x), key |-> <<>>]
    BY <1>5 DEF Document!WithValue, Document!Frame, Document!None
  <2>6. FrameAt(n, wals, t, base, top + 1)
            = Document!WithValue(FrameAt(m, vals, t, base, top), x)
    BY ONLY <1>2, <2>4, <2>5
  <2> QED
    BY <2>6 DEF x
<1>6. CASE t = "object"
  <2>1. PICK k \in Nat : /\ k = MembersOf(l) /\ k + 1 = MembersOf(l + 1)
                         /\ l = 3 * k + 2 /\ l % 3 = 2 /\ (l + 1) % 3 # 2
    BY <1>1, <1>6 DEF MembersOf
  <2> DEFINE rec(i) == <<<<w[3 * i - 2].val, w[3 * i - 1].val>>,
                         StackValue(wals, w[3 * i])>>
             I == Items(vals, t, l, v)
             J == [i \in 1 .. k + 1 |-> rec(i)]
             key == <<v[l - 1].val, v[l].val>>
  <2>2. I = [i \in 1 .. k |-> rec(i)]
    <3>1. \A i \in 1 .. k :
              3 * i - 2 \in 1 .. l /\ 3 * i - 1 \in 1 .. l /\ 3 * i \in 1 .. l
      BY <2>1
    <3> QED
      BY <1>3, <1>6, <2>1, <3>1 DEF Items
  <2>3. Items(wals, t, l + 1, w) = J
    BY <1>6, <2>1 DEF Items
  <2>4. rec(k + 1) = <<key, x>>
    <3>1. /\ 3 * (k + 1) - 2 = l - 1 /\ 3 * (k + 1) - 1 = l
          /\ 3 * (k + 1) = l + 1
          /\ l - 1 \in 1 .. l /\ l \in 1 .. l
      BY <2>1
    <3> QED
      BY <1>3, <1>4, <3>1
  <2> HIDE DEF rec
  <2>5. J = Append(I, <<key, x>>)
    <3>1. IsList(I) /\ Len(I) = k
      <4>1. I = [i \in 1 .. k |-> I[i]]
        BY <2>2
      <4> HIDE DEF I
      <4> QED
        BY <4>1, FunctionIsList
    <3>2. PICK A : A = Append(I, <<key, x>>)
      OBVIOUS
    <3> HIDE DEF I, key
    <3>3. /\ IsList(A) /\ Len(A) = k + 1 /\ A[k + 1] = <<key, x>>
          /\ \A i \in 1 .. k : A[i] = I[i]
      BY <3>1, <3>2, AppendToList
    <3>4. A = [i \in 1 .. k + 1 |-> A[i]]
      BY <3>3 DEF IsList
    <3>5. \A i \in 1 .. k + 1 : i = k + 1 \/ i \in 1 .. k
      OBVIOUS
    <3>6. \A i \in 1 .. k + 1 : A[i] = J[i]
      BY <2>2, <2>4, <3>3, <3>5
    <3> QED
      BY <3>2, <3>4, <3>6
  <2> HIDE DEF I, J
  <2>6. /\ FrameOf(vals, t, l, v) = [kind |-> t, items |-> I, key |-> key]
        /\ FrameOf(wals, t, l + 1, w)
              = [kind |-> t, items |-> Append(I, <<key, x>>), key |-> <<>>]
    BY <1>6, <2>1, <2>3, <2>5 DEF FrameOf, I, J
  <2> HIDE DEF key, x
  <2>7. Document!WithValue([kind |-> t, items |-> I, key |-> key], x)
            = [kind |-> t, items |-> Append(I, <<key, x>>), key |-> <<>>]
    BY <1>6 DEF Document!WithValue, Document!Frame, Document!None
  <2>8. FrameAt(n, wals, t, base, top + 1)
            = Document!WithValue(FrameAt(m, vals, t, base, top), x)
    BY ONLY <1>2, <2>6, <2>7
  <2> QED
    BY <2>8 DEF x
<1> QED
  BY <1>5, <1>6 DEF StructureTags

\* Two words more in an object that has whole records are a key.
LEMMA FrameWithKey ==
    ASSUME NEW m, NEW n, NEW vals, NEW wals,
           NEW base \in Nat, NEW top \in Nat, base < top,
           (top - base - 1) % 3 = 0,
           \A a \in base + 1 .. top - 1 :
              /\ m[a] = n[a]
              /\ StackValue(vals, m[a]) = StackValue(wals, n[a])
    PROVE  FrameAt(n, wals, "object", base, top + 2)
              = [FrameAt(m, vals, "object", base, top)
                    EXCEPT !.key = <<n[top].val, n[top + 1].val>>]
<1>1. PICK l \in Nat : l = top - base - 1 /\ l + 2 = (top + 2) - base - 1
  OBVIOUS
<1> DEFINE v == [i \in 1 .. l |-> m[base + i]]
           w == [i \in 1 .. l + 2 |-> n[base + i]]
<1>2. /\ FrameAt(m, vals, "object", base, top) = FrameOf(vals, "object", l, v)
      /\ FrameAt(n, wals, "object", base, top + 2)
            = FrameOf(wals, "object", l + 2, w)
  BY <1>1 DEF FrameAt
<1>3. \A i \in 1 .. l : /\ v[i] = w[i]
                        /\ StackValue(vals, v[i]) = StackValue(wals, w[i])
  <2>1. \A i \in 1 .. l : base + i \in base + 1 .. top - 1
    BY <1>1
  <2>2. \A i \in 1 .. l : /\ v[i] = m[base + i]
                          /\ w[i] = n[base + i]
    BY <1>1
  <2> QED
    BY <2>1, <2>2
<1>4. w[l + 1] = n[top] /\ w[l + 2] = n[top + 1]
  <2>1. /\ l + 1 \in 1 .. l + 2 /\ base + (l + 1) = top
        /\ l + 2 \in 1 .. l + 2 /\ base + (l + 2) = top + 1
    BY <1>1
  <2> QED
    BY <2>1
<1> HIDE DEF v, w
<1>5. PICK k \in Nat : /\ k = MembersOf(l) /\ k = MembersOf(l + 2)
                       /\ l = 3 * k /\ l % 3 = 0 /\ (l + 2) % 3 = 2
                       /\ (l + 2) - 1 = l + 1
  BY <1>1 DEF MembersOf
<1>6. \A i \in 1 .. k :
          3 * i - 2 \in 1 .. l /\ 3 * i - 1 \in 1 .. l /\ 3 * i \in 1 .. l
  BY <1>5
<1>7. Items(vals, "object", l, v) = Items(wals, "object", l + 2, w)
  BY <1>3, <1>5, <1>6 DEF Items
<1>8. FrameOf(vals, "object", l, v)
        = [kind |-> "object", items |-> Items(vals, "object", l, v),
           key |-> <<>>]
  BY <1>5 DEF FrameOf
<1>9. FrameOf(wals, "object", l + 2, w)
        = [kind |-> "object", items |-> Items(vals, "object", l, v),
           key |-> <<w[l + 1].val, w[l + 2].val>>]
  BY <1>5, <1>7 DEF FrameOf
<1>10. PICK c, d : c = n[top].val /\ d = n[top + 1].val
  OBVIOUS
<1>11. w[l + 1].val = c /\ w[l + 2].val = d
  BY <1>4, <1>10
<1>12. PICK its : its = Items(vals, "object", l, v)
  OBVIOUS
<1>13. /\ FrameAt(m, vals, "object", base, top)
            = [kind |-> "object", items |-> its, key |-> <<>>]
       /\ FrameAt(n, wals, "object", base, top + 2)
            = [kind |-> "object", items |-> its, key |-> <<c, d>>]
  BY ONLY <1>2, <1>8, <1>9, <1>11, <1>12
<1>14. [[kind |-> "object", items |-> its, key |-> <<>>] EXCEPT !.key = <<c, d>>]
         = [kind |-> "object", items |-> its, key |-> <<c, d>>]
  BY ONLY SMT
<1> QED
  BY ONLY <1>10, <1>13, <1>14

\* Changes to the innermost of the open structures.
LEMMA InnermostChanges ==
    ASSUME NEW s, IsList(s), NEW f, NEW v
    PROVE  /\ Document!PutIn(Append(s, f), v)
                = Append(s, Document!WithValue(f, v))
           /\ ClosedInto(Append(s, f))
                = Append(s, Document!WithValue(f, ClosedStructure))
<1>1. PICK a : a = Append(s, f) /\ a[Len(a)] = f
  BY LastOfList
<1>2. \A g : [a EXCEPT ![Len(a)] = g] = Append(s, g)
  BY <1>1, LastOfList
<1>3. Document!PutIn(a, v) = [a EXCEPT ![Len(a)] = Document!WithValue(f, v)]
  BY <1>1 DEF Document!PutIn
<1>4. ClosedInto(a)
        = [a EXCEPT ![Len(a)] = Document!WithValue(f, ClosedStructure)]
  BY <1>1
  DEF ClosedInto, Document!WithValue, Document!Frame, Document!None
<1> QED
  BY <1>1, <1>2, <1>3, <1>4

-----------------------------------------------------------------------------
(***************************************************************************)
(* The invariant: what the frames on the stack stand for is settled.       *)
(***************************************************************************)
Vals == Values(ast)

\* The words of the AST without those of the structure being closed; and the
\* words that no step may change, by which the former are known to stay.
Finished ==
    IF pc \in Closing THEN write_offset - FrameLength - 1 ELSE write_offset
Settled == structure_end - InstalledFrom

OwnHeader == IF pc \in Closing THEN pop_element ELSE mem[current_base]
Enclosing == Around(mem, Vals, OwnHeader, current_base)
OwnFrame == FrameAt(mem, Vals, current_structure_tag, current_base, stack_top)

\* An element leads to a finished value.
Sound(w) == w.tag # "raw" => w.val \in 0 .. Finished

\* B are the offsets of the headers of the open structures: each header leads
\* to the next lower one, and every other element to a finished value.
NestedAt(B) ==
    /\ current_base \in B
    /\ \A b \in B : b < current_base => Leads(B, mem[b], b)
    /\ Leads(B, OwnHeader, current_base)
    /\ \A a \in (0 .. current_base - 1) \ B : Sound(mem[a])

Nested ==
    pc \in Opened \cup Closing =>
        \E B \in SUBSET (0 .. current_base) : NestedAt(B)

OwnFrameSound ==
    /\ pc \in Opened =>
          \A a \in current_base + 1 .. stack_top - 1 : Sound(mem[a])
    /\ pc \in Closing => \A i \in 1 .. FrameLength : Sound(FrameWord(i))

\* At pop the structure is complete.
Installed ==
    pc = "pop" =>
        /\ todo = 0
        /\ mem[write_cursor] = LengthWord(current_structure_tag, FrameLength)

DocInv == Inv /\ Nested /\ OwnFrameSound /\ Installed

-----------------------------------------------------------------------------
(***************************************************************************)
(* What a step keeps.                                                      *)
(***************************************************************************)
\* While a structure is open or being closed.
LEMMA BuildingFacts ==
    ASSUME Inv, pc \in Opened \cup Closing
    PROVE  /\ structure_end \in Int /\ input_length \in Nat /\ p \in Nat
           /\ stack_top \in Nat /\ write_offset \in Nat /\ current_base \in Nat
           /\ current_base < stack_top /\ current_base < RootMarker
           /\ RootMarker \in Nat
           /\ FrameLength \in Nat /\ FrameLength = stack_top - current_base - 1
           /\ Finished \in Nat /\ Settled \in Nat
           /\ Finished <= Settled /\ Settled <= write_offset
           /\ pc \in Opened => Finished = write_offset /\ Settled = write_offset
           /\ pc = "pop" => Settled = write_offset
           /\ pc \in Closing => Finished = write_offset - FrameLength - 1
           /\ InstalledFrom = structure_end - Settled
           /\ 0 .. stack_top - 1 \subseteq DOMAIN mem
           /\ InstalledFrom .. structure_end - 1 \subseteq DOMAIN mem
           /\ current_structure_tag \in StructureTags
<1>1. /\ structure_end \in Int /\ input_length \in Nat /\ p \in Nat
      /\ input_length \in Lengths /\ p <= input_length
      /\ stack_top \in Nat /\ write_offset \in Nat /\ current_base \in Nat
      /\ current_structure_tag \in StructureTags
  BY SizesAssumption DEF Inv, TypeOK, structure_end
<1>2. /\ current_base < stack_top
      /\ 0 .. stack_top - 1 \subseteq DOMAIN mem
      /\ InstalledFrom .. structure_end - 1 \subseteq DOMAIN mem
      /\ pc \in Closing => FrameLength < write_offset
  BY DEF Inv, Written
<1>3. FrameLength \in Nat /\ FrameLength = stack_top - current_base - 1
  BY <1>1, <1>2 DEF FrameLength
<1>4. RootMarker \in Nat /\ input_length < RootMarker
  BY <1>1, RootMarkerAssumption
<1>5. current_base <= p
  BY <1>1, <1>2 DEF Inv, WordsPaidFor, Opened, Closing
<1>6. pc \in Opened => pc # "install" /\ pc # "pop" /\ pc \notin Closing
  BY DEF Opened, Closing
<1>7. pc \in Closing => pc = "install" \/ pc = "pop"
  BY DEF Closing
<1>8. write_cursor = structure_end - write_offset
  BY DEF write_cursor
<1>9. CASE pc \in Opened
  <2>1. InstalledFrom = structure_end - write_offset /\ Finished = write_offset
    BY <1>6, <1>8, <1>9 DEF InstalledFrom, Finished
  <2>2. Settled = write_offset
    BY <1>1, <2>1 DEF Settled
  <2> QED
    BY <1>1, <1>2, <1>3, <1>4, <1>5, <1>6, <1>9, <2>1, <2>2
<1>10. CASE pc \in Closing
  <2>1. /\ Finished = write_offset - FrameLength - 1
        /\ pc = "install" =>
              InstalledFrom = (structure_end - write_offset) + FrameLength + 1
        /\ pc = "pop" => InstalledFrom = structure_end - write_offset
    BY <1>8, <1>10 DEF InstalledFrom, Finished, Closing
  <2>2. /\ pc = "install" => Settled = write_offset - FrameLength - 1
        /\ pc = "pop" => Settled = write_offset
    BY <1>1, <1>3, <2>1 DEF Settled
  <2>3. InstalledFrom = structure_end - Settled
    BY <1>1, <1>3, <1>7, <1>10, <2>1, <2>2
  <2>4. /\ Finished \in Nat /\ Settled \in Nat
        /\ Finished <= Settled /\ Settled <= write_offset
    BY <1>1, <1>2, <1>3, <1>7, <1>10, <2>1, <2>2
  <2> QED
    BY <1>1, <1>2, <1>3, <1>4, <1>5, <1>6, <1>10, <2>1, <2>2, <2>3, <2>4
<1> QED
  BY <1>9, <1>10

\* The AST, read by write offset, consists of words.
LEMMA AstType == (TypeOK => ast \in AstWords) /\ (TypeOK' => ast' \in AstWords)
<1>1. Unwritten \in Words
  BY DEF Unwritten, Raw, Words
<1> QED
  BY <1>1 DEF TypeOK, ast, AstWords

\* Finished values stay, unless the parse is bound to fail.
LEMMA ValuesStay ==
    ASSUME Inv, pc \in Opened \cup Closing, SafeStep, ~Doomed',
           input_length' = input_length
    PROVE  /\ \A v \in 0 .. Settled : Vals'[v] = Vals[v]
           /\ \A w : Sound(w) => StackValue(Vals', w) = StackValue(Vals, w)
<1>1. structure_end' = structure_end
  BY DEF structure_end
<1>2. PICK n \in Nat : n = Settled /\ Finished \in Nat /\ Finished <= n
  BY BuildingFacts
<1>3. \A u \in 1 .. n : ast'[u] = ast[u]
  <2> SUFFICES ASSUME NEW u \in 1 .. n PROVE ast'[u] = ast[u]
    OBVIOUS
  <2>1. PICK a \in Int : /\ a = structure_end - u
                         /\ a \in InstalledFrom .. structure_end - 1
    BY <1>2, BuildingFacts
  <2>2. a \in DOMAIN mem /\ a \in DOMAIN mem' /\ mem'[a] = mem[a]
    BY <2>1, BuildingFacts DEF SafeStep, StackKept, FinishedKept
  <2>3. ast[u] = mem[a]
    BY <2>1, <2>2 DEF ast
  <2>4. ast'[u] = mem'[a]
    BY <1>1, <2>1, <2>2 DEF ast
  <2> QED
    BY <2>2, <2>3, <2>4
<1>4. ast \in AstWords /\ ast' \in AstWords
  BY AstType DEF Inv, SafeStep
<1>5. \A v \in 0 .. n : Values(ast')[v] = Values(ast)[v]
  BY <1>2, <1>3, <1>4, ValuesKept
<1>6. Vals = Values(ast) /\ Vals' = Values(ast')
  BY DEF Vals
<1>7. \A v \in 0 .. n : Vals'[v] = Vals[v]
  BY <1>5, <1>6
<1>8. ASSUME NEW w, Sound(w)
      PROVE  StackValue(Vals', w) = StackValue(Vals, w)
  <2>1. w.tag # "raw" => Vals'[w.val] = Vals[w.val]
    BY <1>2, <1>7, <1>8 DEF Sound
  <2> QED
    BY <2>1 DEF StackValue
<1> QED
  BY <1>2, <1>7, <1>8

\* And so do the structures around the innermost.
LEMMA EnclosingStays ==
    ASSUME Inv, pc \in Opened \cup Closing, SafeStep, ~Doomed',
           input_length' = input_length, Nested
    PROVE  Around(mem', Vals', OwnHeader, current_base) = Enclosing
<1>1. PICK B \in SUBSET (0 .. current_base) : NestedAt(B)
  BY DEF Nested
<1>2. B \in SUBSET Nat /\ current_base \in Nat
  BY <1>1, BuildingFacts
<1>3. \A a \in 0 .. current_base - 1 : mem[a] = mem'[a]
  BY DEF SafeStep, StackKept
<1>4. \A a \in (0 .. current_base - 1) \ B :
          StackValue(Vals, mem[a]) = StackValue(Vals', mem'[a])
  <2>1. \A a \in (0 .. current_base - 1) \ B : Sound(mem[a])
    BY <1>1 DEF NestedAt
  <2> QED
    BY <1>3, <2>1, ValuesStay
<1>5. /\ Leads(B, OwnHeader, current_base)
      /\ \A b \in B : b < current_base => Leads(B, mem[b], b)
  BY <1>1 DEF NestedAt
<1>6. PICK h : h = OwnHeader
  OBVIOUS
<1>7. PICK vals : vals = Vals
  OBVIOUS
<1>8. PICK wals : wals = Vals'
  OBVIOUS
<1>9. PICK m : m = mem
  OBVIOUS
<1>10. PICK n : n = mem'
  OBVIOUS
<1>11. Around(m, vals, h, current_base) = Around(n, wals, h, current_base)
  BY <1>2, <1>3, <1>4, <1>5, <1>6, <1>7, <1>8, <1>9, <1>10, SameAround
<1> QED
  BY <1>6, <1>7, <1>8, <1>9, <1>10, <1>11 DEF Enclosing

-----------------------------------------------------------------------------
(***************************************************************************)
(* The refinement, action by action.                                       *)
(***************************************************************************)
DocStep ==
    /\ DocInv'
    /\ Document!Next \/ UNCHANGED <<openBar, statusBar, documentBar>>

\* What the mapping comes to while a structure is open.
LEMMA OpenedMap ==
    /\ pc \in Opened /\ ~Doomed =>
          /\ statusBar = "building" /\ documentBar = <<>>
          /\ openBar = Append(Enclosing, OwnFrame)
    /\ (pc \in Opened /\ ~Doomed =>
          /\ statusBar = "building" /\ documentBar = <<>>
          /\ openBar = Append(Enclosing, OwnFrame))'
    /\ pc \in Opened /\ Doomed =>
          statusBar = "exhausted" /\ documentBar = <<>> /\ openBar = <<>>
    /\ (pc \in Opened /\ Doomed =>
          statusBar = "exhausted" /\ documentBar = <<>> /\ openBar = <<>>)'
  BY DEF openBar, statusBar, documentBar, ClosingRoot, Opened, Closing,
         Enclosing, OwnFrame, OwnHeader, Vals

\* And while one is being closed.
LEMMA ClosingMap ==
    /\ pc \in Closing /\ pop_element.val # RootMarker =>
          /\ statusBar = "building" /\ documentBar = <<>>
          /\ openBar = ClosedInto(Enclosing)
    /\ (pc \in Closing /\ pop_element.val # RootMarker =>
          /\ statusBar = "building" /\ documentBar = <<>>
          /\ openBar = ClosedInto(Enclosing))'
    /\ pc \in Closing /\ pop_element.val = RootMarker =>
          statusBar = "closed" /\ documentBar = ClosedStructure /\ openBar = <<>>
    /\ (pc \in Closing /\ pop_element.val = RootMarker =>
          statusBar = "closed" /\ documentBar = ClosedStructure /\ openBar = <<>>)'
  BY DEF openBar, statusBar, documentBar, ClosingRoot, Opened, Closing, Doomed,
         Enclosing, OwnHeader, Vals

\* An error ends the document.
LEMMA RejectDoc ==
    ASSUME DocInv, pc \in Running \cup {"make_allocator"}, Inv',
           pc' = "rejected"
    PROVE  DocStep
<1>1. /\ statusBar' = "rejected" /\ openBar' = <<>> /\ documentBar' = <<>>
      /\ statusBar \notin {"accepted", "rejected"}
  BY DEF statusBar, openBar, documentBar, ClosingRoot, Opened, Closing, Running
<1>2. Document!Next
  BY <1>1 DEF Document!Next, Document!Reject, Document!None
<1>3. DocInv'
  BY DEF DocInv, Nested, OwnFrameSound, Installed, Opened, Closing
<1> QED
  BY <1>2, <1>3 DEF DocStep

\* No step at all.
LEMMA StutterDoc ==
    ASSUME DocInv, UNCHANGED vars
    PROVE  DocStep
<1> USE DEF vars
<1>1. structure_end' = structure_end /\ write_cursor' = write_cursor
  BY DEF structure_end, write_cursor
<1>2. /\ ast' = ast /\ Vals' = Vals /\ FrameLength' = FrameLength
      /\ Finished' = Finished /\ Doomed' = Doomed /\ OwnHeader' = OwnHeader
  BY <1>1 DEF ast, Vals, FrameLength, Finished, Doomed, OwnHeader
<1>3. \A i : FrameWord(i)' = FrameWord(i)
  BY <1>1 DEF FrameWord, IsElement, Unrelocate
<1>4. ClosedStructure' = ClosedStructure
  BY <1>2, <1>3 DEF ClosedStructure
<1>5. UNCHANGED <<openBar, statusBar, documentBar>>
  BY <1>2, <1>4
  DEF openBar, statusBar, documentBar, ClosingRoot, ClosedInto, ast
<1>6. Inv'
  BY NextInv DEF DocInv, SafeStep
<1>7. Nested' /\ OwnFrameSound' /\ Installed'
  BY <1>1, <1>2, <1>3
  DEF DocInv, Nested, NestedAt, OwnFrameSound, Installed, Sound
<1> QED
  BY <1>5, <1>6, <1>7 DEF DocStep, DocInv

\* The innermost open structure is the one on top of the stack, and what it
\* awaits shows in how many words it has.
LEMMA OwnFrameIs ==
    ASSUME DocInv, pc \in Opened, ~Doomed
    PROVE  /\ IsList(Enclosing)
           /\ Document!Innermost = OwnFrame
           /\ OwnFrame.kind = current_structure_tag
           /\ current_structure_tag = "array" => OwnFrame.key = <<>>
           /\ current_structure_tag = "object" =>
                /\ FrameLength % 3 = 2 => OwnFrame.key # <<>>
                /\ FrameLength % 3 # 2 => OwnFrame.key = <<>>
<1>1. current_base \in Nat /\ FrameLength = stack_top - current_base - 1
  BY BuildingFacts DEF DocInv
<1>2. IsList(Enclosing)
  BY <1>1, AroundIsList DEF Enclosing
<1>3. Document!Innermost = OwnFrame
  BY <1>2, LastOfList, OpenedMap DEF Document!Innermost
<1>4. \A x, y : <<x, y>> # <<>>
  OBVIOUS
<1>5. PICK w : OwnFrame = FrameOf(Vals, current_structure_tag, FrameLength, w)
  BY <1>1 DEF OwnFrame, FrameAt
<1> QED
  BY <1>2, <1>3, <1>4, <1>5 DEF FrameOf

LEMMA InnermostAwaitsValue ==
    ASSUME DocInv, pc \in Opened, ~Doomed,
           current_structure_tag = "object" => FrameLength % 3 = 2
    PROVE  Document!AwaitsValue(Document!Innermost)
<1>1. current_structure_tag \in StructureTags
  BY BuildingFacts DEF DocInv
<1> QED
  BY <1>1, OwnFrameIs DEF Document!AwaitsValue, Document!None, StructureTags

\* A structure just opened has nothing in it.
LEMMA EmptyFrame ==
    ASSUME NEW m, NEW vals, NEW t \in StructureTags, NEW base \in Nat
    PROVE  FrameAt(m, vals, t, base, base + 1) = Document!Frame(t, <<>>, <<>>)
<1>1. (base + 1) - base - 1 = 0 /\ MembersOf(0) = 0 /\ 0 % 3 # 2
  BY DEF MembersOf
<1>2. FrameAt(m, vals, t, base, base + 1)
        = FrameOf(vals, t, 0, [i \in 1 .. 0 |-> m[base + i]])
  BY <1>1 DEF FrameAt
<1>3. \A w : Items(vals, t, 0, w) = <<>>
  BY <1>1 DEF Items
<1> QED
  BY <1>1, <1>2, <1>3 DEF FrameOf, Document!Frame

\* The bracket of the root.
LEMMA OpenRootDoc ==
    ASSUME DocInv, pc = "parse", SafeStep, NEW r, NEW t \in StructureTags,
           OpenStructure(r, t, Element(t, RootMarker))
    PROVE  DocStep
<1>1. CASE pc' = "rejected"
  BY <1>1, RejectDoc DEF SafeStep, Running
<1>2. CASE /\ mem' = Store(mem, At(stack_top, Element(t, RootMarker)))
           /\ current_base' = stack_top
           /\ stack_top' = stack_top + 1
           /\ current_structure_tag' = t
           /\ pc' = AfterOpening(t)
  <2>1. /\ pc' \in Opened /\ pc' \notin Closing /\ pc' # "pop"
        /\ stack_top = 0 /\ current_base' = 0 /\ stack_top' = 1 /\ ~Doomed'
        /\ RootMarker \notin 0 .. 0 - 1
    BY <1>2, RootMarkerAssumption
    DEF AfterOpening, Opened, Closing, Doomed, DocInv, Inv, Untouched
  <2>2. OwnHeader' = Element(t, RootMarker)
    BY <1>2, <2>1 DEF OwnHeader, Store, At
  <2>3. OwnHeader'.val = RootMarker
    BY <2>2 DEF Element
  <2>4. Enclosing' = <<>>
    BY <2>1, <2>3, AroundIs DEF Enclosing
  <2>5. OwnFrame' = Document!Frame(t, <<>>, <<>>)
    <3>1. OwnFrame' = FrameAt(mem', Vals', t, 0, 0 + 1)
      BY <1>2, <2>1 DEF OwnFrame
    <3> QED
      BY <3>1, EmptyFrame
  <2>6. /\ statusBar' = "building" /\ documentBar' = <<>>
        /\ openBar' = Append(<<>>, Document!Frame(t, <<>>, <<>>))
    BY <2>1, <2>4, <2>5, OpenedMap
  <2>7. statusBar = "start" /\ documentBar = <<>>
    BY DEF statusBar, documentBar, ClosingRoot, Opened, Closing
  <2>8. Document!OpenRoot
    <3>1. t \in Document!Kinds
      BY DEF StructureTags, Document!Kinds
    <3>2. \A f : Append(<<>>, f) = <<f>>
      OBVIOUS
    <3> QED
      BY <2>6, <2>7, <3>1, <3>2 DEF Document!OpenRoot, Document!None
  <2>9. Nested'
    <3>1. PICK B : B = {0}
      OBVIOUS
    <3>2. NestedAt(B)'
      BY <2>1, <2>3, <3>1 DEF NestedAt, Leads
    <3> QED
      BY <2>1, <3>1, <3>2 DEF Nested
  <2>10. OwnFrameSound' /\ Installed'
    BY <2>1 DEF OwnFrameSound, Installed
  <2> QED
    BY <2>8, <2>9, <2>10 DEF DocStep, DocInv, SafeStep, Document!Next
<1> QED
  BY <1>1, <1>2 DEF OpenStructure, Reject

\* The bracket of a structure inside another.
LEMMA OpenNestedDoc ==
    ASSUME DocInv, pc \in Opened, ~Doomed, SafeStep, NEW r,
           NEW t \in StructureTags,
           current_structure_tag = "object" => FrameLength % 3 = 2,
           OpenStructure(r, t, Element(current_structure_tag, current_base))
    PROVE  DocStep
<1>1. CASE pc' = "rejected"
  BY <1>1, RejectDoc DEF SafeStep, Running, Opened
<1> DEFINE header == Element(current_structure_tag, current_base)
<1>2. CASE /\ mem' = Store(mem, At(stack_top, header))
           /\ current_base' = stack_top
           /\ stack_top' = stack_top + 1
           /\ current_structure_tag' = t
           /\ pc' = AfterOpening(t)
           /\ UNCHANGED <<input_length, write_offset>>
  <2>1. /\ pc' \in Opened /\ pc' \notin Closing /\ pc' # "pop" /\ ~Doomed'
        /\ pc \notin Closing
    BY <1>2 DEF AfterOpening, Opened, Closing, Doomed
  <2>2. /\ stack_top \in Nat /\ current_base \in Nat /\ current_base < stack_top
        /\ Finished = write_offset /\ write_offset \in Nat
        /\ current_structure_tag \in StructureTags
    BY BuildingFacts DEF DocInv
  <2>3. Finished' = Finished
    BY <1>2, <2>1, <2>2 DEF Finished
  <2>4. OwnHeader' = header /\ mem'[stack_top] = header
    BY <1>2, <2>1 DEF OwnHeader, Store, At
  <2>5. header.val = current_base /\ header.tag = current_structure_tag
    BY DEF Element
  <2>6. \A a \in 0 .. stack_top - 1 : mem'[a] = mem[a]
    BY <2>1 DEF SafeStep, StackKept
  <2>7. Around(mem', Vals', OwnHeader, current_base) = Enclosing
    BY <1>2, <2>1, EnclosingStays DEF DocInv
  <2>8. OwnHeader = mem[current_base] /\ mem'[current_base] = mem[current_base]
    BY <2>1, <2>2, <2>6 DEF OwnHeader
  <2>9. FrameAt(mem', Vals', current_structure_tag, current_base, stack_top)
            = OwnFrame
    <3>1. \A a \in current_base + 1 .. stack_top - 1 :
              /\ mem[a] = mem'[a]
              /\ StackValue(Vals, mem[a]) = StackValue(Vals', mem'[a])
      <4>1. \A a \in current_base + 1 .. stack_top - 1 :
                Sound(mem[a]) /\ a \in 0 .. stack_top - 1
        BY <2>2 DEF DocInv, OwnFrameSound
      <4> QED
        BY <1>2, <2>1, <2>6, <4>1, ValuesStay DEF DocInv
    <3>2. PICK vals : vals = Vals
      OBVIOUS
    <3>3. PICK wals : wals = Vals'
      OBVIOUS
    <3> QED
      BY <2>2, <3>1, <3>2, <3>3, SameFramesAt DEF OwnFrame
  <2>10. Enclosing' = Append(Enclosing, OwnFrame)
    <3>1. header.val \in 0 .. stack_top - 1
      BY <2>2, <2>5
    <3>2. PICK wals : wals = Vals'
      OBVIOUS
    <3>3. PICK n : n = mem'
      OBVIOUS
    <3> HIDE DEF header
    <3>4. Around(n, wals, header, stack_top)
            = Append(Around(n, wals, n[header.val], header.val),
                     FrameAt(n, wals, header.tag, header.val, stack_top))
      BY <2>2, <3>1, AroundIs
    <3>5. Enclosing' = Around(n, wals, header, stack_top)
      BY <1>2, <2>4, <3>2, <3>3 DEF Enclosing
    <3> QED
      BY <2>5, <2>7, <2>8, <2>9, <3>2, <3>3, <3>4, <3>5
  <2>11. OwnFrame' = Document!Frame(t, <<>>, <<>>)
    <3>1. OwnFrame' = FrameAt(mem', Vals', t, stack_top, stack_top + 1)
      BY <1>2 DEF OwnFrame
    <3> QED
      BY <2>2, <3>1, EmptyFrame
  <2>12. Document!OpenNested
    <3>1. /\ statusBar = "building" /\ documentBar = <<>>
          /\ openBar = Append(Enclosing, OwnFrame)
          /\ statusBar' = "building" /\ documentBar' = <<>>
          /\ openBar' = Append(openBar, Document!Frame(t, <<>>, <<>>))
      BY <2>1, <2>10, <2>11, OpenedMap
    <3>2. Document!AwaitsValue(Document!Innermost)
      BY <3>1, InnermostAwaitsValue
    <3>3. t \in Document!Kinds
      BY DEF StructureTags, Document!Kinds
    <3> QED
      BY <3>1, <3>2, <3>3 DEF Document!OpenNested, Document!None
  <2>13. Nested'
    <3>1. PICK B \in SUBSET (0 .. current_base) : NestedAt(B)
      BY DEF DocInv, Nested, Opened
    <3>2. PICK C : C = B \cup {stack_top}
      OBVIOUS
    <3>3. /\ \A b \in B : b \in Nat /\ b <= current_base
          /\ \A c \in C : c = stack_top \/ c \in B
      BY <2>2, <3>1, <3>2
    <3>4. ASSUME NEW b \in B PROVE Leads(C, mem'[b], b)
      <4>1. Leads(B, mem[b], b)
        BY <2>1, <2>2, <2>8, <3>1, <3>3 DEF NestedAt
      <4>2. b \in Nat /\ b < stack_top /\ b \in 0 .. stack_top - 1
        BY <2>2, <3>3
      <4>3. mem'[b] = mem[b]
        BY <2>6, <4>2
      <4>4. PICK w : w = mem[b]
        OBVIOUS
      <4>5. Leads(C, w, b)
        BY <2>2, <3>2, <3>3, <4>1, <4>2, <4>4 DEF Leads
      <4> QED
        BY <4>3, <4>4, <4>5
    <3>5. Leads(C, OwnHeader', stack_top)
      <4>1. OwnHeader'.val = current_base /\ current_base \in C
        BY <2>4, <2>5, <3>1, <3>2 DEF NestedAt
      <4> QED
        BY <2>2, <3>3, <4>1 DEF Leads
    <3>6. ASSUME NEW a \in (0 .. stack_top - 1) \ C PROVE Sound(mem[a])'
      <4>1. mem'[a] = mem[a] /\ a # current_base
        BY <2>6, <3>1, <3>2, <3>6 DEF NestedAt
      <4>2. \/ a \in (0 .. current_base - 1) \ B
            \/ a \in current_base + 1 .. stack_top - 1
        BY <2>2, <3>2, <3>6, <4>1
      <4>3. Sound(mem[a])
        BY <3>1, <4>2 DEF NestedAt, DocInv, OwnFrameSound
      <4> QED
        BY <2>3, <4>1, <4>3 DEF Sound
    <3>7. NestedAt(C)'
      <4>1. ASSUME NEW b \in C, b < stack_top PROVE Leads(C, mem'[b], b)
        <5>1. b \in B
          BY <2>2, <3>3, <4>1
        <5> QED
          BY <3>4, <5>1
      <4>2. stack_top \in C
        BY <3>2
      <4> QED
        BY <1>2, <3>5, <3>6, <4>1, <4>2 DEF NestedAt
    <3>8. C \in SUBSET (0 .. current_base')
      BY <1>2, <2>2, <3>2, <3>3
    <3> QED
      BY <3>7, <3>8 DEF Nested
  <2>14. OwnFrameSound' /\ Installed'
    <3>1. stack_top + 1 .. (stack_top + 1) - 1 = {}
      BY <2>2
    <3> QED
      BY <1>2, <2>1, <3>1 DEF OwnFrameSound, Installed
  <2> QED
    BY <2>12, <2>13, <2>14 DEF DocStep, DocInv, SafeStep, Document!Next
<1> QED
  BY <1>1, <1>2 DEF OpenStructure, Reject

\* Where a text or a number is, is an offset into the input.
LEMMA KeyTexts ==
    ASSUME Inv, NEW r \in Nat, NEW q \in StringEnds(r), NEW e \in DecodedEnds(r, q)
    PROVE  <<r + 1, e>> \in Texts
<1>1. input_length \in Lengths /\ input_length \in Nat
  BY SizesAssumption DEF Inv, TypeOK
<1>2. q \in Nat /\ q >= r + 2 /\ q <= input_length
  BY <1>1, SizesAssumption DEF StringEnds
<1>3. PICK k \in 0 .. (q - r) - 2 : e = (r + 1) + k
  BY <1>2 DEF DecodedEnds, DecodedLengths
<1>4. r + 1 \in 0 .. input_length /\ e \in 0 .. input_length /\ r + 1 <= e
  BY <1>1, <1>2, <1>3
<1>5. r + 1 \in Offsets /\ e \in Offsets
  BY <1>1, <1>4 DEF Offsets
<1> QED
  BY <1>4, <1>5 DEF Texts

\* Steps that put words on the stack, and values into the AST, of the same
\* innermost structure.
LEMMA GrownInv ==
    ASSUME DocInv, SafeStep, pc \in Opened, pc' \in Opened,
           UNCHANGED <<input_length, current_base, current_structure_tag>>,
           write_offset <= write_offset', stack_top <= stack_top',
           \A a \in stack_top .. stack_top' - 1 : Sound(mem[a])'
    PROVE  DocInv'
<1>1. /\ stack_top \in Nat /\ current_base \in Nat /\ current_base < stack_top
      /\ write_offset \in Nat /\ stack_top' \in Nat /\ write_offset' \in Nat
      /\ Finished = write_offset
  BY BuildingFacts DEF DocInv, SafeStep, Inv, TypeOK
<1>2. pc \notin Closing /\ pc' \notin Closing /\ pc' # "pop"
  BY DEF Opened, Closing
<1>3. Finished' = write_offset' /\ OwnHeader' = mem'[current_base]
  BY <1>2 DEF Finished, OwnHeader
<1>4. \A a \in 0 .. stack_top - 1 : mem'[a] = mem[a]
  BY DEF SafeStep, StackKept
<1>5. OwnHeader' = OwnHeader
  BY <1>1, <1>2, <1>3, <1>4 DEF OwnHeader
<1>6. ASSUME NEW a \in 0 .. stack_top - 1, Sound(mem[a]) PROVE Sound(mem[a])'
  BY <1>1, <1>3, <1>4, <1>6 DEF Sound
<1>7. Nested'
  <2>1. PICK B \in SUBSET (0 .. current_base) : NestedAt(B)
    BY DEF DocInv, Nested
  <2>2. \A b \in B : b < current_base => Leads(B, mem'[b], b)
    <3> SUFFICES ASSUME NEW b \in B, b < current_base
                 PROVE  Leads(B, mem'[b], b)
      OBVIOUS
    <3>1. b \in 0 .. stack_top - 1
      BY <1>1
    <3> QED
      BY <1>4, <2>1, <3>1 DEF NestedAt
  <2>3. \A a \in (0 .. current_base - 1) \ B : Sound(mem[a])'
    <3> SUFFICES ASSUME NEW a \in (0 .. current_base - 1) \ B
                 PROVE  Sound(mem[a])'
      OBVIOUS
    <3>1. a \in 0 .. stack_top - 1
      BY <1>1
    <3> QED
      BY <1>6, <2>1, <3>1 DEF NestedAt
  <2>4. NestedAt(B)'
    BY <1>5, <2>1, <2>2, <2>3 DEF NestedAt
  <2> QED
    BY <2>1, <2>4 DEF Nested
<1>8. OwnFrameSound'
  <2>1. ASSUME NEW x \in current_base + 1 .. stack_top' - 1, x < stack_top
        PROVE  Sound(mem[x])'
    <3>1. x \in current_base + 1 .. stack_top - 1 /\ x \in 0 .. stack_top - 1
      BY <1>1, <2>1
    <3>2. Sound(mem[x])
      BY <3>1 DEF DocInv, OwnFrameSound
    <3> QED
      BY <1>6, <3>1, <3>2
  <2>2. \A x \in current_base + 1 .. stack_top' - 1 :
            x < stack_top \/ x \in stack_top .. stack_top' - 1
    <3>1. PICK t \in Nat : t = stack_top'
      BY <1>1
    <3>2. PICK b \in Nat : b = current_base
      BY <1>1
    <3>3. PICK u \in Nat : u = stack_top
      BY <1>1
    <3>4. \A x \in b + 1 .. t - 1 : x < u \/ x \in u .. t - 1
      OBVIOUS
    <3> QED
      BY <3>1, <3>2, <3>3, <3>4
  <2>3. \A x \in current_base + 1 .. stack_top' - 1 : Sound(mem[x])'
    BY <2>1, <2>2
  <2> QED
    BY <1>2, <2>3 DEF OwnFrameSound
<1> QED
  BY <1>2, <1>7, <1>8 DEF DocInv, SafeStep, Installed

\* What was there before stands for what it stood for.
LEMMA GrownKeeps ==
    ASSUME DocInv, SafeStep, pc \in Opened, pc' \in Opened, ~Doomed',
           UNCHANGED <<input_length, current_base>>
    PROVE  /\ Enclosing' = Enclosing
           /\ \A a \in current_base + 1 .. stack_top - 1 :
                 /\ mem[a] = mem'[a]
                 /\ StackValue(Vals, mem[a]) = StackValue(Vals', mem'[a])
<1>1. stack_top \in Nat /\ current_base \in Nat /\ current_base < stack_top
  BY BuildingFacts DEF DocInv
<1>2. \A a \in 0 .. stack_top - 1 : mem'[a] = mem[a]
  BY DEF SafeStep, StackKept
<1>3. OwnHeader' = OwnHeader
  BY <1>1, <1>2 DEF OwnHeader, Opened, Closing
<1>4. Enclosing' = Enclosing
  BY <1>3, EnclosingStays DEF DocInv, Enclosing
<1>5. \A a \in current_base + 1 .. stack_top - 1 :
          Sound(mem[a]) /\ a \in 0 .. stack_top - 1
  BY <1>1 DEF DocInv, OwnFrameSound
<1> QED
  BY <1>2, <1>4, <1>5, ValuesStay DEF DocInv

\* A delimiter.
LEMMA SkipDoc ==
    ASSUME DocInv, SafeStep, pc \in Opened, ~Doomed, NEW r, NEW label,
           label \in {"next_element", "object_key"},
           Skip(r, label)
    PROVE  DocStep
<1>1. pc' \in Opened /\ ~Doomed'
  BY DEF Skip, Opened, Doomed
<1>2. stack_top \in Nat /\ write_offset \in Nat /\ current_base \in Nat
      /\ current_base < stack_top
  BY BuildingFacts DEF DocInv
<1>3. DocInv'
  <2>1. stack_top .. stack_top - 1 = {}
    BY <1>2
  <2> QED
    BY <1>1, <1>2, <2>1, GrownInv DEF Skip
<1>4. Enclosing' = Enclosing
  BY <1>1, GrownKeeps DEF Skip
<1>5. OwnFrame' = OwnFrame
  <2>1. structure_end' = structure_end
    BY DEF Skip, structure_end
  <2>2. ast' = ast
    BY <2>1 DEF Skip, ast
  <2> QED
    BY <2>2 DEF Skip, OwnFrame, Vals
<1> QED
  BY <1>1, <1>3, <1>4, <1>5, OpenedMap DEF DocStep

\* A key.
LEMMA KeyDoc ==
    ASSUME DocInv, SafeStep, pc \in Opened, ~Doomed, NEW r \in Nat,
           current_structure_tag = "object", FrameLength % 3 = 0,
           Key(r)
    PROVE  DocStep
<1>1. CASE pc' = "rejected"
  BY <1>1, RejectDoc DEF SafeStep, Running, Opened
<1>2. CASE pc' # "rejected"
  <2>1. PICK q \in StringEnds(r) : \E e \in DecodedEnds(r, q) :
            /\ mem' = Store(mem, Pair(stack_top, Raw(r + 1), Raw(e)))
            /\ stack_top' = stack_top + 2
            /\ pc' = "expect_colon"
            /\ UNCHANGED <<input_length, write_offset, current_base,
                           current_structure_tag>>
    BY <1>2 DEF Key, Reject
  <2>2. PICK e \in DecodedEnds(r, q) :
            /\ mem' = Store(mem, Pair(stack_top, Raw(r + 1), Raw(e)))
            /\ stack_top' = stack_top + 2
            /\ pc' = "expect_colon"
            /\ UNCHANGED <<input_length, write_offset, current_base,
                           current_structure_tag>>
    BY <2>1
  <2>3. /\ stack_top \in Nat /\ current_base \in Nat /\ current_base < stack_top
        /\ write_offset \in Nat
        /\ FrameLength = stack_top - current_base - 1
    BY BuildingFacts DEF DocInv
  <2>4. pc' \in Opened /\ ~Doomed'
    BY <2>2 DEF Opened, Doomed
  <2>5. mem'[stack_top] = Raw(r + 1) /\ mem'[stack_top + 1] = Raw(e)
    BY <2>2, <2>3 DEF Store, Pair
  <2>6. DocInv'
    <3>1. \A a \in stack_top .. stack_top' - 1 : a = stack_top \/ a = stack_top + 1
      BY <2>2, <2>3
    <3>2. \A a \in stack_top .. stack_top' - 1 : Sound(mem[a])'
      BY <2>5, <3>1 DEF Sound, Raw
    <3> QED
      BY <2>2, <2>3, <2>4, <3>2, GrownInv
  <2>7. /\ Enclosing' = Enclosing
        /\ \A a \in current_base + 1 .. stack_top - 1 :
              /\ mem[a] = mem'[a]
              /\ StackValue(Vals, mem[a]) = StackValue(Vals', mem'[a])
    BY <2>2, <2>4, GrownKeeps
  <2>8. PICK k : k = <<r + 1, e>>
    OBVIOUS
  <2>9. OwnFrame' = [OwnFrame EXCEPT !.key = k]
    <3>1. PICK vals : vals = Vals
      OBVIOUS
    <3>2. PICK wals : wals = Vals'
      OBVIOUS
    <3>a. PICK m : m = mem
      OBVIOUS
    <3>b. PICK n : n = mem'
      OBVIOUS
    <3>c. /\ (stack_top - current_base - 1) % 3 = 0
          /\ \A a \in current_base + 1 .. stack_top - 1 :
                /\ m[a] = n[a]
                /\ StackValue(vals, m[a]) = StackValue(wals, n[a])
      BY <2>3, <2>7, <3>1, <3>2, <3>a, <3>b
    <3>d. FrameAt(n, wals, "object", current_base, stack_top + 2)
            = [FrameAt(m, vals, "object", current_base, stack_top)
                  EXCEPT !.key = <<n[stack_top].val, n[stack_top + 1].val>>]
      BY <2>3, <3>c, FrameWithKey
    <3>3. FrameAt(mem', wals, "object", current_base, stack_top + 2)
            = [FrameAt(mem, vals, "object", current_base, stack_top)
                  EXCEPT !.key = <<mem'[stack_top].val,
                                   mem'[stack_top + 1].val>>]
      BY ONLY <3>a, <3>b, <3>d
    <3>4. <<mem'[stack_top].val, mem'[stack_top + 1].val>> = k
      BY <2>5, <2>8 DEF Raw
    <3>5. /\ OwnFrame = FrameAt(mem, vals, "object", current_base, stack_top)
          /\ OwnFrame' = FrameAt(mem', wals, "object", current_base,
                                 stack_top + 2)
      BY <2>2, <3>1, <3>2 DEF OwnFrame
    <3> QED
      BY ONLY <3>3, <3>4, <3>5
  <2>10. /\ statusBar = "building" /\ documentBar = <<>>
         /\ openBar = Append(Enclosing, OwnFrame)
         /\ statusBar' = "building" /\ documentBar' = <<>>
         /\ openBar' = Append(Enclosing, [OwnFrame EXCEPT !.key = k])
    BY <2>4, <2>7, <2>9, OpenedMap
  <2>11. openBar' = [openBar EXCEPT ![Len(openBar)].key = k]
    <3>1. PICK s : s = Enclosing /\ IsList(s)
      BY OwnFrameIs
    <3>2. PICK f : f = OwnFrame
      OBVIOUS
    <3>3. PICK g : g = [f EXCEPT !.key = k]
      OBVIOUS
    <3>4. PICK a : a = Append(s, f) /\ a[Len(a)] = f
      BY <3>1, LastOfList
    <3>5. [a EXCEPT ![Len(a)] = g] = Append(s, g)
      BY <3>1, <3>4, LastOfList
    <3>6. [a EXCEPT ![Len(a)].key = k] = [a EXCEPT ![Len(a)] = g]
      BY <3>3, <3>4
    <3>7. openBar = a /\ openBar' = Append(s, g)
      BY <2>10, <3>1, <3>2, <3>3, <3>4
    <3> QED
      BY ONLY <3>5, <3>6, <3>7
  <2>12. k \in Texts
    BY <2>8, KeyTexts DEF DocInv
  <2>13. Document!Key
    <3>1. /\ Document!Innermost = OwnFrame /\ OwnFrame.kind = "object"
          /\ OwnFrame.key = <<>>
      BY OwnFrameIs
    <3>2. openBar' \in Document!WithKey(openBar, Texts)
      BY ONLY <2>11, <2>12 DEF Document!WithKey
    <3> QED
      BY <2>10, <3>1, <3>2
      DEF Document!Key, Document!AwaitsKey, Document!None
  <2> QED
    BY <2>6, <2>13 DEF DocStep, Document!Next
<1> QED
  BY <1>1, <1>2

\* An element pushed when the parse may still succeed is above no word of the
\* AST.
LEMMA PushedApart ==
    ASSUME Inv, Inv', pc \in Opened, pc' = "structure_close_or_comma", ~Doomed',
           input_length' = input_length, stack_top' = stack_top + 1
    PROVE  \A a \in structure_end - write_offset' .. structure_end - 1 :
              a # stack_top
<1>1. /\ stack_top \in Nat /\ structure_end \in Int /\ input_length \in Nat
  BY BuildingFacts
<1>2. write_offset' \in Nat /\ p' \in Nat /\ p' <= input_length
  BY <1>1 DEF Inv, TypeOK
<1>3. structure_end' = structure_end
  BY DEF structure_end
<1>a. PICK w \in Nat : w = write_offset'
  BY <1>2
<1>b. PICK s \in Int : s = structure_end
  BY <1>1
<1>c. PICK u \in Nat : u = stack_top
  BY <1>1
<1>4. ASSUME Strategy = "dynamic" PROVE s = 0
  BY <1>b, <1>4 DEF structure_end
<1>5. ASSUME Strategy = "bounded" PROVE u + 1 <= s - w
  BY <1>3, <1>5, <1>a, <1>b, <1>c DEF Inv, BuffersNeverMeet, write_cursor
<1>6. ASSUME Strategy \in {"single", "existing"} PROVE u + 1 <= s - w
  <2>1. structure_end = input_length
    BY <1>6 DEF structure_end
  <2>2. p' < input_length
    BY <1>1, <1>2 DEF Doomed
  <2>3. (stack_top + 1) + write_offset' <= p' + 1
    BY DEF Inv, WordsPaidFor
  <2>4. PICK x \in Nat : x = p' /\ x < input_length
    BY <1>2, <2>2
  <2>5. (u + 1) + w <= x + 1
    BY <1>a, <1>c, <2>3, <2>4
  <2>6. x < s
    BY <1>b, <2>1, <2>4
  <2>7. u + 1 <= s - w
    BY <2>5, <2>6
  <2> QED
    BY <2>7
<1>7. s = 0 \/ u + 1 <= s - w
  BY <1>4, <1>5, <1>6, StrategyAssumption DEF Strategies
<1>8. \A a \in s - w .. s - 1 : a # u
  BY <1>7
<1> QED
  BY <1>8, <1>a, <1>b, <1>c

\* The value at a write offset, from the words at and below it.
LEMMA NewValue ==
    ASSUME TypeOK', NEW t \in ValueTags, NEW v \in Nat
    PROVE  Vals'[v][t] = ValueAt(ast', Vals', v, t)
<1>1. ast' \in AstWords
  BY AstType
<1>2. Vals' = Values(ast')
  BY DEF Vals
<1> QED
  BY <1>1, <1>2, ValuesEquation

\* A scalar has been put on top of the stack; or the input has ended.
LEMMA PushedDoc ==
    ASSUME DocInv, SafeStep, pc \in Opened, ~Doomed,
           current_structure_tag = "object" => FrameLength % 3 = 2,
           NEW t \in ValueTags,
           write_offset <= write_offset',
           stack_top' = stack_top + 1,
           pc' = "structure_close_or_comma",
           UNCHANGED <<input_length, current_base, current_structure_tag>>,
           mem'[stack_top] = Element(t, write_offset'),
           ~Doomed' => Vals'[write_offset'][t] \in ScalarsBar
    PROVE  DocStep
<1>1. /\ stack_top \in Nat /\ current_base \in Nat /\ current_base < stack_top
      /\ write_offset \in Nat /\ current_structure_tag \in StructureTags
      /\ FrameLength = stack_top - current_base - 1
      /\ write_offset' \in Nat
  BY BuildingFacts DEF DocInv, SafeStep, Inv, TypeOK
<1>2. pc' \in Opened /\ pc' \notin Closing
  BY DEF Opened, Closing
<1>3. DocInv'
  <2>1. \A a \in stack_top .. stack_top' - 1 : a = stack_top
    BY <1>1
  <2>2. Finished' = write_offset'
    BY <1>2 DEF Finished
  <2>3. \A a \in stack_top .. stack_top' - 1 : Sound(mem[a])'
    BY <1>1, <2>1, <2>2 DEF Sound, Element
  <2> QED
    BY <1>1, <1>2, <2>3, GrownInv
<1>4. statusBar = "building" /\ documentBar = <<>>
      /\ openBar = Append(Enclosing, OwnFrame)
  BY OpenedMap
<1>5. CASE Doomed'
  <2>1. statusBar' = "exhausted" /\ documentBar' = <<>> /\ openBar' = <<>>
    BY <1>2, <1>5, OpenedMap
  <2>2. Document!RunOut
    BY <1>4, <2>1 DEF Document!RunOut
  <2> QED
    BY <1>3, <2>2 DEF DocStep, Document!Next
<1>6. CASE ~Doomed'
  <2>1. /\ Enclosing' = Enclosing
        /\ \A a \in current_base + 1 .. stack_top - 1 :
              /\ mem[a] = mem'[a]
              /\ StackValue(Vals, mem[a]) = StackValue(Vals', mem'[a])
    BY <1>2, <1>6, GrownKeeps
  <2>2. PICK v : v = StackValue(Vals', mem'[stack_top]) /\ v \in ScalarsBar
    <3>1. t # "raw"
      BY DEF ValueTags, StructureTags
    <3> QED
      BY <1>6, <3>1 DEF StackValue, Element
  <2>3. OwnFrame' = Document!WithValue(OwnFrame, v)
    <3>1. PICK vals : vals = Vals
      OBVIOUS
    <3>2. PICK wals : wals = Vals'
      OBVIOUS
    <3>3. PICK m : m = mem
      OBVIOUS
    <3>4. PICK n : n = mem'
      OBVIOUS
    <3>5. PICK g : g = current_structure_tag /\ g \in StructureTags
      BY <1>1
    <3>6. /\ g = "object" => (stack_top - current_base - 1) % 3 = 2
          /\ \A a \in current_base + 1 .. stack_top - 1 :
                /\ m[a] = n[a]
                /\ StackValue(vals, m[a]) = StackValue(wals, n[a])
      BY <1>1, <2>1, <3>1, <3>2, <3>3, <3>4, <3>5
    <3>7. FrameAt(n, wals, g, current_base, stack_top + 1)
            = Document!WithValue(FrameAt(m, vals, g, current_base, stack_top),
                                 StackValue(wals, n[stack_top]))
      BY <1>1, <3>5, <3>6, FrameWithValue
    <3>8. /\ OwnFrame = FrameAt(m, vals, g, current_base, stack_top)
          /\ OwnFrame' = FrameAt(n, wals, g, current_base, stack_top + 1)
      BY <3>1, <3>2, <3>3, <3>4, <3>5 DEF OwnFrame
    <3>9. v = StackValue(wals, n[stack_top])
      BY <2>2, <3>2, <3>4
    <3> QED
      BY ONLY <3>7, <3>8, <3>9
  <2>4. /\ statusBar' = "building" /\ documentBar' = <<>>
        /\ openBar' = Append(Enclosing, Document!WithValue(OwnFrame, v))
    BY <1>2, <1>6, <2>1, <2>3, OpenedMap
  <2>5. openBar' = Document!PutIn(openBar, v)
    <3>1. PICK s : s = Enclosing /\ IsList(s)
      BY OwnFrameIs
    <3>2. PICK f : f = OwnFrame
      OBVIOUS
    <3>3. Document!PutIn(Append(s, f), v) = Append(s, Document!WithValue(f, v))
      BY <3>1, InnermostChanges
    <3>4. openBar = Append(s, f)
      BY <1>4, <3>1, <3>2
    <3>5. openBar' = Append(s, Document!WithValue(f, v))
      BY <2>4, <3>1, <3>2
    <3> QED
      BY ONLY <3>3, <3>4, <3>5
  <2>6. Document!AwaitsValue(Document!Innermost)
    BY InnermostAwaitsValue
  <2>7. openBar' \in Document!WithOneOf(openBar, ScalarsBar)
    BY ONLY <2>2, <2>5 DEF Document!WithOneOf
  <2>8. Document!Scalar
    BY <1>4, <2>4, <2>6, <2>7 DEF Document!Scalar
  <2> QED
    BY <1>3, <2>8 DEF DocStep, Document!Next
<1> QED
  BY <1>5, <1>6

\* What a value leaves behind: an element that leads to its words.
LEMMA PushedElement ==
    ASSUME Inv, pc \in Opened, NEW t, NEW q, NEW k \in Nat, NEW words,
           PushValue(t, q, words, write_offset + k), pc' # "rejected"
    PROVE  /\ write_offset' = write_offset + k /\ write_offset <= write_offset'
           /\ write_offset' \in Nat
           /\ stack_top' = stack_top + 1 /\ pc' = "structure_close_or_comma"
           /\ UNCHANGED <<input_length, current_base, current_structure_tag>>
           /\ mem' = Store(Store(mem, words),
                           At(stack_top, Element(t, write_offset')))
           /\ mem'[stack_top] = Element(t, write_offset')
<1>1. write_offset \in Nat
  BY BuildingFacts
<1>2. /\ mem' = Store(Store(mem, words), At(stack_top, Element(t, write_offset')))
      /\ write_offset' = write_offset + k
      /\ stack_top' = stack_top + 1 /\ pc' = "structure_close_or_comma"
      /\ UNCHANGED <<input_length, current_base, current_structure_tag>>
  BY DEF PushValue, Reject
<1>3. mem'[stack_top] = Element(t, write_offset')
  BY <1>2 DEF Store, At
<1> QED
  BY <1>1, <1>2, <1>3

LEMMA PushedWords ==
    ASSUME Inv, Inv', pc \in Opened, NEW t, NEW q, NEW words, NEW off,
           PushValue(t, q, words, off), pc' # "rejected", ~Doomed',
           NEW k \in Nat, off = write_offset + k,
           NEW i \in Nat, i < k,
           NEW a \in DOMAIN words, a = (write_cursor - k) + i
    PROVE  Payload(ast', write_offset', i) = words[a]
<1>1. /\ write_offset \in Nat /\ stack_top \in Nat /\ structure_end \in Int
      /\ write_cursor = structure_end - write_offset
  BY BuildingFacts DEF write_cursor
<1>2. /\ mem' = Store(Store(mem, words), At(stack_top, Element(t, write_offset')))
      /\ write_offset' = write_offset + k
      /\ stack_top' = stack_top + 1 /\ pc' = "structure_close_or_comma"
      /\ input_length' = input_length
  <2>1. PushValue(t, q, words, write_offset + k)
    OBVIOUS
  <2> QED
    BY <2>1, PushedElement
<1>3. PICK u \in Nat : u = write_offset' - i /\ u = (write_offset + k) - i
  BY <1>1, <1>2
<1>4. a \in Int /\ a = structure_end - u
  BY <1>1, <1>3
<1>5. a \in DOMAIN words /\ i < write_offset'
  BY <1>1, <1>2
<1>6. a # stack_top
  <2>1. \A x \in structure_end - write_offset' .. structure_end - 1 :
            x # stack_top
    BY <1>2, PushedApart
  <2>2. a \in structure_end - write_offset' .. structure_end - 1
    BY <1>1, <1>2, <1>3, <1>4
  <2> QED
    BY <2>1, <2>2
<1>7. a \in DOMAIN mem' /\ mem'[a] = words[a]
  BY <1>2, <1>5, <1>6 DEF Store, At
<1>8. structure_end' = structure_end
  BY <1>2 DEF structure_end
<1>9. ast'[u] = mem'[a]
  BY <1>3, <1>4, <1>7, <1>8 DEF ast
<1> QED
  BY <1>3, <1>4, <1>5, <1>7, <1>9 DEF Payload

\* A literal.
LEMMA LiteralDoc ==
    ASSUME DocInv, SafeStep, pc \in Opened, ~Doomed,
           current_structure_tag = "object" => FrameLength % 3 = 2,
           NEW r, Literal(r), pc' # "rejected"
    PROVE  DocStep
<1>1. PICK t \in {"null", "false", "true"} :
          PushValue(t, r + LiteralWidth[t], NoWords, write_offset)
  BY DEF Literal, Reject
<1>2. write_cursor \in Int /\ write_offset \in Nat
  BY BuildingFacts DEF DocInv, write_cursor
<1>4. PICK q : q = r + LiteralWidth[t]
  OBVIOUS
<1>5. PushValue(t, q, NoWords, write_offset + 0)
  BY <1>1, <1>2, <1>4
<1>6. /\ write_offset <= write_offset' /\ write_offset' \in Nat
      /\ stack_top' = stack_top + 1 /\ pc' = "structure_close_or_comma"
      /\ UNCHANGED <<input_length, current_base, current_structure_tag>>
      /\ mem'[stack_top] = Element(t, write_offset')
  BY <1>5, PushedElement DEF DocInv
<1>7. t \in ValueTags
  BY DEF ValueTags
<1>8. Vals'[write_offset'][t] = ValueAt(ast', Vals', write_offset', t)
  BY <1>6, <1>7, NewValue DEF SafeStep, Inv
<1>9. Vals'[write_offset'][t] \in ScalarsBar
  BY <1>8 DEF ValueAt, ScalarsBar
<1> QED
  BY <1>6, <1>7, <1>9, PushedDoc

\* A number.
LEMMA NumberDoc ==
    ASSUME DocInv, SafeStep, pc \in Opened, ~Doomed,
           current_structure_tag = "object" => FrameLength % 3 = 2,
           NEW r \in 0 .. input_length - 1, Number(r), pc' # "rejected"
    PROVE  DocStep
<1>1. PICK t \in {"integer", "double"} :
          \E w \in {x \in NumberWidthsOf(t) : r + x < input_length} :
            PushValue(t, r + w,
                      [a \in write_cursor - NumberWords[t] .. write_cursor - 1
                            |-> Raw(r)],
                      write_offset + NumberWords[t])
  BY DEF Number, Reject
<1>2. PICK w \in NumberWidthsOf(t) :
            PushValue(t, r + w,
                      [a \in write_cursor - NumberWords[t] .. write_cursor - 1
                            |-> Raw(r)],
                      write_offset + NumberWords[t])
  BY <1>1
<1>3. PICK k \in Nat : k = NumberWords[t] /\ 1 <= k
  BY NumberTokens
<1>4. PICK words : words = [a \in write_cursor - k .. write_cursor - 1 |-> Raw(r)]
  OBVIOUS
<1>5. PICK q : q = r + w
  OBVIOUS
<1>6. PushValue(t, q, words, write_offset + k)
  BY <1>2, <1>3, <1>4, <1>5
<1>8. write_cursor \in Int /\ write_offset \in Nat
  BY BuildingFacts DEF DocInv, write_cursor
<1>9. /\ write_offset <= write_offset' /\ write_offset' \in Nat
      /\ stack_top' = stack_top + 1 /\ pc' = "structure_close_or_comma"
      /\ UNCHANGED <<input_length, current_base, current_structure_tag>>
      /\ mem'[stack_top] = Element(t, write_offset')
  BY <1>6, PushedElement DEF DocInv
<1>10. t \in ValueTags
  BY DEF ValueTags
<1>11. Vals'[write_offset'][t] = ValueAt(ast', Vals', write_offset', t)
  BY <1>9, <1>10, NewValue DEF SafeStep, Inv
<1>12. ASSUME ~Doomed' PROVE Vals'[write_offset'][t] \in ScalarsBar
  <2>1. \A i \in 0 .. k - 1 : Payload(ast', write_offset', i).val = r
    <3> SUFFICES ASSUME NEW i \in 0 .. k - 1
                 PROVE  Payload(ast', write_offset', i).val = r
      OBVIOUS
    <3>1. PICK a \in write_cursor - k .. write_cursor - 1 :
              a = (write_cursor - k) + i
      BY <1>8
    <3>2. a \in DOMAIN words /\ words[a] = Raw(r)
      BY <1>4, <3>1
    <3>3. Inv /\ Inv' /\ i \in Nat /\ i < k
      BY DEF DocInv, SafeStep
    <3>4. Payload(ast', write_offset', i) = words[a]
      BY <1>6, <1>12, <3>1, <3>2, <3>3, PushedWords
    <3> QED
      BY <3>2, <3>4 DEF Raw
  <2>2. get_number_value(ast', write_offset', t) = {r}
    BY <1>3, <2>1 DEF get_number_value
  <2>3. Vals'[write_offset'][t] = <<t, {r}>>
    BY <1>11, <2>2 DEF ValueAt
  <2>4. r \in Offsets
    BY SizesAssumption DEF Offsets, DocInv, Inv, TypeOK
  <2> QED
    BY <2>3, <2>4 DEF ScalarsBar
<1> QED
  BY <1>9, <1>10, <1>12, PushedDoc

\* A string.
LEMMA StringDoc ==
    ASSUME DocInv, SafeStep, pc \in Opened, ~Doomed,
           current_structure_tag = "object" => FrameLength % 3 = 2,
           NEW r \in Nat, String(r), pc' # "rejected"
    PROVE  DocStep
<1>1. PICK q \in StringEnds(r) : \E e \in DecodedEnds(r, q) :
          PushValue("string", q, Pair(write_cursor - 2, Raw(r + 1), Raw(e)),
                    write_offset + 2)
  BY DEF String, Reject
<1>2. PICK e \in DecodedEnds(r, q) :
          PushValue("string", q, Pair(write_cursor - 2, Raw(r + 1), Raw(e)),
                    write_offset + 2)
  BY <1>1
<1>3. PICK words : words = Pair(write_cursor - 2, Raw(r + 1), Raw(e))
  OBVIOUS
<1>4. write_cursor \in Int /\ write_offset \in Nat
  BY BuildingFacts DEF DocInv, write_cursor
<1>5. PICK a, b : /\ a = (write_cursor - 2) + 0 /\ b = (write_cursor - 2) + 1
                  /\ a \in DOMAIN words /\ b \in DOMAIN words
                  /\ words[a] = Raw(r + 1) /\ words[b] = Raw(e)
  <2>1. PICK a \in Int : a = write_cursor - 2 /\ a = (write_cursor - 2) + 0
    BY <1>4
  <2>2. PICK b \in Int : b = a + 1 /\ b = (write_cursor - 2) + 1 /\ b # a
    BY <2>1
  <2>3. words = [x \in {a, b} |-> IF x = a THEN Raw(r + 1) ELSE Raw(e)]
    BY <1>3, <2>1, <2>2 DEF Pair
  <2> QED
    BY <2>1, <2>2, <2>3
<1>6. PushValue("string", q, words, write_offset + 2)
  BY <1>2, <1>3
<1>7. /\ write_offset <= write_offset' /\ write_offset' \in Nat
      /\ stack_top' = stack_top + 1 /\ pc' = "structure_close_or_comma"
      /\ UNCHANGED <<input_length, current_base, current_structure_tag>>
      /\ mem'[stack_top] = Element("string", write_offset')
  BY <1>6, PushedElement DEF DocInv
<1>8. "string" \in ValueTags
  BY DEF ValueTags
<1>9. Vals'[write_offset']["string"]
        = ValueAt(ast', Vals', write_offset', "string")
  BY <1>7, <1>8, NewValue DEF SafeStep, Inv
<1>10. ASSUME ~Doomed' PROVE Vals'[write_offset']["string"] \in ScalarsBar
  <2>1. /\ Payload(ast', write_offset', 0) = Raw(r + 1)
        /\ Payload(ast', write_offset', 1) = Raw(e)
    <3>1. Inv /\ Inv'
      BY DEF DocInv, SafeStep
    <3>2. Payload(ast', write_offset', 0) = words[a]
      BY <1>5, <1>6, <1>10, <3>1, PushedWords
    <3>3. Payload(ast', write_offset', 1) = words[b]
      BY <1>5, <1>6, <1>10, <3>1, PushedWords
    <3> QED
      BY <1>5, <3>2, <3>3
  <2>2. as_string(ast', write_offset') = <<r + 1, e>>
    BY <2>1 DEF as_string, Raw
  <2>3. Vals'[write_offset']["string"] = <<"string", <<r + 1, e>>>>
    BY <1>9, <2>2 DEF ValueAt
  <2>4. <<r + 1, e>> \in Texts
    BY KeyTexts DEF DocInv
  <2> QED
    BY <2>3, <2>4 DEF ScalarsBar
<1> QED
  BY <1>7, <1>8, <1>10, PushedDoc

\* The switch of next_element.
LEMMA SwitchDoc ==
    ASSUME DocInv, SafeStep, pc \in Opened, ~Doomed,
           current_structure_tag = "object" => FrameLength % 3 = 2,
           NEW r \in 0 .. input_length - 1, Switch(r)
    PROVE  DocStep
<1>1. CASE pc' = "rejected"
  BY <1>1, RejectDoc DEF SafeStep, Running, Opened
<1>2. CASE pc' # "rejected"
  <2>1. r \in Nat
    OBVIOUS
  <2>2. \/ Literal(r) \/ Number(r) \/ String(r)
        \/ \E t \in StructureTags :
              OpenStructure(r, t, Element(current_structure_tag, current_base))
    BY <1>2 DEF Switch, Reject
  <2> QED
    BY <1>2, <2>1, <2>2, LiteralDoc, NumberDoc, StringDoc, OpenNestedDoc
<1> QED
  BY <1>1, <1>2

LEMMA ItemsAreList ==
    ASSUME NEW vals, NEW n \in Nat, NEW w
    PROVE  Len(Items(vals, "object", n, w)) = MembersOf(n)
<1>1. PICK s : s = Items(vals, "object", n, w)
  OBVIOUS
<1>2. PICK k \in Nat : k = MembersOf(n)
  BY DEF MembersOf
<1>3. s = [i \in 1 .. k |-> s[i]]
  BY <1>1, <1>2 DEF Items
<1> QED
  BY <1>1, <1>2, <1>3, FunctionIsList

\* The words of a frame about to be installed are those of the open frame, in
\* an order that lookup by bisection can use.
LEMMA ClosedFrame ==
    ASSUME DocInv, SafeStep, pc \in Opened, pc' = "install",
           current_structure_tag = "object" => FrameLength % 3 = 0,
           mem' \in IF Sorts(current_structure_tag, FrameLength)
                    THEN SortedMembers(MembersOf(FrameLength)) ELSE {mem},
           write_offset' = write_offset + FrameLength + 1,
           todo' = FrameLength,
           UNCHANGED <<input_length, stack_top, current_base,
                       current_structure_tag>>
    PROVE  /\ \A i \in 1 .. FrameLength : Sound(FrameWord(i))'
           /\ \E items \in Document!Arrangements(OwnFrame) :
                 ClosedStructure'
                    = Document!Structure(current_structure_tag, items)
<1>1. /\ stack_top \in Nat /\ current_base \in Nat /\ write_offset \in Nat
      /\ current_structure_tag \in StructureTags
      /\ FrameLength \in Nat /\ FrameLength = stack_top - current_base - 1
      /\ Finished = write_offset
      /\ 0 .. stack_top - 1 \subseteq DOMAIN mem
  BY BuildingFacts DEF DocInv
<1>2. PICK l \in Nat : l = FrameLength /\ l = FrameLength'
  BY <1>1 DEF FrameLength
<1>3. Finished' = Finished
  <2>1. pc' \in Closing
    BY DEF Closing
  <2>2. Finished' = (write_offset + l + 1) - l - 1
    BY <1>2, <2>1 DEF Finished
  <2> QED
    BY <1>1, <2>2
<1>4. PICK t : t = current_structure_tag /\ t \in StructureTags
  BY <1>1
<1> DEFINE word == [i \in 1 .. l |-> mem[current_base + i]]
           item == [i \in 1 .. l |-> FrameWord(i)']
<1>5. \A i \in 1 .. l : item[i] = mem'[current_base + i]
  BY <1>2 DEF FrameWord
<1>6. \A i \in 1 .. l : Sound(word[i])
  <2>1. \A i \in 1 .. l : current_base + i \in current_base + 1 .. stack_top - 1
    BY <1>1, <1>2
  <2> QED
    BY <2>1 DEF DocInv, OwnFrameSound
<1>7. \A w : Sound(w) => StackValue(Vals', w) = StackValue(Vals, w)
  BY ValuesStay DEF DocInv, Doomed
<1>8. OwnFrame = FrameOf(Vals, t, l, word)
  BY <1>1, <1>2, <1>4 DEF OwnFrame, FrameAt
<1>9. ClosedStructure' = <<t, Items(Vals', t, l, item)>>
  BY <1>2, <1>4 DEF ClosedStructure, Vals
<1>10. OwnFrame.kind = t /\ OwnFrame.items = Items(Vals, t, l, word)
  BY <1>8 DEF FrameOf
<1>11. PICK n \in Nat : n = MembersOf(l)
  BY DEF MembersOf
<1>12. \A i \in 1 .. l : Sound(FrameWord(i))' <=> Sound(item[i])
  BY <1>3 DEF Sound
<1> HIDE DEF word, item
<1>13. CASE ~Sorts(t, l)
  <2>1. mem' = mem
    BY <1>2, <1>4, <1>13
  <2>2. \A i \in 1 .. l : item[i] = word[i]
    BY <1>5, <2>1 DEF word
  <2>3. PICK vals : vals = Vals
    OBVIOUS
  <2>4. PICK wals : wals = Vals'
    OBVIOUS
  <2>5. Items(vals, t, l, word) = Items(wals, t, l, item)
    BY <1>6, <1>7, <2>2, <2>3, <2>4, SameItems
  <2>6. OwnFrame.items \in Document!Arrangements(OwnFrame)
    <3>1. ~(t = "object" /\ n > SortAbove)
      BY <1>11, <1>13 DEF Sorts
    <3>2. t = "object" => Len(OwnFrame.items) = n
      BY <1>10, <1>11, ItemsAreList
    <3> QED
      BY <1>10, <3>1, <3>2 DEF Document!Arrangements
  <2>7. \A i \in 1 .. FrameLength : Sound(FrameWord(i))'
    BY <1>2, <1>6, <1>12, <2>2
  <2> QED
    BY <1>4, <1>9, <1>10, <2>3, <2>4, <2>5, <2>6, <2>7 DEF Document!Structure
<1>14. CASE Sorts(t, l)
  <2>1. t = "object" /\ n > SortAbove /\ l = 3 * n
    <3>1. t = "object" /\ n > SortAbove /\ l % 3 = 0
      BY <1>2, <1>4, <1>11, <1>14 DEF Sorts
    <3>2. n = l \div 3
      BY <1>11 DEF MembersOf
    <3> QED
      BY <3>1, <3>2
  <2>2. PICK f \in MemberOrders(n) :
            mem' = [a \in DOMAIN mem |->
                IF a \in current_base + 1 .. current_base + 3 * n
                THEN mem[current_base + 3 * (f[RecordOf(a)] - 1) + PartOf(a)]
                ELSE mem[a]]
    BY <1>2, <1>4, <1>11, <1>14 DEF SortedMembers
  <2>3. f \in Bijection(1 .. n, 1 .. n) /\ \A i \in 1 .. n : f[i] \in 1 .. n
    BY <2>2 DEF MemberOrders, Bijection, Injection, Surjection
  <2>4. ASSUME NEW i \in 1 .. n, NEW part \in 1 .. 3
        PROVE  /\ 3 * (i - 1) + part \in 1 .. l
               /\ 3 * (f[i] - 1) + part \in 1 .. l
               /\ item[3 * (i - 1) + part] = word[3 * (f[i] - 1) + part]
    <3>1. PICK j \in 1 .. n : j = f[i]
      BY <2>3
    <3>2. PICK a \in Nat : a = current_base + (3 * (i - 1) + part)
      BY <1>1
    <3>3. RecordOf(a) = i /\ PartOf(a) = part
      BY <1>1, <3>2 DEF RecordOf, PartOf
    <3>4. a \in current_base + 1 .. current_base + 3 * n /\ a \in DOMAIN mem
      BY <1>1, <1>2, <2>1, <3>2
    <3>5. mem'[a] = mem[current_base + 3 * (j - 1) + part]
      BY <2>2, <3>1, <3>3, <3>4
    <3>6. current_base + 3 * (j - 1) + part = current_base + (3 * (j - 1) + part)
      BY <1>1
    <3>7. 3 * (i - 1) + part \in 1 .. l /\ 3 * (j - 1) + part \in 1 .. l
      BY <2>1
    <3> QED
      BY <1>5, <3>1, <3>2, <3>5, <3>6, <3>7 DEF word
  <2>5. \A i \in 1 .. l : Sound(item[i])
    <3> SUFFICES ASSUME NEW i \in 1 .. l PROVE Sound(item[i])
      OBVIOUS
    <3>1. PICK k \in 1 .. n, part \in 1 .. 3 : i = 3 * (k - 1) + part
      <4>1. (i - 1) \div 3 + 1 \in 1 .. n /\ ((i - 1) % 3) + 1 \in 1 .. 3
            /\ i = 3 * (((i - 1) \div 3 + 1) - 1) + (((i - 1) % 3) + 1)
        BY <2>1
      <4> QED
        BY <4>1
    <3> QED
      BY <1>6, <2>4, <3>1
  <2>6. Items(Vals', t, l, item) = [i \in 1 .. n |-> OwnFrame.items[f[i]]]
    <3>1. Items(Vals', t, l, item) =
              [i \in 1 .. n |->
                 <<<<item[3 * i - 2].val, item[3 * i - 1].val>>,
                   StackValue(Vals', item[3 * i])>>]
      BY <1>11, <2>1 DEF Items
    <3>2. OwnFrame.items =
              [i \in 1 .. n |->
                 <<<<word[3 * i - 2].val, word[3 * i - 1].val>>,
                   StackValue(Vals, word[3 * i])>>]
      BY <1>10, <1>11, <2>1 DEF Items
    <3>3. \A i \in 1 .. n : /\ item[3 * i - 2] = word[3 * f[i] - 2]
                            /\ item[3 * i - 1] = word[3 * f[i] - 1]
                            /\ item[3 * i] = word[3 * f[i]]
                            /\ StackValue(Vals', item[3 * i])
                                  = StackValue(Vals, word[3 * f[i]])
      <4> SUFFICES ASSUME NEW i \in 1 .. n
                   PROVE  /\ item[3 * i - 2] = word[3 * f[i] - 2]
                          /\ item[3 * i - 1] = word[3 * f[i] - 1]
                          /\ item[3 * i] = word[3 * f[i]]
                          /\ StackValue(Vals', item[3 * i])
                                = StackValue(Vals, word[3 * f[i]])
        OBVIOUS
      <4>1. PICK j \in 1 .. n : j = f[i]
        BY <2>3
      <4>2. /\ 3 * (i - 1) + 1 = 3 * i - 2 /\ 3 * (j - 1) + 1 = 3 * j - 2
            /\ 3 * (i - 1) + 2 = 3 * i - 1 /\ 3 * (j - 1) + 2 = 3 * j - 1
            /\ 3 * (i - 1) + 3 = 3 * i /\ 3 * (j - 1) + 3 = 3 * j
            /\ 3 * i \in 1 .. l /\ 3 * j \in 1 .. l
        BY <2>1
      <4>3. /\ item[3 * i - 2] = word[3 * j - 2]
            /\ item[3 * i - 1] = word[3 * j - 1]
            /\ item[3 * i] = word[3 * j]
        <5>1. 1 \in 1 .. 3 /\ 2 \in 1 .. 3 /\ 3 \in 1 .. 3
          OBVIOUS
        <5> QED
          BY <2>4, <4>1, <4>2, <5>1
      <4> QED
        BY <1>6, <1>7, <4>1, <4>2, <4>3
    <3> QED
      BY <2>3, <3>1, <3>2, <3>3
  <2>7. Items(Vals', t, l, item) \in Document!Arrangements(OwnFrame)
    <3>1. Len(OwnFrame.items) = n
      BY <1>10, <1>11, <2>1, ItemsAreList
    <3>2. f \in Document!Bijection(1 .. n, 1 .. n)
      BY <2>3
      DEF Document!Bijection, Document!Injection, Document!Surjection,
          Document!IsInjective, Bijection, Injection, Surjection, IsInjective
    <3>3. PICK F : F = OwnFrame
      OBVIOUS
    <3>4. \A i, j \in 1 .. n :
             i < j => <<F.items[f[j]][1], F.items[f[i]][1]>> \notin KeyOrderBar
      <4>1. \A i \in 1 .. n : F.items[f[i]][1] = KeyOf(f[i])
        <5> SUFFICES ASSUME NEW i \in 1 .. n
                     PROVE  F.items[f[i]][1] = KeyOf(f[i])
          OBVIOUS
        <5>1. PICK j \in 1 .. n : j = f[i]
          BY <2>3
        <5>2. /\ 3 * j - 2 \in 1 .. l /\ 3 * j - 1 \in 1 .. l
              /\ current_base + (3 * j - 2) = current_base + 3 * j - 2
              /\ current_base + (3 * j - 1) = current_base + 3 * j - 1
          BY <1>1, <2>1
        <5>3. F.items[j][1] = <<word[3 * j - 2].val, word[3 * j - 1].val>>
          <6>1. F.items =
                  [k \in 1 .. n |->
                     <<<<word[3 * k - 2].val, word[3 * k - 1].val>>,
                       StackValue(Vals, word[3 * k])>>]
            BY <1>10, <1>11, <2>1, <3>3 DEF Items
          <6>2. PICK a, b : /\ a = <<word[3 * j - 2].val, word[3 * j - 1].val>>
                            /\ b = StackValue(Vals, word[3 * j])
            OBVIOUS
          <6>3. F.items[j] = <<a, b>>
            BY ONLY j \in 1 .. n, <6>1, <6>2
          <6>4. <<a, b>>[1] = a
            BY ONLY TRUE
          <6> QED
            BY ONLY <6>2, <6>3, <6>4
        <5>4. /\ word[3 * j - 2] = mem[current_base + 3 * j - 2]
              /\ word[3 * j - 1] = mem[current_base + 3 * j - 1]
          BY <5>2 DEF word
        <5>5. KeyOf(j) = <<word[3 * j - 2].val, word[3 * j - 1].val>>
          BY ONLY <5>4 DEF KeyOf
        <5> QED
          BY ONLY <5>1, <5>3, <5>5
      <4>2. \A i, j \in 1 .. n : i < j => ~Less(KeyOf(f[j]), KeyOf(f[i]))
        BY <2>2 DEF MemberOrders
      <4>3. \A k1, k2 : ~Less(k1, k2) => <<k1, k2>> \notin KeyOrderBar
        BY DEF KeyOrderBar
      <4> QED
        BY <4>1, <4>2, <4>3
    <3>5. PICK Q : Q = {b \in Document!Bijection(1 .. n, 1 .. n) :
                          \A i, j \in 1 .. n : i < j =>
                             <<F.items[b[j]][1], F.items[b[i]][1]>>
                                \notin KeyOrderBar}
      OBVIOUS
    <3>6. f \in Q
      BY <3>2, <3>4, <3>5
    <3>7. Document!Arrangements(F)
            = {[i \in 1 .. n |-> F.items[q[i]]] : q \in Q}
      <4>1. F.kind = "object" /\ n > SortAbove /\ Len(F.items) = n
        BY <1>10, <2>1, <3>1, <3>3
      <4> QED
        BY ONLY <4>1, <3>5, Zenon DEF Document!Arrangements
    <3> QED
      BY <2>6, <3>3, <3>6, <3>7
  <2>8. \A i \in 1 .. FrameLength : Sound(FrameWord(i))'
    BY <1>2, <1>12, <2>5
  <2> QED
    BY <1>4, <1>9, <2>7, <2>8 DEF Document!Structure
<1> QED
  BY <1>13, <1>14

\* What is around a structure: nothing, if it is the root.
LEMMA RootOrNested ==
    ASSUME DocInv, pc \in Opened \cup Closing
    PROVE  /\ OwnHeader.val = RootMarker => Enclosing = <<>>
           /\ OwnHeader.val # RootMarker =>
                /\ OwnHeader.val \in 0 .. current_base - 1
                /\ \E s, f : IsList(s) /\ Enclosing = Append(s, f)
<1>1. /\ current_base \in Nat /\ current_base < RootMarker /\ RootMarker \in Nat
  BY BuildingFacts DEF DocInv
<1>2. OwnHeader.val = RootMarker => Enclosing = <<>>
  BY <1>1, AroundIs DEF Enclosing
<1>3. ASSUME OwnHeader.val # RootMarker
      PROVE  OwnHeader.val \in 0 .. current_base - 1
  <2>1. PICK B \in SUBSET (0 .. current_base) : HeadersAt(B)
    BY DEF DocInv, Inv, Headers
  <2>2. Header(B, OwnHeader, current_base)
    BY <2>1 DEF HeadersAt, OwnHeader, Opened, Closing
  <2>3. OwnHeader.val \in B /\ OwnHeader.val < current_base
    BY <1>3, <2>2 DEF Header
  <2>4. PICK v : v = OwnHeader.val
    OBVIOUS
  <2>5. v \in 0 .. current_base /\ v < current_base
    BY <2>1, <2>3, <2>4
  <2> QED
    BY <1>1, <2>4, <2>5
<1>4. ASSUME OwnHeader.val # RootMarker
      PROVE  \E s, f : IsList(s) /\ Enclosing = Append(s, f)
  <2>1. PICK h : h = OwnHeader /\ h.val \in 0 .. current_base - 1
    BY <1>3, <1>4
  <2>2. PICK s : s = Around(mem, Vals, mem[h.val], h.val)
    OBVIOUS
  <2>3. PICK f : f = FrameAt(mem, Vals, h.tag, h.val, current_base)
    OBVIOUS
  <2>4. Enclosing = Append(s, f)
    BY <1>1, <2>1, <2>2, <2>3, AroundIs DEF Enclosing
  <2>5. IsList(s)
    <3>1. h.val \in Nat
      BY <1>1, <2>1
    <3> QED
      BY <2>2, <3>1, AroundIsList
  <2> QED
    BY <2>4, <2>5
<1> QED
  BY <1>2, <1>3, <1>4

\* Steps of a structure that is, or is about to be, closed, with words of the
\* frame that are sound, keep the invariant.
LEMMA ClosingInv ==
    ASSUME DocInv, SafeStep, pc \in Opened \cup Closing, pc' \in Closing,
           current_base' = current_base, OwnHeader' = OwnHeader,
           Finished' = Finished, Installed',
           (\A i \in 1 .. FrameLength : Sound(FrameWord(i)))'
    PROVE  DocInv'
<1>1. current_base \in Nat
  BY BuildingFacts DEF DocInv
<1>2. \A a \in 0 .. current_base - 1 : mem'[a] = mem[a]
  BY DEF SafeStep, StackKept
<1>3. PICK B \in SUBSET (0 .. current_base) : NestedAt(B)
  BY DEF DocInv, Nested
<1>4. \A b \in B : b < current_base => Leads(B, mem'[b], b)
  <2> SUFFICES ASSUME NEW b \in B, b < current_base
               PROVE  Leads(B, mem'[b], b)
    OBVIOUS
  <2>1. b \in 0 .. current_base - 1
    BY <1>1
  <2> QED
    BY <1>2, <1>3, <2>1 DEF NestedAt
<1>5. \A a \in (0 .. current_base - 1) \ B : Sound(mem[a])'
  <2> SUFFICES ASSUME NEW a \in (0 .. current_base - 1) \ B
               PROVE  Sound(mem[a])'
    OBVIOUS
  <2>1. Sound(mem[a]) /\ mem'[a] = mem[a]
    BY <1>2, <1>3 DEF NestedAt
  <2> QED
    BY <2>1 DEF Sound
<1>6. NestedAt(B)'
  BY <1>3, <1>4, <1>5 DEF NestedAt
<1>7. Nested'
  BY <1>3, <1>6 DEF Nested
<1>8. OwnFrameSound'
  BY DEF OwnFrameSound, Opened, Closing
<1> QED
  BY <1>7, <1>8 DEF DocInv, SafeStep

\* The bracket that closes a structure.
LEMMA CloseDoc ==
    ASSUME DocInv, SafeStep, pc \in Opened, ~Doomed,
           current_structure_tag = "object" => FrameLength % 3 = 0,
           NEW r, CloseStructure(r)
    PROVE  DocStep
<1>1. CASE pc' = "rejected"
  BY <1>1, RejectDoc DEF SafeStep, Running, Opened
<1>2. CASE pc' # "rejected"
  <2>1. /\ pop_element' = mem[current_base]
        /\ mem' \in IF Sorts(current_structure_tag, FrameLength)
                    THEN SortedMembers(MembersOf(FrameLength)) ELSE {mem}
        /\ write_offset' = write_offset + FrameLength + 1
        /\ todo' = FrameLength
        /\ pc' = "install"
        /\ UNCHANGED <<input_length, stack_top, current_base,
                       current_structure_tag>>
    BY <1>2 DEF CloseStructure, Reject
  <2>2. /\ FrameLength' = FrameLength /\ pc' \in Closing /\ ~Doomed'
        /\ pc \notin Closing
    BY <2>1 DEF FrameLength, Closing, Opened, Doomed
  <2>3. /\ write_offset \in Nat /\ FrameLength \in Nat
        /\ Finished = write_offset
        /\ current_structure_tag \in StructureTags
    BY BuildingFacts DEF DocInv
  <2>4. Finished' = Finished
    <3>1. Finished' = (write_offset + FrameLength + 1) - FrameLength - 1
      BY <2>1, <2>2 DEF Finished
    <3> QED
      BY <2>3, <3>1
  <2>5. OwnHeader' = OwnHeader
    BY <2>1, <2>2 DEF OwnHeader
  <2>6. Enclosing' = Enclosing
    BY <2>1, <2>2, <2>5, EnclosingStays DEF DocInv, Enclosing
  <2>7. \A i \in 1 .. FrameLength : Sound(FrameWord(i))'
    BY <2>1, ClosedFrame
  <2>8. PICK items \in Document!Arrangements(OwnFrame) :
            ClosedStructure'
                = Document!Structure(current_structure_tag, items)
    BY <2>1, ClosedFrame
  <2>9. DocInv'
    <3>1. (\A i \in 1 .. FrameLength : Sound(FrameWord(i)))'
      BY <2>2, <2>7
    <3>2. Installed'
      BY <2>1 DEF Installed
    <3> QED
      BY <2>1, <2>2, <2>4, <2>5, <3>1, <3>2, ClosingInv
  <2>10. /\ statusBar = "building" /\ documentBar = <<>>
         /\ openBar = Append(Enclosing, OwnFrame)
    BY OpenedMap
  <2>11. /\ IsList(Enclosing) /\ Document!Innermost = OwnFrame
         /\ OwnFrame.kind = current_structure_tag
         /\ Document!MayClose(Document!Innermost)
    <3>1. FrameLength % 3 = 0 => FrameLength % 3 # 2
      OBVIOUS
    <3> QED
      BY <2>3, <3>1, OwnFrameIs
      DEF Document!MayClose, Document!None, StructureTags
  <2>12. /\ Len(openBar) = Len(Enclosing) + 1 /\ Len(Enclosing) \in Nat
         /\ Document!Enclosing = Enclosing
    <3>1. PICK s : s = Enclosing /\ IsList(s)
      BY <2>11
    <3>2. PICK f : f = OwnFrame
      OBVIOUS
    <3>3. PICK a : a = openBar /\ a = Append(s, f)
      BY <2>10, <3>1, <3>2
    <3>4. Len(a) = Len(s) + 1 /\ Len(s) \in Nat
      BY <3>1, <3>3, AppendToList DEF IsList
    <3>5. SubSeq(a, 1, Len(a) - 1) = s
      BY <3>1, <3>3, LastOfList
    <3> QED
      BY <3>1, <3>3, <3>4, <3>5 DEF Document!Enclosing
  <2>13. PICK v : /\ v = ClosedStructure'
                  /\ v = Document!Structure(OwnFrame.kind, items)
    BY <2>8, <2>11
  <2>14. CASE OwnHeader.val = RootMarker
    <3>1. Len(openBar) = 1
      BY <2>12, <2>14, RootOrNested, EmptyIsList
    <3>2. statusBar' = "closed" /\ documentBar' = v /\ openBar' = <<>>
      <4>1. pop_element'.val = RootMarker
        BY <2>2, <2>5, <2>14 DEF OwnHeader
      <4> QED
        BY <2>2, <2>13, <4>1, ClosingMap
    <3>3. Document!Close
      BY <2>10, <2>11, <2>13, <3>1, <3>2 DEF Document!Close
    <3> QED
      BY <2>9, <3>3 DEF DocStep, Document!Next
  <2>15. CASE OwnHeader.val # RootMarker
    <3>1. Len(openBar) # 1
      <4>1. PICK s, f : IsList(s) /\ Enclosing = Append(s, f)
        BY <2>15, RootOrNested
      <4>2. PICK n \in Nat : n = Len(s)
        BY <4>1 DEF IsList
      <4>3. Len(Enclosing) = n + 1
        BY <4>1, <4>2, AppendToList
      <4> QED
        BY <2>12, <4>3
    <3>2. /\ statusBar' = "building" /\ documentBar' = <<>>
          /\ openBar' = ClosedInto(Enclosing)'
      <4>1. pop_element'.val # RootMarker
        BY <2>2, <2>5, <2>15 DEF OwnHeader
      <4> QED
        BY <2>2, <4>1, ClosingMap
    <3>3. openBar' = Document!PutIn(Enclosing, v)
      <4>1. PICK s : s = Enclosing /\ s = Enclosing'
        BY <2>6
      <4>2. ClosedInto(Enclosing)' = Document!PutIn(s, v)
        BY <2>13, <4>1
        DEF ClosedInto, Document!PutIn, Document!WithValue, Document!Frame,
            Document!None
      <4> QED
        BY <3>2, <4>1, <4>2
    <3>4. Document!Close
      BY <2>10, <2>11, <2>12, <2>13, <3>1, <3>2, <3>3 DEF Document!Close
    <3> QED
      BY <2>9, <3>4 DEF DocStep, Document!Next
  <2> QED
    BY <2>14, <2>15
<1> QED
  BY <1>1, <1>2

\* The words of the frame are in two places while they are moved, and the
\* length comes last: the document does not see any of it.
LEMMA InstallDoc ==
    ASSUME DocInv, SafeStep, pc = "install", pc' \in Closing, Installed',
           UNCHANGED <<input_length, stack_top, write_offset, current_base,
                       current_structure_tag, pop_element>>
    PROVE  DocStep
<1>1. pc \in Closing /\ ~Doomed'
  BY DEF Closing, Doomed
<1>2. FrameLength' = FrameLength
  BY DEF FrameLength
<1>3. PICK l \in Nat : l = FrameLength
  BY <1>1, BuildingFacts DEF DocInv
<1>4. Finished' = Finished /\ OwnHeader' = OwnHeader
  BY <1>1, <1>2 DEF Finished, OwnHeader
<1>5. \A i \in 1 .. l : FrameWord(i)' = FrameWord(i) /\ Sound(FrameWord(i))
  BY <1>1, <1>3 DEF SafeStep, FrameKept, DocInv, OwnFrameSound
<1>6. (\A i \in 1 .. FrameLength : Sound(FrameWord(i)))'
  BY <1>2, <1>3, <1>4, <1>5 DEF Sound
<1>7. DocInv'
  BY <1>1, <1>4, <1>6, ClosingInv
<1>8. Enclosing' = Enclosing
  BY <1>1, <1>4, EnclosingStays DEF DocInv, Enclosing
<1>9. ClosedStructure' = ClosedStructure
  <2> DEFINE v == [i \in 1 .. l |-> FrameWord(i)]
             w == [i \in 1 .. l |-> FrameWord(i)']
  <2>1. PICK t : t = current_structure_tag
    OBVIOUS
  <2>2. PICK vals : vals = Vals
    OBVIOUS
  <2>3. PICK wals : wals = Vals'
    OBVIOUS
  <2>4. \A i \in 1 .. l : /\ v[i] = w[i]
                          /\ StackValue(vals, v[i]) = StackValue(wals, w[i])
    BY <1>1, <1>5, <2>2, <2>3, ValuesStay DEF DocInv
  <2>5. /\ ClosedStructure = <<t, Items(vals, t, l, v)>>
        /\ ClosedStructure' = <<t, Items(wals, t, l, w)>>
    BY <1>2, <1>3, <2>1, <2>2, <2>3 DEF ClosedStructure, Vals
  <2> HIDE DEF v, w
  <2>6. Items(vals, t, l, v) = Items(wals, t, l, w)
    BY <2>4, SameItems
  <2> QED
    BY <2>5, <2>6
<1>10. UNCHANGED <<openBar, statusBar, documentBar>>
  BY <1>1, <1>8, <1>9, ClosingMap DEF ClosedInto
<1> QED
  BY <1>7, <1>10 DEF DocStep

LEMMA CopyWordDoc ==
    ASSUME DocInv, SafeStep, CopyWord
    PROVE  DocStep
BY InstallDoc DEF CopyWord, InstallRest, Installed, Closing

LEMMA StoreLengthDoc ==
    ASSUME DocInv, SafeStep, StoreLength
    PROVE  DocStep
<1>1. Installed'
  <2>1. write_cursor' = write_cursor /\ FrameLength' = FrameLength
    BY DEF StoreLength, write_cursor, structure_end, FrameLength
  <2>2. PICK a : a = write_cursor
    OBVIOUS
  <2>3. mem'[a] = LengthWord(current_structure_tag, FrameLength)
    BY <2>2 DEF StoreLength, Store, At
  <2> QED
    BY <2>1, <2>2, <2>3 DEF StoreLength, Installed, LengthWord, MembersOf
<1> QED
  BY <1>1, InstallDoc DEF StoreLength, Closing

\* At pop the accessors find in the AST the structure that was closed.
LEMMA ClosedIsInstalled ==
    ASSUME DocInv, pc = "pop"
    PROVE  Vals[write_offset][current_structure_tag] = ClosedStructure
<1>1. /\ write_offset \in Nat /\ structure_end \in Int
      /\ write_cursor = structure_end - write_offset
      /\ Finished = write_offset - FrameLength - 1
      /\ Settled = write_offset /\ InstalledFrom = structure_end - Settled
      /\ InstalledFrom .. structure_end - 1 \subseteq DOMAIN mem
      /\ current_structure_tag \in StructureTags
  BY BuildingFacts DEF DocInv, Closing, write_cursor
<1>2. PICK l \in Nat : l = FrameLength /\ l < write_offset
  BY BuildingFacts DEF DocInv, Inv, Written, Closing
<1>3. PICK t : t = current_structure_tag /\ t \in StructureTags
  BY <1>1
<1>4. PICK v \in Nat : v = write_offset /\ l < v
  BY <1>1, <1>2
<1>5. \A i \in 0 .. l : Payload(ast, v, i) = mem[write_cursor + i]
  <2> SUFFICES ASSUME NEW i \in 0 .. l
               PROVE  Payload(ast, v, i) = mem[write_cursor + i]
    OBVIOUS
  <2>1. PICK u \in Nat : u = v - i /\ u \in 1 .. v
    BY <1>4
  <2>2. PICK a \in Int : a = write_cursor + i /\ a = structure_end - u
    BY <1>1, <1>4, <2>1
  <2>3. a \in DOMAIN mem
    BY <1>1, <1>4, <2>1, <2>2
  <2>4. ast[u] = mem[a]
    BY <2>1, <2>2, <2>3 DEF ast
  <2> QED
    BY <1>4, <2>1, <2>2, <2>4 DEF Payload
<1>6. \A i \in 1 .. l :
          /\ IsElement(t, i) => FrameWord(i) = Unrelocate(Payload(ast, v, i))
          /\ ~IsElement(t, i) => FrameWord(i) = Payload(ast, v, i)
  <2>1. todo = 0
    BY DEF DocInv, Installed
  <2>2. \A i \in 1 .. l : ~(i <= todo) /\ i \in 0 .. l
    BY <2>1
  <2> QED
    BY <1>3, <1>5, <2>2 DEF FrameWord
<1>7. ASSUME NEW i \in 1 .. l, IsElement(t, i)
      PROVE  ElementValue(Vals, v, Payload(ast, v, i))
                = StackValue(Vals, FrameWord(i))
  <2>1. PICK e : e = Payload(ast, v, i) /\ e \in Words /\ e.val \in Int
    <3>1. ast \in AstWords /\ i \in Nat
      BY AstType DEF DocInv, Inv
    <3> QED
      BY <3>1, PayloadIsWord
  <2>2. FrameWord(i) = Element(e.tag, structure_end - (write_cursor + e.val))
    BY <1>6, <1>7, <2>1 DEF Unrelocate
  <2>3. FrameWord(i).tag = e.tag /\ FrameWord(i).val = v - e.val
    BY <1>1, <1>4, <2>1, <2>2 DEF Element
  <2>4. Sound(FrameWord(i))
    BY <1>2 DEF DocInv, OwnFrameSound, Closing
  <2>5. e.tag # "raw" => e.val \in 1 .. v
    <3> SUFFICES ASSUME e.tag # "raw" PROVE e.val \in 1 .. v
      OBVIOUS
    <3>1. v - e.val \in 0 .. v - l - 1
      BY <1>1, <1>2, <1>4, <2>3, <2>4 DEF Sound
    <3> QED
      BY <1>4, <2>1, <3>1
  <2> QED
    BY <2>1, <2>3, <2>5 DEF ElementValue, StackValue
<1>8. Vals[v][t] = ValueAt(ast, Vals, v, t)
  <2>1. ast \in AstWords /\ t \in ValueTags
    BY <1>3, AstType DEF DocInv, Inv, ValueTags
  <2> QED
    BY <2>1, ValuesEquation DEF Vals
<1>9. get_length(ast, v) = IF t = "array" THEN l ELSE MembersOf(l)
  <2>1. Payload(ast, v, 0) = mem[write_cursor]
    <3>1. 0 \in 0 .. l /\ write_cursor + 0 = write_cursor
      BY <1>1
    <3> QED
      BY <1>5, <3>1
  <2>2. mem[write_cursor] = LengthWord(t, l)
    BY <1>2, <1>3 DEF DocInv, Installed
  <2> QED
    BY <2>1, <2>2 DEF get_length, LengthWord, Raw
<1> DEFINE word == [i \in 1 .. l |-> FrameWord(i)]
<1>10. ClosedStructure = <<t, Items(Vals, t, l, word)>>
  BY <1>2, <1>3 DEF ClosedStructure, Vals
<1>11. CASE t = "array"
  <2>1. ValueAt(ast, Vals, v, t)
          = <<t, [i \in 1 .. l |->
                    ElementValue(Vals, v, get_array_element(ast, v, i - 1))]>>
    BY <1>9, <1>11 DEF ValueAt
  <2>2. Items(Vals, t, l, word) = [i \in 1 .. l |-> StackValue(Vals, word[i])]
    BY <1>11 DEF Items
  <2>3. \A i \in 1 .. l : ElementValue(Vals, v, get_array_element(ast, v, i - 1))
                            = StackValue(Vals, word[i])
    <3>1. \A i \in 1 .. l : 1 + (i - 1) = i
      OBVIOUS
    <3>2. \A i \in 1 .. l : get_array_element(ast, v, i - 1) = Payload(ast, v, i)
      BY <3>1 DEF get_array_element
    <3>3. \A i \in 1 .. l : IsElement(t, i)
      BY <1>11 DEF IsElement
    <3> QED
      BY <1>7, <3>2, <3>3
  <2> HIDE DEF word
  <2> QED
    BY <1>3, <1>4, <1>8, <1>10, <2>1, <2>2, <2>3
<1>12. CASE t = "object"
  <2>1. PICK n \in Nat : n = MembersOf(l) /\ 3 * n <= l
    BY DEF MembersOf
  <2> DEFINE member(i) == <<get_object_key(ast, v, i - 1),
                            ElementValue(Vals, v, get_object_value(ast, v, i - 1))>>
             record(i) == <<<<word[3 * i - 2].val, word[3 * i - 1].val>>,
                            StackValue(Vals, word[3 * i])>>
  <2>2. ValueAt(ast, Vals, v, t) = <<t, [i \in 1 .. n |-> member(i)]>>
    BY <1>9, <1>12, <2>1 DEF ValueAt
  <2>3. Items(Vals, t, l, word) = [i \in 1 .. n |-> record(i)]
    BY <1>12, <2>1 DEF Items
  <2>4. ASSUME NEW i \in 1 .. n PROVE member(i) = record(i)
    <3>1. PICK a, b, c \in 1 .. l :
              /\ a = 3 * i - 2 /\ b = 3 * i - 1 /\ c = 3 * i
              /\ a = 1 + (i - 1) * 3 /\ b = 2 + (i - 1) * 3
              /\ c = 3 + (i - 1) * 3
              /\ a % 3 = 1 /\ b % 3 = 2 /\ c % 3 = 0
      BY <2>1
    <3>2. IsElement(t, c) /\ ~IsElement(t, a) /\ ~IsElement(t, b)
      BY <1>12, <3>1 DEF IsElement
    <3>3. get_object_key(ast, v, i - 1) = <<word[a].val, word[b].val>>
      BY <1>6, <3>1, <3>2 DEF get_object_key
    <3>4. ElementValue(Vals, v, get_object_value(ast, v, i - 1))
            = StackValue(Vals, word[c])
      BY <1>7, <3>1, <3>2 DEF get_object_value
    <3> QED
      BY <3>1, <3>3, <3>4
  <2> HIDE DEF word, member, record
  <2> QED
    BY <1>3, <1>4, <1>8, <1>10, <2>2, <2>3, <2>4
<1> QED
  BY <1>3, <1>11, <1>12 DEF StructureTags

\* The root is there, or there is more after it.
LEMMA PopRootDoc ==
    ASSUME DocInv, SafeStep, PopRoot
    PROVE  DocStep
<1>1. CASE pc' = "rejected"
  BY <1>1, RejectDoc DEF SafeStep, Running, PopRoot
<1>2. CASE pc' # "rejected"
  <2>1. /\ pc = "pop" /\ pop_element.val = RootMarker /\ pc' = "accepted"
        /\ root_tag' = current_structure_tag
        /\ UNCHANGED <<input_length, mem, write_offset>>
    BY <1>2 DEF PopRoot
  <2>2. /\ statusBar = "closed" /\ documentBar = ClosedStructure
        /\ openBar = <<>>
    BY <2>1, ClosingMap DEF Closing
  <2>3. ast' = ast
    BY <2>1 DEF ast, structure_end
  <2>4. documentBar' = Vals[write_offset][current_structure_tag]
    BY <2>1, <2>3 DEF documentBar, ClosingRoot, Closing, Vals
  <2>5. documentBar' = documentBar
    BY <2>1, <2>2, <2>4, ClosedIsInstalled
  <2>6. statusBar' = "accepted" /\ openBar' = <<>>
    BY <2>1 DEF statusBar, openBar, Opened, Closing
  <2>7. Document!Accept
    BY <2>2, <2>5, <2>6 DEF Document!Accept
  <2>8. DocInv'
    BY <2>1 DEF DocInv, SafeStep, Nested, OwnFrameSound, Installed, Opened,
                Closing
  <2> QED
    BY <2>7, <2>8 DEF DocStep, Document!Next
<1> QED
  BY <1>1, <1>2

\* The element of a closed structure goes to the one around it.
LEMMA PopNestedDoc ==
    ASSUME DocInv, SafeStep, PopNested
    PROVE  DocStep
<1>1. /\ pc = "pop" /\ pc \in Closing /\ pop_element.val # RootMarker
      /\ mem' = Store(mem, At(current_base, Element(current_structure_tag,
                                                    write_offset)))
      /\ stack_top' = current_base + 1
      /\ current_base' = pop_element.val
      /\ current_structure_tag' = pop_element.tag
      /\ pc' = "structure_close_or_comma"
      /\ UNCHANGED <<input_length, write_offset>>
  BY DEF PopNested, PopTo, Closing
<1>2. /\ pc' \in Opened /\ pc' \notin Closing /\ OwnHeader = pop_element
  BY <1>1 DEF Opened, Closing, OwnHeader
<1>3. /\ current_base \in Nat /\ write_offset \in Nat /\ Finished \in Nat
      /\ Finished <= write_offset /\ Settled = write_offset
      /\ current_structure_tag \in StructureTags
  BY <1>1, BuildingFacts DEF DocInv
<1>4. PICK c \in Nat : c = pop_element.val /\ c < current_base
  BY <1>1, <1>2, <1>3, RootOrNested DEF DocInv
<1>5. \A a \in 0 .. current_base - 1 : mem'[a] = mem[a]
  BY DEF SafeStep, StackKept
<1>6. mem'[current_base] = Element(current_structure_tag, write_offset)
  BY <1>1 DEF Store, At
<1>7. Finished' = write_offset
  BY <1>1, <1>2 DEF Finished
<1>8. PICK B \in SUBSET (0 .. current_base) : NestedAt(B)
  BY <1>1 DEF DocInv, Nested
<1>9. \A b \in B : b \in Nat
  BY <1>8
<1>10. c \in B /\ \A b \in B : b <= c \/ b >= current_base
  BY <1>2, <1>3, <1>4, <1>8 DEF NestedAt, Leads
<1>11. OwnHeader' = mem[c]
  <2>1. c \in 0 .. current_base - 1
    BY <1>3, <1>4
  <2> QED
    BY <1>1, <1>2, <1>4, <1>5, <2>1 DEF OwnHeader
<1>12. \A a \in c + 1 .. current_base - 1 : Sound(mem[a])
  <2> SUFFICES ASSUME NEW a \in c + 1 .. current_base - 1 PROVE Sound(mem[a])
    OBVIOUS
  <2>1. a \notin B
    BY <1>3, <1>4, <1>10
  <2>2. a \in (0 .. current_base - 1) \ B
    BY <1>3, <1>4, <2>1
  <2> QED
    BY <1>8, <2>2 DEF NestedAt
<1>13. DocInv'
  <2>1. PICK C : C = {b \in B : b <= c}
    OBVIOUS
  <2>2. c \in C /\ \A b \in C : b \in B /\ b \in 0 .. c
    BY <1>4, <1>9, <1>10, <2>1
  <2>3. ASSUME NEW b \in C PROVE Leads(C, mem[b], b)
    <3>1. b \in Nat /\ b < current_base /\ b <= c
      BY <1>3, <1>4, <2>2
    <3>2. Leads(B, mem[b], b)
      BY <1>8, <2>2, <3>1 DEF NestedAt
    <3>3. PICK w : w = mem[b]
      OBVIOUS
    <3>4. Leads(C, w, b)
      BY <1>4, <2>1, <2>2, <3>1, <3>2, <3>3 DEF Leads
    <3> QED
      BY <3>3, <3>4
  <2>4. \A b \in C : b < c => Leads(C, mem'[b], b)
    <3> SUFFICES ASSUME NEW b \in C PROVE Leads(C, mem'[b], b)
      OBVIOUS
    <3>1. b \in 0 .. current_base - 1
      BY <1>3, <1>4, <2>2
    <3> QED
      BY <1>5, <2>3, <3>1
  <2>5. \A a \in (0 .. c - 1) \ C : Sound(mem[a])'
    <3> SUFFICES ASSUME NEW a \in (0 .. c - 1) \ C PROVE Sound(mem[a])'
      OBVIOUS
    <3>1. a \in (0 .. current_base - 1) \ B
      BY <1>3, <1>4, <2>1
    <3>2. Sound(mem[a]) /\ mem'[a] = mem[a]
      BY <1>5, <1>8, <3>1 DEF NestedAt
    <3> QED
      BY <1>3, <1>7, <3>2 DEF Sound
  <2>6. NestedAt(C)'
    BY <1>1, <1>4, <1>11, <2>2, <2>3, <2>4, <2>5 DEF NestedAt
  <2>7. Nested'
    <3>1. C \in SUBSET (0 .. current_base')
      BY <1>1, <1>4, <2>2
    <3> QED
      BY <2>6, <3>1 DEF Nested
  <2>8. OwnFrameSound'
    <3>1. \A a \in c + 1 .. current_base : Sound(mem[a])'
      <4> SUFFICES ASSUME NEW a \in c + 1 .. current_base
                   PROVE  Sound(mem[a])'
        OBVIOUS
      <4>1. CASE a = current_base
        BY <1>3, <1>6, <1>7, <4>1 DEF Sound, Element
      <4>2. CASE a # current_base
        <5>1. a \in c + 1 .. current_base - 1 /\ a \in 0 .. current_base - 1
          BY <1>3, <1>4, <4>2
        <5>2. Sound(mem[a]) /\ mem'[a] = mem[a]
          BY <1>5, <1>12, <5>1
        <5> QED
          BY <1>3, <1>7, <5>2 DEF Sound
      <4> QED
        BY <4>1, <4>2
    <3>2. stack_top' - 1 = current_base
      BY <1>1, <1>3
    <3> QED
      BY <1>1, <1>2, <1>4, <3>1, <3>2 DEF OwnFrameSound
  <2> QED
    BY <1>1, <2>7, <2>8 DEF DocInv, SafeStep, Installed
<1>14. /\ statusBar = "building" /\ documentBar = <<>>
       /\ openBar = ClosedInto(Enclosing)
  BY <1>1, ClosingMap
<1>15. CASE Doomed'
  <2>1. statusBar' = "exhausted" /\ documentBar' = <<>> /\ openBar' = <<>>
    BY <1>2, <1>15, OpenedMap
  <2>2. Document!RunOut
    BY <1>14, <2>1 DEF Document!RunOut
  <2> QED
    BY <1>13, <2>2 DEF DocStep, Document!Next
<1>16. CASE ~Doomed'
  <2>1. /\ statusBar' = "building" /\ documentBar' = <<>>
        /\ openBar' = Append(Enclosing', OwnFrame')
    BY <1>2, <1>16, OpenedMap
  <2>2. PICK vals : vals = Vals
    OBVIOUS
  <2>3. PICK wals : wals = Vals'
    OBVIOUS
  <2>4. PICK m : m = mem
    OBVIOUS
  <2>5. PICK n : n = mem'
    OBVIOUS
  <2>6. PICK h : h = pop_element /\ h.val = c
    BY <1>4
  <2>7. PICK s : s = Around(m, vals, m[c], c) /\ IsList(s)
    BY AroundIsList
  <2>8. PICK f : f = FrameAt(m, vals, h.tag, c, current_base)
    OBVIOUS
  <2>9. Enclosing = Append(s, f)
    <3>1. h.val \in 0 .. current_base - 1
      BY <1>3, <1>4, <2>6
    <3>2. Around(m, vals, h, current_base)
            = Append(Around(m, vals, m[h.val], h.val),
                     FrameAt(m, vals, h.tag, h.val, current_base))
      BY <1>3, <3>1, AroundIs
    <3>3. Enclosing = Around(m, vals, h, current_base)
      BY <1>2, <2>2, <2>4, <2>6 DEF Enclosing
    <3> QED
      BY <2>6, <2>7, <2>8, <3>2, <3>3
  <2>10. Enclosing' = s
    <3>1. Enclosing' = Around(n, wals, m[c], c)
      BY <1>1, <1>4, <1>11, <2>3, <2>4, <2>5 DEF Enclosing
    <3>2. Append(s, f) = Append(Around(n, wals, n[c], c),
                                FrameAt(n, wals, h.tag, c, current_base))
      <4>1. Around(n, wals, h, current_base) = Enclosing
        BY <1>1, <1>2, <1>16, <2>3, <2>5, <2>6, EnclosingStays DEF DocInv
      <4>2. h.val \in 0 .. current_base - 1
        BY <1>3, <1>4, <2>6
      <4>3. Around(n, wals, h, current_base)
              = Append(Around(n, wals, n[h.val], h.val),
                       FrameAt(n, wals, h.tag, h.val, current_base))
        BY <1>3, <4>2, AroundIs
      <4> QED
        BY <2>6, <2>9, <4>1, <4>3
    <3>3. n[c] = m[c]
      <4>1. c \in 0 .. current_base - 1
        BY <1>3, <1>4
      <4> QED
        BY <1>5, <2>4, <2>5, <4>1
    <3>4. IsList(Around(n, wals, n[c], c))
      BY AroundIsList
    <3>5. PICK z : z = Around(n, wals, n[c], c) /\ IsList(z)
      BY <3>4
    <3>6. PICK g : g = FrameAt(n, wals, h.tag, c, current_base)
      OBVIOUS
    <3>7. Append(s, f) = Append(z, g)
      BY <3>2, <3>5, <3>6
    <3>8. s = z
      <4>1. SubSeq(Append(s, f), 1, Len(Append(s, f)) - 1) = s
        BY <2>7, LastOfList
      <4>2. SubSeq(Append(z, g), 1, Len(Append(z, g)) - 1) = z
        BY <3>5, LastOfList
      <4> QED
        BY <3>7, <4>1, <4>2
    <3> QED
      BY <3>1, <3>3, <3>5, <3>8
  <2>11. OwnFrame' = Document!WithValue(f, ClosedStructure)
    <3>1. PICK g \in StructureTags : g = h.tag
      BY <1>1, <2>6 DEF SafeStep, Inv, TypeOK
    <3>2. g = "object" => (current_base - c - 1) % 3 = 2
      <4>1. PICK C \in SUBSET (0 .. current_base) : HeadersAt(C)
        BY <1>1 DEF DocInv, Inv, Headers
      <4>2. h.tag = "object" => (current_base - h.val) % 3 = 0
        BY <1>1, <2>6, <4>1 DEF HeadersAt, Header
      <4> QED
        BY <1>3, <1>4, <2>6, <3>1, <4>2
    <3>3. \A a \in c + 1 .. current_base - 1 :
              /\ m[a] = n[a]
              /\ StackValue(vals, m[a]) = StackValue(wals, n[a])
      <4>1. \A a \in c + 1 .. current_base - 1 :
                a \in 0 .. current_base - 1 /\ Sound(mem[a])
        BY <1>3, <1>4, <1>12
      <4> QED
        BY <1>1, <1>5, <1>16, <2>2, <2>3, <2>4, <2>5, <4>1, ValuesStay
        DEF DocInv
    <3>4. FrameAt(n, wals, g, c, current_base + 1)
            = Document!WithValue(FrameAt(m, vals, g, c, current_base),
                                 StackValue(wals, n[current_base]))
      BY <1>3, <1>4, <3>1, <3>2, <3>3, FrameWithValue
    <3>5. StackValue(wals, n[current_base]) = ClosedStructure
      <4>1. current_structure_tag # "raw"
        BY <1>3 DEF StructureTags
      <4>2. Vals'[write_offset] = Vals[write_offset]
        BY <1>1, <1>3, <1>16, ValuesStay DEF DocInv
      <4>3. Vals[write_offset][current_structure_tag] = ClosedStructure
        BY <1>1, ClosedIsInstalled
      <4> QED
        BY <1>6, <2>3, <2>5, <4>1, <4>2, <4>3 DEF StackValue, Element
    <3>6. OwnFrame' = FrameAt(n, wals, g, c, current_base + 1)
      BY <1>1, <1>4, <2>3, <2>5, <2>6, <3>1 DEF OwnFrame
    <3> QED
      BY <2>8, <3>1, <3>4, <3>5, <3>6
  <2>12. ClosedInto(Append(s, f))
            = Append(s, Document!WithValue(f, ClosedStructure))
    BY <2>7, InnermostChanges
  <2>13. openBar' = openBar
    BY <1>14, <2>1, <2>9, <2>10, <2>11, <2>12
  <2> QED
    BY <1>13, <1>14, <2>1, <2>13 DEF DocStep
<1> QED
  BY <1>15, <1>16

\* Before anything is read there is no document.
LEMMA InitDoc ==
    ASSUME Init
    PROVE  DocInv /\ Document!Init
<1>1. Inv
  BY InitInv
<1>2. DocInv
  BY <1>1 DEF Init, DocInv, Nested, OwnFrameSound, Installed, Opened, Closing
<1>3. Document!Init
  BY DEF Init, Document!Init, Document!None, openBar, statusBar, documentBar,
         ClosingRoot, Closing, Opened
<1> QED
  BY <1>2, <1>3

\* A byte that is there: the parse is not doomed, and the byte is in the input.
LEMMA ByteFacts ==
    ASSUME Inv, pc \in Opened, NEW r,
           r \in NonSpace(p) \/ r \in NonSpace(p + 1)
    PROVE  r \in 0 .. input_length - 1 /\ ~Doomed
<1>1. p \in Nat /\ input_length \in Nat
  BY BuildingFacts
<1>2. r \in 0 .. input_length - 1 /\ p <= r
  BY <1>1 DEF NonSpace
<1> QED
  BY <1>1, <1>2 DEF Doomed

\* Every step of the parser is one of the document, or none.
LEMMA NextDoc ==
    ASSUME DocInv, [Next]_vars
    PROVE  DocStep
<1>0. SafeStep /\ Inv
  BY NextInv DEF DocInv
<1>r. ASSUME pc \in Running \cup {"make_allocator"}, pc' = "rejected"
      PROVE  DocStep
  BY <1>0, <1>r, RejectDoc DEF SafeStep
<1>1. CASE MakeAllocator
  <2>1. pc = "make_allocator"
    BY <1>1 DEF MakeAllocator
  <2>2. CASE pc' = "rejected"
    BY <1>r, <2>1, <2>2
  <2>3. CASE pc' # "rejected"
    <3>1. pc' = "parse"
      BY <1>1, <2>3 DEF MakeAllocator, Reject
    <3>2. UNCHANGED <<openBar, statusBar, documentBar>>
      BY <2>1, <3>1
      DEF openBar, statusBar, documentBar, ClosingRoot, Closing, Opened
    <3>3. DocInv'
      BY <1>0, <3>1
      DEF DocInv, SafeStep, Nested, OwnFrameSound, Installed, Opened, Closing
    <3> QED
      BY <3>2, <3>3 DEF DocStep
  <2> QED
    BY <2>2, <2>3
<1>2. CASE ParseRoot
  <2>1. pc = "parse"
    BY <1>2 DEF ParseRoot
  <2>2. CASE pc' = "rejected"
    BY <1>r, <2>1, <2>2 DEF Running
  <2>3. CASE pc' # "rejected"
    <3>1. PICK r \in NonSpace(p), t \in StructureTags :
              OpenStructure(r, t, Element(t, RootMarker))
      BY <1>2, <2>3 DEF ParseRoot, OnlySpaceLeft, Reject
    <3> QED
      BY <1>0, <2>1, <3>1, OpenRootDoc
  <2> QED
    BY <2>2, <2>3
<1>3. CASE ArrayCloseOrElement
  <2>1. pc \in Opened /\ current_structure_tag = "array"
    BY <1>0, <1>3 DEF ArrayCloseOrElement, Opened, Inv, LabelsAgree
  <2>2. CASE pc' = "rejected"
    BY <1>r, <2>1, <2>2 DEF Opened, Running
  <2>3. CASE pc' # "rejected"
    <3>1. PICK r \in NonSpace(p + 1) : CloseStructure(r) \/ Switch(r)
      BY <1>3, <2>3 DEF ArrayCloseOrElement, OnlySpaceLeft, Reject
    <3> QED
      BY <1>0, <2>1, <3>1, ByteFacts, CloseDoc, SwitchDoc
  <2> QED
    BY <2>2, <2>3
<1>4. CASE ObjectCloseOrElement
  <2>1. /\ pc \in Opened /\ current_structure_tag = "object"
        /\ FrameLength % 3 = 0
    BY <1>0, <1>4
    DEF ObjectCloseOrElement, Opened, Inv, LabelsAgree, ObjectRecords
  <2>2. CASE pc' = "rejected"
    BY <1>r, <2>1, <2>2 DEF Opened, Running
  <2>3. CASE pc' # "rejected"
    <3>1. PICK r \in NonSpace(p + 1) : CloseStructure(r) \/ Key(r)
      BY <1>4, <2>3 DEF ObjectCloseOrElement, OnlySpaceLeft, KeyAt, Reject
    <3>2. r \in Nat /\ ~Doomed
      BY <1>0, <2>1, ByteFacts
    <3> QED
      BY <1>0, <2>1, <3>1, <3>2, CloseDoc, KeyDoc
  <2> QED
    BY <2>2, <2>3
<1>5. CASE StructureCloseOrComma
  <2>1. /\ pc \in Opened
        /\ current_structure_tag = "object" => FrameLength % 3 = 0
    BY <1>0, <1>5 DEF StructureCloseOrComma, Opened, Inv, ObjectRecords
  <2>2. CASE pc' = "rejected"
    BY <1>r, <2>1, <2>2 DEF Opened, Running
  <2>3. CASE pc' # "rejected"
    <3>1. PICK r \in NonSpace(p) :
              \/ CloseStructure(r)
              \/ Skip(r, AfterComma(current_structure_tag))
      BY <1>5, <2>3 DEF StructureCloseOrComma, OnlySpaceLeft, Reject
    <3>2. AfterComma(current_structure_tag) \in {"next_element", "object_key"}
      BY DEF AfterComma
    <3> QED
      BY <1>0, <2>1, <3>1, <3>2, ByteFacts, CloseDoc, SkipDoc
  <2> QED
    BY <2>2, <2>3
<1>6. CASE ObjectKey
  <2>1. /\ pc \in Opened /\ current_structure_tag = "object"
        /\ FrameLength % 3 = 0
    BY <1>0, <1>6 DEF ObjectKey, Opened, Inv, LabelsAgree, ObjectRecords
  <2>2. CASE pc' = "rejected"
    BY <1>r, <2>1, <2>2 DEF Opened, Running
  <2>3. CASE pc' # "rejected"
    <3>1. PICK r \in NonSpace(p) : Key(r)
      BY <1>6, <2>3 DEF ObjectKey, OnlySpaceLeft, KeyAt, Reject
    <3>2. r \in Nat /\ ~Doomed
      BY <1>0, <2>1, ByteFacts
    <3> QED
      BY <1>0, <2>1, <3>1, <3>2, KeyDoc
  <2> QED
    BY <2>2, <2>3
<1>7. CASE ExpectColon
  <2>1. pc \in Opened
    BY <1>7 DEF ExpectColon, Opened
  <2>2. CASE pc' = "rejected"
    BY <1>r, <2>1, <2>2 DEF Opened, Running
  <2>3. CASE pc' # "rejected"
    <3>1. PICK r \in NonSpace(p) : Skip(r, "next_element")
      BY <1>7, <2>3 DEF ExpectColon, Reject
    <3> QED
      BY <1>0, <2>1, <3>1, ByteFacts, SkipDoc
  <2> QED
    BY <2>2, <2>3
<1>8. CASE NextElement
  <2>1. /\ pc \in Opened
        /\ current_structure_tag = "object" => FrameLength % 3 = 2
    BY <1>0, <1>8 DEF NextElement, Opened, Inv, ObjectRecords
  <2>2. CASE pc' = "rejected"
    BY <1>r, <2>1, <2>2 DEF Opened, Running
  <2>3. CASE pc' # "rejected"
    <3>1. PICK r \in NonSpace(p) : Switch(r)
      BY <1>8, <2>3 DEF NextElement, OnlySpaceLeft, Reject
    <3> QED
      BY <1>0, <2>1, <3>1, ByteFacts, SwitchDoc
  <2> QED
    BY <2>2, <2>3
<1>9. CASE CopyWord \/ StoreLength \/ PopRoot \/ PopNested
  BY <1>0, <1>9, CopyWordDoc, StoreLengthDoc, PopRootDoc, PopNestedDoc
<1>10. CASE UNCHANGED vars
  BY <1>10, StutterDoc
<1> QED
  BY <1>1, <1>2, <1>3, <1>4, <1>5, <1>6, <1>7, <1>8, <1>9, <1>10 DEF Next

\* The AST, read with the accessors, is at every moment what has been put into
\* it: the parser over its one or two buffers builds, for every input and with
\* every allocation strategy, a document that JsonDocument allows.
THEOREM AstMeansWhatWasRead == Spec => ImplementsDocument
<1>1. Init => DocInv /\ Document!Init
  BY InitDoc
<1>2. DocInv /\ [Next]_vars
        => DocInv' /\ [Document!Next]_<<openBar, statusBar, documentBar>>
  BY NextDoc DEF DocStep
<1> QED
  BY <1>1, <1>2, PTL DEF Spec, ImplementsDocument, Document!Spec,
                         Document!docVars
=============================================================================
