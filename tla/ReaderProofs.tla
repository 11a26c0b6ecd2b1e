---------------------------- MODULE ReaderProofs -----------------------------
(***************************************************************************)
(* For every object that was installed and every key, both lookups of      *)
(* ObjectIndex are right: find_object_key always, the FFI's where the      *)
(* object is sorted.  For every value that Dump writes, the file and the   *)
(* buffer hold what was handed to FileOut, whatever its capacity; and the  *)
(* file has the JSON text of the value, however deep it is nested, if it   *)
(* holds nothing that dump is known to write otherwise.                    *)
(***************************************************************************)
EXTENDS Serialization, SequenceTheorems, WellFoundedInduction, TLAPS

-----------------------------------------------------------------------------
(***************************************************************************)
(* The order of keys.                                                      *)
(***************************************************************************)
\* Two keys match if and only if they are the same.
LEMMA MatchesIsEquality ==
    ASSUME NEW a \in Keys, NEW b \in Keys
    PROVE  Matches(a, b) <=> a = b
  BY DEF Keys, Matches

\* No key is less than itself.
LEMMA LessIrreflexive ==
    ASSUME NEW a \in Keys
    PROVE  ~Less(a, a)
  BY DEF Keys, Less

\* Of two different keys one is less.
LEMMA LessTotal ==
    ASSUME NEW a \in Keys, NEW b \in Keys, ~Less(a, b), ~Less(b, a)
    PROVE  a = b
  BY DEF Keys, Less

\* What is not above a key that is less than another is less than that.
LEMMA LessTransitive ==
    ASSUME NEW a \in Keys, NEW b \in Keys, NEW c \in Keys,
           ~Less(b, a), Less(b, c)
    PROVE  Less(a, c)
  BY DEF Keys, Less

\* What is not below a key that is not less than another is not less than that.
LEMMA NotLessTransitive ==
    ASSUME NEW a \in Keys, NEW b \in Keys, NEW c \in Keys,
           ~Less(b, a), ~Less(a, c)
    PROVE  ~Less(b, c)
  BY DEF Keys, Less

-----------------------------------------------------------------------------
(***************************************************************************)
(* Bisection.                                                              *)
(***************************************************************************)
\* What lies before the records considered is less than the key, and what lies
\* after them is not.
Narrowed(ks, w, f, n) ==
    /\ f + n <= Len(ks)
    /\ \A i \in 0 .. Len(ks) - 1 :
          /\ i < f => Less(ks[i + 1], w)
          /\ i >= f + n => ~Less(ks[i + 1], w)

\* In a sorted object one step to the right keeps the records narrowed.
LEMMA BisectRight ==
    ASSUME NEW ks \in Seq(Keys), NEW w \in Keys, NEW f \in Nat, NEW n \in Nat,
           NEW half \in Nat, half < n,
           InOrder(ks), Narrowed(ks, w, f, n), Less(ks[f + half + 1], w)
    PROVE  Narrowed(ks, w, f + half + 1, n - half - 1)
<1>1. ASSUME NEW i \in 0 .. Len(ks) - 1, i < f + half + 1
      PROVE  Less(ks[i + 1], w)
  <2>1. f + half + 1 \in 1 .. Len(ks) /\ i + 1 \in 1 .. Len(ks)
    BY DEF Narrowed
  <2>2. ks[f + half + 1] \in Keys /\ ks[i + 1] \in Keys
    BY <2>1
  <2>3. CASE i = f + half
    BY <2>3
  <2>4. CASE i < f + half
    <3>1. ~Less(ks[f + half + 1], ks[i + 1])
      BY <2>1, <2>4 DEF InOrder
    <3> QED
      BY <3>1, <2>2, LessTransitive
  <2> QED
    BY <1>1, <2>3, <2>4
<1> QED
  BY <1>1 DEF Narrowed

\* And so does one step to the left.
LEMMA BisectLeft ==
    ASSUME NEW ks \in Seq(Keys), NEW w \in Keys, NEW f \in Nat, NEW n \in Nat,
           NEW half \in Nat, half < n,
           InOrder(ks), Narrowed(ks, w, f, n), ~Less(ks[f + half + 1], w)
    PROVE  Narrowed(ks, w, f, half)
<1>1. ASSUME NEW i \in 0 .. Len(ks) - 1, i >= f + half
      PROVE  ~Less(ks[i + 1], w)
  <2>1. f + half + 1 \in 1 .. Len(ks) /\ i + 1 \in 1 .. Len(ks)
    BY DEF Narrowed
  <2>2. ks[f + half + 1] \in Keys /\ ks[i + 1] \in Keys
    BY <2>1
  <2>3. CASE i = f + half
    BY <2>3
  <2>4. CASE i > f + half
    <3>1. ~Less(ks[i + 1], ks[f + half + 1])
      BY <2>1, <2>4 DEF InOrder
    <3> QED
      BY <3>1, <2>2, NotLessTransitive
  <2> QED
    BY <1>1, <2>3, <2>4
<1> QED
  BY <1>1 DEF Narrowed

\* When nothing is considered any more, the record at the bound is the first
\* with the key, or there is none.
LEMMA BoundIsRight ==
    ASSUME NEW ks \in Seq(Keys), NEW w \in Keys, NEW f \in Nat,
           InOrder(ks), Narrowed(ks, w, f, 0),
           NEW i \in DOMAIN ks, ks[i] = w
    PROVE  f < Len(ks) /\ ks[f + 1] = w
<1>1. i \in 1 .. Len(ks) /\ i - 1 \in 0 .. Len(ks) - 1 /\ (i - 1) + 1 = i
  OBVIOUS
<1>2. i - 1 >= f
  <2>1. ~Less(w, w)
    BY LessIrreflexive
  <2>2. i - 1 < f => Less(ks[(i - 1) + 1], w)
    BY <1>1 DEF Narrowed
  <2> QED
    BY <1>1, <2>1, <2>2
<1>3. f < Len(ks) /\ f \in 0 .. Len(ks) - 1 /\ f + 1 \in 1 .. Len(ks)
  BY <1>1, <1>2
<1>4. ks[f + 1] \in Keys
  BY <1>3
<1>5. ~Less(ks[f + 1], w)
  BY <1>3 DEF Narrowed
<1>6. ~Less(w, ks[f + 1])
  <2>1. CASE i = f + 1
    BY <2>1, LessIrreflexive
  <2>2. CASE i > f + 1
    BY <2>2, <1>1, <1>3 DEF InOrder
  <2> QED
    BY <1>1, <1>2, <2>1, <2>2
<1> QED
  BY <1>3, <1>4, <1>5, <1>6, LessTotal

-----------------------------------------------------------------------------
(***************************************************************************)
(* The inductive invariant.                                                *)
(***************************************************************************)
ObjectGiven ==
    /\ keys \in Seq(Keys)
    /\ wanted \in Keys
    /\ Len(keys) > SortAbove => InOrder(keys)
    /\ first \in Nat /\ count \in Nat

\* Linear search has passed no record with the key.
Passed ==
    find_pc = "linear" =>
        /\ first + count = Len(keys)
        /\ \A i \in 1 .. first : keys[i] # wanted

\* find_object_key bisects sorted objects only; the FFI bisects all.
Bisected ==
    /\ find_pc = "lower_bound" => InOrder(keys)
    /\ find_pc \in {"lower_bound", "ffi_lower_bound"} /\ InOrder(keys) =>
           Narrowed(keys, wanted, first, count)

IndexInv ==
    /\ ObjectGiven
    /\ Passed
    /\ Bisected
    /\ FindsMember
    /\ FfiFindsSorted

\* The index an ended bisection returns.
LEMMA AtBoundIsRight ==
    ASSUME ObjectGiven, InOrder(keys), Narrowed(keys, wanted, first, 0)
    PROVE  RightIndex(AtBound)
<1> USE DEF ObjectGiven
<1>1. first <= Len(keys)
  BY DEF Narrowed
<1>2. CASE \E i \in DOMAIN keys : keys[i] = wanted
  <2>1. first < Len(keys) /\ keys[first + 1] = wanted
    BY <1>2, BoundIsRight
  <2>2. Matches(keys[first + 1], wanted)
    BY <2>1, MatchesIsEquality
  <2>3. AtBound = first
    BY <2>1, <2>2 DEF AtBound, length, record
  <2> QED
    BY <1>2, <2>1, <2>3 DEF RightIndex, length, record
<1>3. CASE ~\E i \in DOMAIN keys : keys[i] = wanted
  <2>1. ASSUME first # Len(keys)
        PROVE  ~Matches(keys[first + 1], wanted)
    <3>1. first + 1 \in 1 .. Len(keys)
      BY <1>1, <2>1
    <3>2. keys[first + 1] \in Keys /\ keys[first + 1] # wanted
      BY <3>1, <1>3
    <3> QED
      BY <3>2, MatchesIsEquality
  <2>2. AtBound = Len(keys)
    BY <2>1 DEF AtBound, length, record
  <2> QED
    BY <1>3, <2>2 DEF RightIndex, length
<1> QED
  BY <1>2, <1>3

\* It holds when the lookup is called.
LEMMA IndexInit == FindInit => IndexInv
  BY ObjectsAssumption
  DEF FindInit, IndexInv, ObjectGiven, Passed, Bisected, FindsMember,
      FfiFindsSorted, Pending

\* Every step keeps the invariant.
LEMMA IndexStep == IndexInv /\ [FindNext]_indexVars => IndexInv'
<1> SUFFICES ASSUME IndexInv, [FindNext]_indexVars
             PROVE  IndexInv'
  OBVIOUS
<1> USE DEF IndexInv
<1>1. CASE Bisect
  <2> DEFINE half == count \div 2
  <2> USE <1>1 DEF Bisect
  <2>1. half \in Nat /\ half < count /\ first + half + 1 \in Nat
        /\ count - half - 1 \in Nat
    <3>1. first \in Nat /\ count \in Nat /\ count > 0
      BY DEF ObjectGiven
    <3> QED
      BY ONLY <3>1
  <2>2. ObjectGiven'
    BY <2>1 DEF ObjectGiven, InOrder
  <2>3. Passed'
    BY DEF Passed
  <2>4. Bisected'
    <3> SUFFICES ASSUME InOrder(keys)
                 PROVE  Narrowed(keys, wanted, first', count')
      BY DEF Bisected, InOrder
    <3>1. Narrowed(keys, wanted, first, count)
      BY DEF Bisected
    <3>2. CASE Less(keys[first + half + 1], wanted)
      <4>1. first' = first + half + 1 /\ count' = count - half - 1
        BY <3>2 DEF record
      <4> QED
        BY <4>1, <3>1, <3>2, <2>1, BisectRight DEF ObjectGiven
    <3>3. CASE ~Less(keys[first + half + 1], wanted)
      <4>1. first' = first /\ count' = half
        BY <3>3 DEF record
      <4> QED
        BY <4>1, <3>1, <3>3, <2>1, BisectLeft DEF ObjectGiven
    <3> QED
      BY <3>2, <3>3
  <2>5. FindsMember' /\ FfiFindsSorted'
    BY DEF FindsMember, FfiFindsSorted, RightIndex, length, record, InOrder
  <2> QED
    BY <2>2, <2>3, <2>4, <2>5
<1>2. CASE find_object_key
  <2> USE <1>2 DEF find_object_key, Considering
  <2>1. ObjectGiven'
    BY DEF ObjectGiven, InOrder, length
  <2>2. Passed'
    BY DEF Passed, length, ObjectGiven
  <2>3. Bisected'
    BY DEF Bisected, ObjectGiven, should_binary_search, length, Narrowed, InOrder
  <2>4. FindsMember' /\ FfiFindsSorted'
    BY DEF FindsMember, FfiFindsSorted, RightIndex, length, record, InOrder
  <2> QED
    BY <2>1, <2>2, <2>3, <2>4
<1>3. CASE LinearStep
  <2> USE <1>3 DEF LinearStep
  <2>1. ObjectGiven'
    BY DEF ObjectGiven, InOrder
  <2>2. Passed'
    <3>1. first + 1 \in 1 .. Len(keys) /\ first + count = Len(keys)
      BY DEF Passed, ObjectGiven
    <3>2. keys[first + 1] # wanted
      BY <3>1, MatchesIsEquality DEF record, ObjectGiven
    <3> QED
      BY <3>1, <3>2 DEF Passed, ObjectGiven
  <2>3. Bisected'
    BY DEF Bisected
  <2>4. FindsMember' /\ FfiFindsSorted'
    BY DEF FindsMember, FfiFindsSorted, RightIndex, length, record, InOrder
  <2> QED
    BY <2>1, <2>2, <2>3, <2>4
<1>4. ASSUME NEW index, Return(index), RightIndex(index)
      PROVE  IndexInv'
  <2> USE <1>4 DEF Return, Considering
  <2>1. ObjectGiven'
    BY DEF ObjectGiven, InOrder
  <2>2. Passed' /\ Bisected'
    BY DEF Passed, Bisected
  <2>3. FindsMember' /\ FfiFindsSorted'
    BY DEF FindsMember, FfiFindsSorted, RightIndex, length, record, InOrder
  <2> QED
    BY <2>1, <2>2, <2>3
<1>5. CASE ReturnLinear
  <2>1. first + count = Len(keys) /\ \A i \in 1 .. first : keys[i] # wanted
    BY <1>5 DEF ReturnLinear, Passed
  <2>2. CASE count > 0 /\ Matches(record(first), wanted) /\ Return(first)
    <3>1. first + 1 \in 1 .. Len(keys)
      BY <2>1, <2>2 DEF ObjectGiven
    <3>2. keys[first + 1] = wanted
      BY <3>1, <2>2, MatchesIsEquality DEF record, ObjectGiven
    <3>3. RightIndex(first)
      BY <3>1, <3>2 DEF RightIndex, length, record, ObjectGiven
    <3> QED
      BY <3>3, <2>2, <1>4
  <2>3. CASE count = 0 /\ Return(length)
    <3>1. RightIndex(length)
      BY <2>1, <2>3 DEF RightIndex, length, ObjectGiven
    <3> QED
      BY <3>1, <2>3, <1>4
  <2> QED
    BY <1>5, <2>2, <2>3 DEF ReturnLinear
<1>6. CASE ReturnBisected
  <2>1. InOrder(keys) /\ Narrowed(keys, wanted, first, 0)
    BY <1>6 DEF ReturnBisected, Bisected
  <2>2. RightIndex(AtBound)
    BY <2>1, AtBoundIsRight
  <2> QED
    BY <2>2, <1>4, <1>6 DEF ReturnBisected
<1>7. CASE sajson_find_object_key
  <2>0. /\ find_pc' = "ffi_lower_bound"
        /\ first' = 0 /\ count' = Len(keys)
        /\ UNCHANGED <<keys, wanted, found, found_ffi>>
    BY <1>7 DEF sajson_find_object_key, Considering, length
  <2>1. ObjectGiven'
    BY <2>0 DEF ObjectGiven, InOrder
  <2>2. Passed'
    BY <2>0 DEF Passed
  <2>3. Bisected'
    <3>1. Len(keys) \in Nat
      BY DEF ObjectGiven
    <3> QED
      BY <2>0, <3>1 DEF Bisected, Narrowed
  <2>4. FindsMember' /\ FfiFindsSorted'
    BY <2>0 DEF FindsMember, FfiFindsSorted, RightIndex, length, record, InOrder
  <2> QED
    BY <2>1, <2>2, <2>3, <2>4
<1>8. CASE ReturnFfi
  <2> USE <1>8 DEF ReturnFfi, Considering
  <2>1. InOrder(keys) => RightIndex(AtBound)
    BY AtBoundIsRight DEF Bisected
  <2>2. ObjectGiven'
    BY DEF ObjectGiven, InOrder
  <2>3. Passed' /\ Bisected'
    BY DEF Passed, Bisected
  <2>4. FindsMember'
    BY DEF FindsMember, RightIndex, length, record
  <2>5. FfiFindsSorted'
    BY <2>1 DEF FfiFindsSorted, RightIndex, length, record, InOrder
  <2> QED
    BY <2>2, <2>3, <2>4, <2>5
<1>9. CASE UNCHANGED indexVars
  BY <1>9 DEF indexVars, ObjectGiven, Passed, Bisected, FindsMember,
              FfiFindsSorted, RightIndex, Narrowed, InOrder, length, record
<1> QED
  BY <1>1, <1>2, <1>3, <1>5, <1>6, <1>7, <1>8, <1>9 DEF FindNext

\* And so always.
LEMMA IndexInvariant == FindSpec => []IndexInv
  BY IndexInit, IndexStep, PTL DEF FindSpec

\* find_object_key finds a member with the key if there is one, and says
\* that there is none otherwise, for objects of every size, keys of every
\* length, and every threshold of sorting.
THEOREM LookupIsRight == FindSpec => []FindsMember
  BY IndexInvariant, PTL DEF IndexInv

\* In a sorted object, and so in every one above the threshold, the FFI finds
\* what find_object_key finds.
THEOREM FfiLookupIsRightWhereSorted == FindSpec => []FfiFindsSorted
  BY IndexInvariant, PTL DEF IndexInv

\* find_object_key never bisects an object that was not sorted, and never
\* drops a record that may still be the one.
THEOREM BisectionIsSound == FindSpec => []BisectionKeepsBounds
<1>1. IndexInv => BisectionKeepsBounds
  BY DEF IndexInv, Bisected, BisectionKeepsBounds, Narrowed, length, record
<1> QED
  BY <1>1, IndexInvariant, PTL

-----------------------------------------------------------------------------
(***************************************************************************)
(* Dump.                                                                   *)
(***************************************************************************)
\* What dump hands to FileOut is text, and what it is called with is a node.
PiecesInv ==
    /\ pieces \in Seq(Text)
    /\ current \in Nodes
    /\ indent \in Int
    /\ pos \in Nat
    /\ dump_pc = "dump_string" => current.type = "string"

\* A frame has come to one of its children, or to the end.
FramesInv ==
    /\ frames \in Seq([container : Nodes, index : Nat])
    /\ \A k \in DOMAIN frames :
          /\ frames[k].container.type \in Containers
          /\ frames[k].index <= get_length(frames[k].container)
    /\ dump_pc = "loop" => frames # <<>>

\* Nothing handed to FileOut is lost, doubled or overtaken.
FileInv ==
    /\ buf \in Text /\ file \in Text /\ emitted \in Text
    /\ file \o buf = emitted
    /\ Len(buf) <= Capacity
    /\ dump_pc \in {"~FileOut", "written"} => pieces = <<>>
    /\ dump_pc = "written" => buf = <<>>

\* What += does with a text, whatever room there is in the buffer.
LEMMA AppendedKeepsAll ==
    ASSUME NEW b \in Text, NEW f \in Text, NEW text \in Text,
           Len(b) <= Capacity,
           NEW o, o = Appended([buf |-> b, file |-> f], text)
    PROVE  /\ o.buf \in Text /\ o.file \in Text
           /\ o.file \o o.buf = (f \o b) \o text
           /\ Len(o.buf) <= Capacity
<1> DEFINE full == Len(b) + Len(text) > Capacity
<1>0. /\ Len(b) \in Nat /\ Len(text) \in Nat /\ Capacity \in Nat
      /\ f \o b \in Text /\ (f \o b) \o text = f \o (b \o text)
      /\ <<>> \in Text /\ <<>> \o text = text /\ Len(<<>>) = 0
      /\ b \o text \in Text /\ Len(b \o text) = Len(b) + Len(text)
      /\ (f \o b) \o text \in Text
      /\ ((f \o b) \o text) \o <<>> = (f \o b) \o text
  BY CapacityAssumption DEF Text
<1>1. CASE Len(text) > Capacity
  <2>1. full
    BY <1>0, <1>1
  <2>2. o = [buf |-> <<>>, file |-> (f \o b) \o text]
    BY <2>1, <1>1 DEF Appended
  <2>3. o.buf = <<>> /\ o.file = (f \o b) \o text
    BY <2>2
  <2>4. o.buf \in Text /\ o.file \in Text
    BY <2>3, <1>0, Zenon
  <2>5. o.file \o o.buf = (f \o b) \o text
    BY <2>3, <1>0, Zenon
  <2>6. Len(o.buf) = 0
    BY <2>3, <1>0, Zenon
  <2>7. Len(o.buf) <= Capacity
    BY <2>6, CapacityAssumption
  <2> QED
    BY <2>4, <2>5, <2>7
<1>2. CASE ~(Len(text) > Capacity) /\ full
  <2>1. o.buf = <<>> \o text /\ o.file = f \o b
    BY <1>0, <1>2 DEF Appended
  <2>2. o.buf \in Text /\ o.file \in Text
    BY <2>1, <1>0, Zenon
  <2>3. o.file \o o.buf = (f \o b) \o text
    BY <2>1, <1>0, Zenon
  <2>4. o.buf = text
    BY <2>1, <1>0, Zenon
  <2>5. Len(o.buf) <= Capacity
    BY <2>4, <1>0, <1>2
  <2> QED
    BY <2>2, <2>3, <2>5
<1>3. CASE ~(Len(text) > Capacity) /\ ~full
  <2>1. o.buf = b \o text /\ o.file = f
    BY <1>0, <1>3 DEF Appended
  <2>2. o.buf \in Text /\ o.file \in Text
    BY <2>1, <1>0, Zenon
  <2>3. o.file \o o.buf = (f \o b) \o text
    BY <2>1, <1>0, Zenon
  <2>4. Len(o.buf) = Len(b) + Len(text)
    BY <2>1, <1>0, Zenon
  <2>5. Len(o.buf) <= Capacity
    BY <2>4, <1>0, <1>3
  <2> QED
    BY <2>2, <2>3, <2>5
<1> QED
  BY <1>1, <1>2, <1>3

\* A character is a text.
LEMMA OneCharacter ==
    ASSUME NEW c \in Characters
    PROVE  <<c>> \in Text /\ <<c, c>> \in Text
<1>1. \A S, x : x \in S => <<x>> \in Seq(S) /\ <<x, x>> \in Seq(S)
  BY ONLY TRUE
<1> QED
  BY <1>1 DEF Text

\* The children of a node are nodes, and the keys of an object are texts.
LEMMA ChildrenAreNodes ==
    ASSUME NEW v \in Nodes, v.type \in Containers,
           NEW index \in Nat, index < get_length(v)
    PROVE  /\ Child(v, index) \in Nodes
           /\ KeyText(v, index) \in Seq(Text)
<1>1. IsNode(v)
  BY NodesAssumption
<1>2. index + 1 \in 1 .. get_length(v) /\ get_length(v) = Len(Children(v))
  BY DEF get_length, Children, IsNode, Containers
<1>3. CASE v.type = "array"
  <2>1. v.elements \in Seq(Nodes) /\ index + 1 \in 1 .. Len(v.elements)
    BY <1>1, <1>2, <1>3 DEF IsNode, Children
  <2> QED
    BY <2>1, <1>3 DEF Child, KeyText
<1>4. CASE v.type = "object"
  <2>1. /\ v.members \in Seq([key : Text, value : Nodes])
        /\ index + 1 \in 1 .. Len(v.members)
    BY <1>1, <1>2, <1>4 DEF IsNode, Children
  <2>2. v.members[index + 1] \in [key : Text, value : Nodes]
    BY <2>1, ElementOfSeq
  <2>3. Quotes \in Text /\ <<":">> \in Text /\ <<"space">> \in Text
    <3>1. "quote" \in Characters /\ ":" \in Characters /\ "space" \in Characters
      BY CharactersAssumption
    <3> QED
      BY <3>1, OneCharacter, Zenon DEF Quotes
  <2> QED
    BY <2>2, <2>3, <1>4 DEF Child, KeyText
<1> QED
  BY <1>3, <1>4 DEF Containers

\* The length of a container is the number of its children.
LEMMA LengthIsNat ==
    ASSUME NEW v \in Nodes, v.type \in Containers
    PROVE  get_length(v) \in Nat
BY NodesAssumption DEF IsNode, get_length, Children, Containers

\* An index that is not at the end goes one on.
LEMMA AdvanceStays ==
    ASSUME NEW v \in Nodes, v.type \in Containers,
           NEW index \in Nat
    PROVE  /\ advance_index(v, index, 1) \in Nat
           /\ advance_index(v, index, 1) <= get_length(v)
BY LengthIsNat DEF advance_index

\* Layout is text.
LEMMA LayoutIsText ==
    ASSUME NEW n \in Int
    PROVE  Spaces(n) \in Seq(Text) /\ NewLine(n) \in Seq(Text)
<1>1. <<"newline">> \in Text /\ <<"space", "space">> \in Text
  <2>1. "newline" \in Characters /\ "space" \in Characters
    BY CharactersAssumption
  <2> QED
    BY <2>1, OneCharacter, Zenon
<1>2. Spaces(n) \in Seq(Text)
  <2>1. CASE n > 0
    <3>1. n \in Nat /\ Spaces(n) = [i \in 1 .. n |-> <<"space", "space">>]
      BY <2>1 DEF Spaces
    <3> QED
      BY <3>1, <1>1, IsASeq
  <2>2. CASE ~(n > 0)
    BY <2>2 DEF Spaces
  <2> QED
    BY <2>1, <2>2
<1> QED
  BY <1>1, <1>2 DEF NewLine

DumpInv == PiecesInv /\ FramesInv /\ FileInv

\* The words of JSON are text.
LEMMA WordsAreText ==
    /\ <<"n", "u", "l", "l">> \in Text
    /\ <<"f", "a", "l", "s", "e">> \in Text
<1>1. /\ \A S, a, b, c : a \in S /\ b \in S /\ c \in S =>
             <<a, b, c, c>> \in Seq(S)
      /\ \A S, a, b, c, e, f :
             a \in S /\ b \in S /\ c \in S /\ e \in S /\ f \in S =>
             <<a, b, c, e, f>> \in Seq(S)
  BY ONLY TRUE
<1>2. \A c \in {"n", "u", "l", "f", "a", "s", "e"} : c \in Characters
  BY CharactersAssumption
<1> QED
  BY <1>1, <1>2, Zenon DEF Text

\* The innermost frame, where it is not at its end.
LEMMA TopInv ==
    ASSUME FramesInv, frames # <<>>
    PROVE  /\ Len(frames) \in DOMAIN frames /\ top = frames[Len(frames)]
           /\ top.container \in Nodes /\ top.index \in Nat
           /\ top.container.type \in Containers
           /\ top.index <= get_length(top.container)
<1>1. Len(frames) \in DOMAIN frames /\ top = frames[Len(frames)]
  BY DEF FramesInv, top, Last
<1>2. top \in [container : Nodes, index : Nat]
  <2>1. Len(frames) \in 1 .. Len(frames)
    BY DEF FramesInv
  <2> QED
    BY <1>1, <2>1, ElementOfSeq, Zenon DEF FramesInv
<1> QED
  BY <1>1, <1>2 DEF FramesInv

\* It holds when nothing is written yet.
LEMMA DumpInitial == DumpInit => DumpInv
<1> SUFFICES ASSUME DumpInit PROVE DumpInv
  OBVIOUS
<1> USE DEF DumpInit
<1>1. <<>> \in Text /\ <<>> \in Seq(Text) /\ Len(<<>>) = 0 /\ 0 <= Capacity
  BY CapacityAssumption DEF Text
<1>2. PiecesInv
  BY <1>1, NodesAssumption DEF PiecesInv
<1>3. FramesInv
  BY DEF FramesInv
<1>4. FileInv
  BY <1>1 DEF FileInv, Text
<1> QED
  BY <1>2, <1>3, <1>4 DEF DumpInv

\* Up to three texts are a sequence of texts.
LEMMA FewPieces ==
    /\ <<>> \in Seq(Text)
    /\ \A x \in Text : <<x>> \in Seq(Text)
    /\ \A x, y \in Text : <<x, y>> \in Seq(Text)
    /\ \A x, y, z \in Text : <<x, y, z>> \in Seq(Text)
<1> DEFINE S == Text
<1> HIDE DEF S
<1>1. /\ <<>> \in Seq(S)
      /\ \A x \in S : <<x>> \in Seq(S)
      /\ \A x, y \in S : <<x, y>> \in Seq(S)
      /\ \A x, y, z \in S : <<x, y, z>> \in Seq(S)
  OBVIOUS
<1> QED
  BY <1>1 DEF S

\* A sequence without its last element.
LEMMA FrontOfSeq ==
    ASSUME NEW S, NEW s \in Seq(S), s # <<>>
    PROVE  /\ Front(s) \in Seq(S)
           /\ Len(Front(s)) = Len(s) - 1
           /\ \A i \in 1 .. Len(Front(s)) : Front(s)[i] = s[i]
<1> DEFINE m == Len(s) - 1
<1>1. m \in Nat /\ Len(s) \in Nat /\ \A i \in 1 .. m : s[i] \in S
  BY EmptySeq, ElementOfSeq
<1>2. Front(s) = SubSeq(s, 1, m)
  BY DEF Front
<1> HIDE DEF m
<1>3. /\ SubSeq(s, 1, m) \in Seq(S)
      /\ Len(SubSeq(s, 1, m)) = IF 1 <= m THEN m - 1 + 1 ELSE 0
      /\ \A i \in 1 .. m - 1 + 1 : SubSeq(s, 1, m)[i] = s[1 + i - 1]
  BY <1>1, SubSeqProperties
<1>4. Len(Front(s)) = m /\ \A i \in 1 .. m : Front(s)[i] = s[i]
  <2>1. Len(SubSeq(s, 1, m)) = m
    BY <1>1, <1>3
  <2>2. \A i \in 1 .. m : i \in 1 .. m - 1 + 1 /\ 1 + i - 1 = i
    BY <1>1
  <2> QED
    BY <1>2, <1>3, <2>1, <2>2
<1> QED
  BY <1>2, <1>3, <1>4 DEF m

\* A step that hands text to FileOut leaves the file alone.
LEMMA EmitKeepsFile ==
    ASSUME DumpInv, NEW texts, NEW place, Emit(texts, place),
           place \notin {"~FileOut", "written"}
    PROVE  FileInv'
BY DEF DumpInv, FileInv, Emit, fileVars

\* Every step keeps it.
LEMMA DumpStep == DumpInv /\ [DumpNext]_dumpVars => DumpInv'
<1> SUFFICES ASSUME DumpInv, [DumpNext]_dumpVars
             PROVE  DumpInv'
  OBVIOUS
<1> USE DEF DumpInv
<1>t. \A c \in {"backslash", "n", ",", "[", "]", "{", "}", "newline"} :
          <<c>> \in Text
  <2>1. \A c \in {"backslash", "n", ",", "[", "]", "{", "}", "newline"} :
            c \in Characters
    BY CharactersAssumption
  <2> QED
    BY <2>1, OneCharacter, Zenon
<1>q. Quotes \in Text
  <2>1. "quote" \in Characters
    BY CharactersAssumption
  <2> QED
    BY <2>1, OneCharacter, Zenon DEF Quotes
<1>1. CASE Write
  <2> DEFINE text == Head(pieces)
             o == Appended([buf |-> buf, file |-> file], text)
  <2>1. text \in Text /\ Tail(pieces) \in Seq(Text)
    BY <1>1 DEF Write, PiecesInv
  <2>2. buf \in Text /\ file \in Text /\ Len(buf) <= Capacity
        /\ emitted \in Text /\ file \o buf = emitted
    BY DEF FileInv
  <2>3. buf' = o.buf /\ file' = o.file /\ emitted' = emitted \o text
    BY <1>1 DEF Write
  <2> HIDE DEF o, text
  <2>4. /\ o.buf \in Text /\ o.file \in Text
        /\ o.file \o o.buf = (file \o buf) \o text
        /\ Len(o.buf) <= Capacity
    BY <2>1, <2>2, AppendedKeepsAll DEF o
  <2>5. emitted \o text \in Text
    BY <2>1, <2>2 DEF Text
  <2>6. /\ dump_pc' = dump_pc /\ dump_pc # "written"
        /\ pieces' = Tail(pieces)
        /\ UNCHANGED <<current, indent, frames, pos>>
    BY <1>1 DEF Write, FileInv
  <2>7. FileInv'
    <3>1. file' \o buf' = emitted'
      BY <2>2, <2>3, <2>4, Zenon
    <3>2. buf' \in Text /\ file' \in Text /\ emitted' \in Text
      BY <2>3, <2>4, <2>5, Zenon
    <3>3. Len(buf') <= Capacity
      BY <2>3, <2>4, Zenon
    <3> QED
      BY <3>1, <3>2, <3>3, <2>6 DEF FileInv
  <2>8. PiecesInv'
    BY <2>1, <2>6 DEF PiecesInv
  <2>9. FramesInv'
    BY <2>6 DEF FramesInv
  <2> QED
    BY <2>7, <2>8, <2>9
<1>2. CASE DumpString
  <2> USE <1>2 DEF DumpString
  <2>1. FileInv'
    BY EmitKeepsFile
  <2>2. PiecesInv'
    BY <1>q DEF PiecesInv, Emit
  <2>3. FramesInv'
    BY DEF FramesInv, Emit
  <2> QED
    BY <2>1, <2>2, <2>3
<1>3. CASE StringPiece
  <2> DEFINE s == current.text
  <2>1. FileInv'
    <3>1. \E texts : Emit(texts, "after") \/ Emit(texts, "dump_string")
      BY <1>3, Zenon DEF StringPiece
    <3> QED
      BY <3>1, EmitKeepsFile
  <2>2. PiecesInv'
    <3>1. IsNode(current) /\ current.type = "string" /\ pos \in Nat
      BY <1>3, NodesAssumption DEF StringPiece, At, PiecesInv
    <3>2. s \in Text
      BY <3>1 DEF IsNode
    <3>3. \A n \in 1 .. Len(s) + 1 : SubSeq(s, pos + 1, n - 1) \in Text
      <4> SUFFICES ASSUME NEW n \in 1 .. Len(s) + 1
                   PROVE  SubSeq(s, pos + 1, n - 1) \in Text
        OBVIOUS
      <4> HIDE DEF s
      <4>1. Len(s) \in Nat
        BY <3>2 DEF Text
      <4>2. pos + 1 \in 1 .. Len(s) + 1 \/ pos + 1 > n - 1
        BY <3>1, <4>1
      <4> QED
        BY <3>1, <3>2, <4>1, <4>2, SubSeqProperties DEF Text
    <3>4. CASE /\ pieces' = <<SubSeq(s, pos + 1, Len(s)), Quotes>>
               /\ dump_pc' = "after" /\ pos' = pos
      <4>1. Len(s) \in Nat
        BY <3>2 DEF Text
      <4>2. SubSeq(s, pos + 1, Len(s)) \in Text
        BY <3>3, <4>1
      <4> QED
        BY <3>4, <4>2, <1>q, <1>3 DEF PiecesInv, StringPiece
    <3>5. ASSUME NEW n \in pos + 1 .. Len(s),
                 pieces' = <<SubSeq(s, pos + 1, n - 1), <<"backslash">>,
                             EscapedAs(s[n])>>,
                 dump_pc' = "dump_string", pos' = n, s[n] \in Escaped
          PROVE  PiecesInv'
      <4>1. SubSeq(s, pos + 1, n - 1) \in Text
        BY <3>1, <3>3
      <4>2. EscapedAs(s[n]) \in Text
        <5>1. s[n] \in Characters
          BY <3>1, <3>2, <3>5, ElementOfSeq DEF Text
        <5> QED
          BY <5>1, <1>t, OneCharacter DEF EscapedAs
      <4>3. n \in Nat
        BY <3>1
      <4>4. pieces' \in Seq(Text)
        <5>1. <<"backslash">> \in Text
          BY <1>t
        <5> QED
          BY <3>5, <4>1, <4>2, <5>1, FewPieces, Zenon
      <4>5. UNCHANGED <<current, indent>>
        BY <1>3 DEF StringPiece
      <4> QED
        BY <3>1, <3>5, <4>3, <4>4, <4>5 DEF PiecesInv
    <3> QED
      BY <3>4, <3>5, <1>3 DEF StringPiece, Emit
  <2>3. FramesInv'
    BY <1>3 DEF FramesInv, StringPiece, Emit
  <2> QED
    BY <2>1, <2>2, <2>3
<1>4. CASE DumpScalar
  <2> USE <1>4 DEF DumpScalar
  <2>1. FileInv'
    BY EmitKeepsFile
  <2>2. ScalarText(current) \in Text
    <3>1. IsNode(current)
      BY NodesAssumption DEF PiecesInv
    <3>2. CASE current.type \in {"integer", "double"}
      <4>1. to_string(current) \in Text
        BY <3>1, <3>2 DEF IsNode
      <4>2. ScalarText(current) = to_string(current)
        BY <3>2 DEF ScalarText
      <4> QED
        BY <4>1, <4>2
    <3>3. CASE current.type \notin {"integer", "double"}
      <4>1. current.type \in {"null", "false", "true"}
        BY <3>1, <3>3 DEF IsNode, Containers
      <4> QED
        BY <4>1, <3>3, WordsAreText DEF ScalarText
    <3> QED
      BY <3>2, <3>3
  <2>3. PiecesInv'
    BY <2>2 DEF PiecesInv, Emit
  <2>4. FramesInv'
    BY DEF FramesInv, Emit
  <2> QED
    BY <2>1, <2>3, <2>4
<1>5. CASE DumpContainer
  <2> USE <1>5 DEF DumpContainer
  <2>1. FileInv'
    BY EmitKeepsFile
  <2>2. PiecesInv'
    <3>1. Opening(current) \in Text
      BY <1>t DEF Opening
    <3> QED
      BY <3>1 DEF PiecesInv, Emit
  <2>3. FramesInv'
    <3>1. get_length(current) \in Nat
      BY LengthIsNat DEF PiecesInv
    <3> QED
      BY <3>1 DEF FramesInv, PiecesInv
  <2> QED
    BY <2>1, <2>2, <2>3
<1>6. CASE DumpChild
  <2> USE <1>6 DEF DumpChild
  <2>1. FileInv'
    BY EmitKeepsFile
  <2>2. /\ top.container \in Nodes /\ top.index \in Nat
        /\ top.container.type \in Containers
        /\ top.index < get_length(top.container)
    <3>1. frames # <<>>
      BY DEF FramesInv, At
    <3> QED
      BY <3>1, TopInv, LengthIsNat
  <2>3. PiecesInv'
    <3>1. /\ Child(top.container, top.index) \in Nodes
          /\ KeyText(top.container, top.index) \in Seq(Text)
      BY <2>2, ChildrenAreNodes
    <3>2. NewLine(indent) \in Seq(Text)
      BY LayoutIsText DEF PiecesInv
    <3> QED
      BY <3>1, <3>2 DEF PiecesInv, Emit
  <2>4. FramesInv'
    BY DEF FramesInv, Emit
  <2> QED
    BY <2>1, <2>3, <2>4
<1>7. CASE AfterChild
  <2>1. FileInv'
    <3>1. \E texts : Emit(texts, "loop")
      BY <1>7, Zenon DEF AfterChild
    <3> QED
      BY <3>1, EmitKeepsFile
  <2> USE <1>7 DEF AfterChild
  <2>2. PiecesInv'
    <3>1. (IF CommaAfter(top.index, get_length(top.container))
           THEN <<<<",">>>> ELSE <<>>) \in Seq(Text)
      <4>1. <<",">> \in Text
        BY <1>t
      <4> QED
        BY <4>1, FewPieces, Zenon
    <3> HIDE DEF top
    <3> QED
      BY <3>1 DEF PiecesInv, Emit
  <2>3. FramesInv'
    <3> DEFINE n == Len(frames)
               next == advance_index(top.container, top.index, 1)
    <3>1. /\ n \in DOMAIN frames /\ top = frames[n]
          /\ top.container \in Nodes /\ top.index \in Nat
          /\ top.container.type \in Containers
      BY TopInv
    <3>2. next \in Nat /\ next <= get_length(top.container)
      BY <3>1, AdvanceStays
    <3>3. frames' = [frames EXCEPT ![n] = [@ EXCEPT !.index = next]]
      BY <3>1
    <3>4. frames \in Seq([container : Nodes, index : Nat])
      BY DEF FramesInv
    <3> HIDE DEF n, next
    <3> DEFINE moved == [frames[n] EXCEPT !.index = next]
    <3>r. n \in 1 .. Len(frames) /\ DOMAIN frames = 1 .. Len(frames)
      BY <3>1, <3>4, LenProperties
    <3>f. frames[n] \in [container : Nodes, index : Nat]
      BY <3>4, <3>r, ElementOfSeq
    <3>5. /\ moved \in [container : Nodes, index : Nat]
          /\ moved.container = frames[n].container /\ moved.index = next
      BY <3>2, <3>f
    <3> HIDE DEF moved
    <3>6. /\ frames' \in Seq([container : Nodes, index : Nat])
          /\ Len(frames') = Len(frames)
          /\ \A k \in 1 .. Len(frames) :
                frames'[k] = IF k = n THEN moved ELSE frames[k]
      <4>1. frames' = [frames EXCEPT ![n] = moved]
        BY <3>3 DEF moved
      <4> QED
        BY ONLY <4>1, <3>4, <3>5, <3>r, ExceptSeq
    <3>7. ASSUME NEW k \in DOMAIN frames
          PROVE  /\ frames'[k].container.type \in Containers
                 /\ frames'[k].index <= get_length(frames'[k].container)
      <4>1. CASE k = n
        BY <4>1, <3>1, <3>2, <3>5, <3>6, <3>r
      <4>2. CASE k # n
        BY <4>2, <3>6, <3>r DEF FramesInv
      <4> QED
        BY <4>1, <4>2
    <3> QED
      <4>1. frames' # <<>>
        BY ONLY <3>1, <3>4, <3>6, <3>r, EmptySeq
      <4>2. DOMAIN frames' = DOMAIN frames
        BY <3>6, <3>r, LenProperties
      <4> QED
        BY <3>6, <3>7, <4>1, <4>2 DEF FramesInv
  <2> QED
    BY <2>1, <2>2, <2>3
<1>8. CASE CloseContainer
  <2> USE <1>8 DEF CloseContainer
  <2>1. FileInv'
    BY EmitKeepsFile
  <2>2. PiecesInv'
    <3>1. indent' \in Int
      BY DEF PiecesInv
    <3>2. Spaces(indent') \in Seq(Text)
      BY <3>1, LayoutIsText
    <3>3. Closing(top.container) \in Text
      BY <1>t DEF Closing
    <3>4. ((IF indent # -1 THEN <<<<"newline">>>> \o Spaces(indent') ELSE <<>>)
              \o <<Closing(top.container)>>) \in Seq(Text)
      <4>1. <<"newline">> \in Text
        BY <1>t
      <4> QED
        BY <3>2, <3>3, <4>1, FewPieces, ConcatProperties, Zenon
    <3> QED
      BY <3>1, <3>4 DEF PiecesInv, Emit
  <2>3. FramesInv'
    <3>1. frames # <<>> /\ frames \in Seq([container : Nodes, index : Nat])
      BY DEF FramesInv, At
    <3>2. /\ frames' \in Seq([container : Nodes, index : Nat])
          /\ Len(frames') = Len(frames) - 1
          /\ \A k \in 1 .. Len(frames') : frames'[k] = frames[k]
      BY <3>1, FrontOfSeq
    <3>3. /\ dump_pc' # "loop"
          /\ DOMAIN frames' = 1 .. Len(frames') /\ DOMAIN frames' \subseteq DOMAIN frames
      <4>1. dump_pc' # "loop"
        BY DEF Emit
      <4>2. DOMAIN frames' = 1 .. Len(frames') /\ DOMAIN frames = 1 .. Len(frames)
        BY <3>1, <3>2, LenProperties
      <4>3. Len(frames) \in Nat
        BY <3>1
      <4> QED
        BY ONLY <3>2, <4>1, <4>2, <4>3
    <3> QED
      BY ONLY FramesInv, <3>2, <3>3 DEF FramesInv
  <2> QED
    BY <2>1, <2>2, <2>3
<1>9. CASE ReturnSize
  BY <1>9 DEF ReturnSize, At, PiecesInv, FramesInv, FileInv, fileVars
<1>10. CASE Flush
  <2> USE <1>10 DEF Flush
  <2>1. buf \in Text /\ file \in Text /\ file \o buf = emitted
    BY DEF FileInv
  <2>2. <<>> \in Text /\ Len(<<>>) = 0 /\ file \o buf \in Text
    BY <2>1, EmptySeq, ConcatProperties DEF Text
  <2>3. (file \o buf) \o <<>> = file \o buf
    BY <2>2, ConcatEmptySeq DEF Text
  <2>4. FileInv'
    <3>1. /\ buf' = <<>> /\ file' = emitted /\ emitted' = emitted
          /\ pieces' = pieces /\ pieces = <<>>
      BY <2>1 DEF FileInv
    <3>2. file' \o buf' = emitted'
      BY <2>1, <2>3, <3>1, Zenon
    <3>3. Len(buf') <= Capacity
      BY <2>2, <3>1, CapacityAssumption
    <3> QED
      BY <2>1, <2>2, <3>1, <3>2, <3>3, Zenon DEF FileInv
  <2>5. PiecesInv' /\ FramesInv'
    BY DEF PiecesInv, FramesInv
  <2> QED
    BY <2>4, <2>5
<1>11. CASE UNCHANGED dumpVars
  BY <1>11 DEF dumpVars, fileVars, PiecesInv, FramesInv, FileInv
<1> QED
  BY <1>1, <1>2, <1>3, <1>4, <1>5, <1>6, <1>7, <1>8, <1>9, <1>10, <1>11
     DEF DumpNext

\* A program that writes no value writes nothing.
LEMMA IdleStays ==
    ASSUME DumpIdle, [DumpNext]_dumpVars PROVE DumpIdle'
<1>1. dump_pc = "idle" /\ pieces = <<>>
  BY DEF DumpIdle
<1>2. ~DumpNext
  BY <1>1 DEF DumpNext, Write, DumpString, StringPiece, DumpScalar,
              DumpContainer, DumpChild, AfterChild, CloseContainer,
              ReturnSize, Flush, At
<1> QED
  BY <1>2 DEF DumpIdle, dumpVars, fileVars

\* The invariants of both readers, in every behaviour of either.
LEMMA ReaderInvariant ==
    Spec => [](IndexInv /\ (DumpIdle \/ DumpInv))
<1>1. Init => IndexInv /\ (DumpIdle \/ DumpInv)
  <2>1. FindIdle => IndexInv
    <3>1. Key(0, 0) \in Keys /\ <<>> \in Seq(Keys) /\ Len(<<>>) = 0
      BY DEF Key, Keys
    <3> QED
      BY <3>1, ObjectsAssumption
      DEF FindIdle, IndexInv, ObjectGiven, Passed, Bisected, FindsMember,
          FfiFindsSorted, Pending, InOrder
  <2>2. DumpInit => DumpInv
    BY DumpInitial
  <2> QED
    BY <2>1, <2>2, IndexInit DEF Init
<1>2. /\ IndexInv /\ (DumpIdle \/ DumpInv)
      /\ [Next]_vars
      => (IndexInv /\ (DumpIdle \/ DumpInv))'
  <2> SUFFICES ASSUME IndexInv, DumpIdle \/ DumpInv, [Next]_vars
               PROVE  (IndexInv /\ (DumpIdle \/ DumpInv))'
    OBVIOUS
  <2>1. [FindNext]_indexVars /\ [DumpNext]_dumpVars
    BY DEF Next, vars
  <2>2. DumpIdle => DumpIdle'
    BY <2>1, IdleStays
  <2> QED
    BY <2>1, <2>2, IndexStep, DumpStep
<1> QED
  BY <1>1, <1>2, PTL DEF Spec

\* find_object_key is right also where the document has another reader.
THEOREM ReaderFindsMember == Spec => []FindsMember
  BY ReaderInvariant, PTL DEF IndexInv

\* And so is the lookup of the FFI in a sorted object.
THEOREM ReaderFfiFindsSorted == Spec => []FfiFindsSorted
  BY ReaderInvariant, PTL DEF IndexInv

\* Whatever is written, and whatever the capacity of the buffer: the file and
\* the buffer hold every character handed to FileOut, once and in order, the
\* buffer is never larger than its capacity, and in the end the file has all.
THEOREM FileOutKeepsAll == Spec => []FileKeepsAll
<1>1. DumpInv => FileKeepsAll
  BY ConcatEmptySeq DEF DumpInv, FileInv, FileKeepsAll, Text
<1>2. DumpIdle => FileKeepsAll
  BY EmptySeq, ConcatEmptySeq, CapacityAssumption DEF DumpIdle, FileKeepsAll
<1> QED
  BY <1>1, <1>2, ReaderInvariant, PTL

-----------------------------------------------------------------------------
(***************************************************************************)
(* Flattening texts.  A recursive function is its definition's fixed       *)
(* point; that there is one is proved from the heights it descends.        *)
(***************************************************************************)
\* A set of natural numbers has a least one.
LEMMA LeastNatural ==
    ASSUME NEW T \in SUBSET Nat, T # {}
    PROVE  \E k \in T : \A j \in T : k <= j
<1>1. PICK m \in T : \A y \in T : ~(<<y, m>> \in OpToRel(<, Nat))
  BY NatLessThanWellFounded, WFMin
<1>2. \A y \in T : ~(y < m)
  <2>1. \A x, y \in Nat : <<x, y>> \in OpToRel(<, Nat) <=> x < y
    BY DEF OpToRel
  <2> QED
    BY <1>1, <2>1, Zenon
<1> QED
  BY <1>2

\* Concatenation, where its laws alone are wanted.
Cat(s, t) == s \o t

\* The laws of concatenation.
LEMMA CatIs ==
    /\ \A S : \A s, t \in Seq(S) : Cat(s, t) \in Seq(S)
    /\ \A S : \A r, s, t \in Seq(S) : Cat(Cat(r, s), t) = Cat(r, Cat(s, t))
    /\ \A S : \A s \in Seq(S) : Cat(s, <<>>) = s
    /\ \A S : \A s \in Seq(S) : \A x \in S : Append(s, x) = Cat(s, <<x>>)
BY ConcatProperties, ConcatAssociative, ConcatEmptySeq, AppendIsConcat DEF Cat

\* The function FlattenSeq is defined by: the first n texts, one by one.
Flattens(f, ts, n) ==
    f = [i \in 1 .. n |-> IF i = 1 THEN ts[i] ELSE f[i - 1] \o ts[i]]

\* Two sequences that begin with the same texts.
LEMMA FlattensSame ==
    ASSUME NEW f, NEW g, NEW ts, NEW us, NEW n \in Nat, NEW m \in Nat,
           Flattens(f, ts, n), Flattens(g, us, m), n <= m,
           \A i \in 1 .. n : ts[i] = us[i]
    PROVE  \A i \in 1 .. n : f[i] = g[i]
<1> DEFINE T == {i \in 1 .. n : f[i] # g[i]}
<1> SUFFICES ASSUME T # {} PROVE FALSE
  OBVIOUS
<1>1. PICK i \in T : \A j \in T : i <= j
  <2>1. T \in SUBSET Nat
    OBVIOUS
  <2> QED
    BY <2>1, LeastNatural
<1>2. i \in 1 .. n /\ i \in 1 .. m /\ ts[i] = us[i] /\ f[i] # g[i]
  OBVIOUS
<1>3. /\ f[i] = IF i = 1 THEN ts[i] ELSE f[i - 1] \o ts[i]
      /\ g[i] = IF i = 1 THEN us[i] ELSE g[i - 1] \o us[i]
  BY <1>2 DEF Flattens
<1>4. i # 1 => f[i - 1] = g[i - 1]
  BY <1>1, <1>2
<1> QED
  BY <1>2, <1>3, <1>4

\* What FlattenSeq is defined by exists.
LEMMA FlattensExists ==
    ASSUME NEW C, NEW ts \in Seq(Seq(C))
    PROVE  \A n \in 0 .. Len(ts) :
              \E f : Flattens(f, ts, n) /\ \A i \in 1 .. n : f[i] \in Seq(C)
<1> DEFINE P(n) == \E f : /\ Flattens(f, ts, n)
                          /\ \A i \in 1 .. n : f[i] \in Seq(C)
           T == {n \in 0 .. Len(ts) : ~P(n)}
<1>1. Len(ts) \in Nat
  OBVIOUS
<1> SUFFICES ASSUME T # {} PROVE FALSE
  OBVIOUS
<1>2. PICK n \in T : \A j \in T : n <= j
  <2>1. T \in SUBSET Nat
    BY <1>1
  <2> HIDE DEF T
  <2> QED
    BY <2>1, LeastNatural
<1>3. n \in 0 .. Len(ts) /\ ~P(n)
  OBVIOUS
<1>4. n # 0
  <2>1. Flattens([i \in {} |-> <<>>], ts, 0)
    BY DEF Flattens
  <2>2. P(0)
    BY <2>1
  <2> QED
    BY <1>3, <2>2
<1>5. PICK k \in 0 .. Len(ts) : k = n - 1 /\ n = k + 1
  BY <1>1, <1>3, <1>4
<1>p. P(k)
  <2>1. ~(n <= k)
    BY <1>1, <1>5
  <2> HIDE DEF P
  <2> QED
    BY <1>2, <1>5, <2>1
<1>6. PICK f : Flattens(f, ts, k) /\ \A i \in 1 .. k : f[i] \in Seq(C)
  BY <1>p
<1> DEFINE g == [i \in 1 .. n |-> IF i = 1 THEN ts[i] ELSE f[i - 1] \o ts[i]]
<1>7. \A i \in 1 .. k : g[i] = f[i]
  <2>1. \A i \in 1 .. k : /\ i \in 1 .. n
                          /\ f[i] = IF i = 1 THEN ts[i] ELSE f[i - 1] \o ts[i]
    <3>1. \A i \in 1 .. k : i \in 1 .. n
      BY <1>1, <1>5
    <3> QED
      BY <1>6, <3>1 DEF Flattens
  <2> QED
    BY <2>1
<1>8. Flattens(g, ts, n)
  <2>1. \A i \in 1 .. n : i # 1 => g[i - 1] = f[i - 1]
    <3>1. \A i \in 1 .. n : i # 1 => i - 1 \in 1 .. k
      BY <1>1, <1>5
    <3> HIDE DEF g
    <3> QED
      BY <1>7, <3>1
  <2> QED
    BY <2>1 DEF Flattens
<1>9. \A i \in 1 .. n : g[i] \in Seq(C)
  <2> SUFFICES ASSUME NEW i \in 1 .. n PROVE g[i] \in Seq(C)
    OBVIOUS
  <2>1. ts[i] \in Seq(C)
    BY <1>1, <1>3, ElementOfSeq
  <2>2. i # 1 => f[i - 1] \in Seq(C)
    BY <1>1, <1>5, <1>6
  <2>3. i # 1 => f[i - 1] \o ts[i] \in Seq(C)
    BY <2>1, <2>2, ConcatProperties
  <2> QED
    BY <2>1, <2>3
<1> HIDE DEF g
<1> QED
  BY <1>3, <1>8, <1>9

\* FlattenSeq, by that function.
LEMMA FlattenIs ==
    ASSUME NEW C, NEW ts \in Seq(Seq(C)), ts # <<>>
    PROVE  \E f : /\ Flattens(f, ts, Len(ts))
                  /\ FlattenSeq(ts) = f[Len(ts)]
                  /\ FlattenSeq(ts) \in Seq(C)
<1>1. Len(ts) \in Nat \ {0}
  BY EmptySeq
<1> DEFINE f == CHOOSE f : Flattens(f, ts, Len(ts))
<1>2. FlattenSeq(ts) = f[Len(ts)]
  BY <1>1 DEF FlattenSeq, Flattens
<1>3. PICK g : /\ Flattens(g, ts, Len(ts))
               /\ \A i \in 1 .. Len(ts) : g[i] \in Seq(C)
  BY <1>1, FlattensExists
<1>4. Flattens(f, ts, Len(ts))
  BY <1>3
<1> HIDE DEF f
<1>5. f[Len(ts)] = g[Len(ts)]
  BY <1>1, <1>3, <1>4, FlattensSame
<1> QED
  BY <1>1, <1>2, <1>3, <1>4, <1>5

\* No texts are no text.
LEMMA FlattenEmpty == FlattenSeq(<<>>) = <<>>
BY DEF FlattenSeq

\* Texts of some characters are one text of them.
LEMMA FlattenInSeq ==
    ASSUME NEW C, NEW ts \in Seq(Seq(C))
    PROVE  FlattenSeq(ts) \in Seq(C)
BY FlattenIs, FlattenEmpty

\* One text more.
LEMMA FlattenAppend ==
    ASSUME NEW C, NEW ts \in Seq(Seq(C)), NEW x \in Seq(C)
    PROVE  FlattenSeq(Append(ts, x)) = FlattenSeq(ts) \o x
<1> DEFINE us == Append(ts, x)
<1>1. /\ us \in Seq(Seq(C)) /\ us # <<>> /\ Len(us) = Len(ts) + 1
      /\ \A i \in 1 .. Len(ts) : us[i] = ts[i]
      /\ us[Len(ts) + 1] = x
  BY AppendProperties
<1>2. Len(ts) \in Nat
  OBVIOUS
<1> HIDE DEF us
<1>3. PICK g : Flattens(g, us, Len(us)) /\ FlattenSeq(us) = g[Len(us)]
  BY <1>1, FlattenIs
<1>4. g[Len(us)] = IF Len(us) = 1 THEN us[Len(us)]
                   ELSE g[Len(us) - 1] \o us[Len(us)]
  <2>1. Len(us) \in 1 .. Len(us)
    BY <1>1, <1>2
  <2> QED
    BY <1>3, <2>1 DEF Flattens
<1>5. CASE ts = <<>>
  <2>1. g[Len(us)] = x
    BY <1>1, <1>4, <1>5
  <2> QED
    BY <1>3, <1>5, <2>1, FlattenEmpty, ConcatEmptySeq DEF us
<1>6. CASE ts # <<>>
  <2>1. PICK f : Flattens(f, ts, Len(ts)) /\ FlattenSeq(ts) = f[Len(ts)]
    BY <1>6, FlattenIs
  <2>2. Len(ts) \in Nat \ {0}
    BY <1>6, EmptySeq
  <2>a. PICK n \in Nat, m \in Nat : n = Len(ts) /\ m = Len(us) /\ m = n + 1
                                    /\ n # 0
    BY <1>1, <2>2
  <2>3. f[n] = g[n]
    <3>1. /\ Flattens(f, ts, n) /\ Flattens(g, us, m) /\ n <= m
          /\ \A i \in 1 .. n : ts[i] = us[i]
      BY <1>1, <1>3, <2>1, <2>a
    <3>2. \A i \in 1 .. n : f[i] = g[i]
      <4> HIDE DEF us
      <4> QED
        BY ONLY n \in Nat, m \in Nat, <3>1, FlattensSame
    <3> QED
      BY <2>a, <3>2
  <2>4. g[m] = g[n] \o x
    <3>1. us[Len(us)] = x
      BY <1>1
    <3>2. Len(us) - 1 = n /\ Len(us) # 1
      BY <2>a
    <3> QED
      BY <1>4, <2>a, <3>1, <3>2
  <2> QED
    BY <1>3, <2>1, <2>a, <2>3, <2>4 DEF us
<1> QED
  BY <1>5, <1>6

\* One text is itself.
LEMMA FlattenOne ==
    ASSUME NEW C, NEW x \in Seq(C)
    PROVE  FlattenSeq(<<x>>) = x
<1>1. PICK t : t = <<>> /\ t \in Seq(Seq(C))
  BY EmptySeq
<1>2. <<x>> = Append(t, x)
  BY <1>1
<1>3. FlattenSeq(Append(t, x)) = FlattenSeq(t) \o x
  BY <1>1, FlattenAppend
<1>4. FlattenSeq(t) = <<>>
  BY <1>1, FlattenEmpty
<1> QED
  BY <1>2, <1>3, <1>4, ConcatEmptySeq

\* The texts up to one of them.
LEMMA FlattenPrefix ==
    ASSUME NEW C, NEW ts \in Seq(Seq(C)), NEW n \in Nat, n < Len(ts)
    PROVE  /\ SubSeq(ts, 1, n) \in Seq(Seq(C))
           /\ FlattenSeq(SubSeq(ts, 1, n)) \in Seq(C)
           /\ FlattenSeq(SubSeq(ts, 1, n + 1))
                = FlattenSeq(SubSeq(ts, 1, n)) \o ts[n + 1]
<1>1. Len(ts) \in Nat /\ n + 1 \in 1 .. Len(ts)
  OBVIOUS
<1>2. \A i \in 1 .. n : ts[i] \in Seq(C)
  BY <1>1, ElementOfSeq
<1>3. SubSeq(ts, 1, n) \in Seq(Seq(C))
  BY <1>2, SubSeqProperties
<1>4. SubSeq(ts, 1, n + 1) = Append(SubSeq(ts, 1, n), ts[n + 1])
  <2>1. SubSeq(ts, 1, n + 1) = SubSeq(ts, 1, (n + 1) - 1) \o <<ts[n + 1]>>
    BY <1>1, SubSeqRecursiveSecond
  <2>2. (n + 1) - 1 = n
    OBVIOUS
  <2>3. ts[n + 1] \in Seq(C)
    BY <1>1, ElementOfSeq
  <2>4. Append(SubSeq(ts, 1, n), ts[n + 1]) = SubSeq(ts, 1, n) \o <<ts[n + 1]>>
    BY <1>3, <2>3, AppendIsConcat
  <2> QED
    BY <2>1, <2>2, <2>4
<1>5. ts[n + 1] \in Seq(C)
  BY <1>1, ElementOfSeq
<1> QED
  BY <1>3, <1>4, <1>5, FlattenAppend, FlattenInSeq

\* What holds at 0, and one further up to n wherever it holds, holds up to n.
LEMMA UpTo ==
    ASSUME NEW n \in Nat, NEW T \in SUBSET (0 .. n), 0 \in T,
           \A k \in T : k < n => k + 1 \in T
    PROVE  T = 0 .. n
<1> DEFINE R == (0 .. n) \ T
<1> SUFFICES ASSUME R # {} PROVE FALSE
  OBVIOUS
<1>1. PICK m \in R : \A j \in R : m <= j
  <2>1. R \in SUBSET Nat
    OBVIOUS
  <2> HIDE DEF R
  <2> QED
    BY <2>1, LeastNatural
<1>2. m \in 1 .. n /\ m \notin T
  OBVIOUS
<1>3. PICK k \in 0 .. n : m = k + 1 /\ k < n
  BY <1>2
<1>4. k \in T
  BY <1>1, <1>3
<1> QED
  BY <1>2, <1>3, <1>4

\* One more of a sequence.
LEMMA OneMore ==
    ASSUME NEW S, NEW s \in Seq(S), NEW n \in Nat, n < Len(s)
    PROVE  /\ SubSeq(s, 1, n) \in Seq(S) /\ s[n + 1] \in S
           /\ SubSeq(s, 1, n + 1) = SubSeq(s, 1, n) \o <<s[n + 1]>>
<1>1. Len(s) \in Nat
  OBVIOUS
<1>2. PICK m \in 1 .. Len(s) : m = n + 1 /\ m - 1 = n
  BY <1>1
<1>3. 1 \in 1 .. Len(s) /\ m \in 1 .. Len(s) /\ m \in 1 .. m
  BY <1>1
<1>4. SubSeq(s, 1, m) = SubSeq(s, 1, m - 1) \o <<s[m]>>
  BY <1>3, SubSeqRecursiveSecond
<1>5. \A i \in 1 .. n : s[i] \in S
  BY <1>1, ElementOfSeq
<1>6. SubSeq(s, 1, n) \in Seq(S)
  BY <1>5, SubSeqProperties
<1> QED
  BY <1>2, <1>3, <1>4, <1>6, ElementOfSeq

\* Texts of two sequences.
LEMMA FlattenConcat ==
    ASSUME NEW C, NEW ts \in Seq(Seq(C)), NEW us \in Seq(Seq(C))
    PROVE  FlattenSeq(ts \o us) = FlattenSeq(ts) \o FlattenSeq(us)
<1> DEFINE Good(n) == FlattenSeq(ts \o SubSeq(us, 1, n))
                        = FlattenSeq(ts) \o FlattenSeq(SubSeq(us, 1, n))
           T == {n \in 0 .. Len(us) : Good(n)}
<1>1. Len(us) \in Nat
  OBVIOUS
<1>2. Good(0)
  <2>1. SubSeq(us, 1, 0) = <<>>
    BY SubSeqEmpty
  <2>2. FlattenSeq(ts) \in Seq(C)
    BY FlattenInSeq
  <2>3. ts \o <<>> = ts /\ FlattenSeq(ts) \o <<>> = FlattenSeq(ts)
    BY <2>2, ConcatEmptySeq
  <2> QED
    BY <2>1, <2>3, FlattenEmpty
<1>3. ASSUME NEW k \in Nat, k < Len(us), Good(k) PROVE Good(k + 1)
  <2>1. PICK u, v, x : /\ u = SubSeq(us, 1, k) /\ v = SubSeq(us, 1, k + 1)
                       /\ x = us[k + 1]
    OBVIOUS
  <2>2. u \in Seq(Seq(C)) /\ x \in Seq(C) /\ v = u \o <<x>>
    BY <1>3, <2>1, OneMore
  <2>3. FlattenSeq(Cat(ts, u)) = Cat(FlattenSeq(ts), FlattenSeq(u))
    BY <1>3, <2>1 DEF Cat
  <2> HIDE DEF Good, T
  <2>4. PICK one \in Seq(Seq(C)), tu \in Seq(Seq(C)) :
            one = <<x>> /\ tu = Cat(ts, u) /\ v = Cat(u, one)
    <3>1. \A S, y : y \in S => <<y>> \in Seq(S)
      BY ONLY TRUE
    <3>2. <<x>> \in Seq(Seq(C)) /\ Cat(ts, u) \in Seq(Seq(C))
      BY <2>2, <3>1, CatIs, Zenon
    <3>3. v = Cat(u, <<x>>)
      BY <2>2 DEF Cat
    <3> QED
      BY <3>2, <3>3
  <2>5. v = Append(u, x) /\ Cat(ts, v) = Append(tu, x)
    <3>1. \A s \in Seq(Seq(C)) : Append(s, x) = Cat(s, one)
      <4>1. \A S : \A s \in Seq(S) : \A y \in S : Append(s, y) = Cat(s, <<y>>)
        BY CatIs
      <4> QED
        BY ONLY <2>2, <2>4, <4>1, Zenon
    <3>2. Append(u, x) = Cat(u, one) /\ Append(tu, x) = Cat(tu, one)
      BY <2>2, <3>1
    <3>3. Cat(ts, Cat(u, one)) = Cat(tu, one)
      <4>1. u \in Seq(Seq(C)) /\ tu = Cat(ts, u)
        BY <2>2, <2>4
      <4>2. \A r, s, t \in Seq(Seq(C)) : Cat(Cat(r, s), t) = Cat(r, Cat(s, t))
        BY ONLY CatIs
      <4> QED
        BY ONLY <4>1, <4>2, ts \in Seq(Seq(C)), one \in Seq(Seq(C))
    <3> QED
      BY <2>4, <3>2, <3>3, Zenon
  <2>6. PICK p, q : /\ p = FlattenSeq(ts) /\ q = FlattenSeq(u)
                    /\ p \in Seq(C) /\ q \in Seq(C)
    BY <2>2, FlattenInSeq
  <2>7. /\ FlattenSeq(Append(u, x)) = Cat(q, x)
        /\ FlattenSeq(Append(tu, x)) = Cat(FlattenSeq(tu), x)
    <3>1. FlattenSeq(Append(u, x)) = FlattenSeq(u) \o x
      BY ONLY <2>2, FlattenAppend
    <3>2. FlattenSeq(Append(tu, x)) = FlattenSeq(tu) \o x
      BY ONLY <2>2, tu \in Seq(Seq(C)), FlattenAppend
    <3> QED
      BY ONLY <2>6, <3>1, <3>2, Zenon DEF Cat
  <2>8. Cat(Cat(p, q), x) = Cat(p, Cat(q, x))
    BY ONLY <2>2, <2>6, CatIs
  <2>9. FlattenSeq(Cat(ts, v)) = Cat(FlattenSeq(ts), FlattenSeq(v))
    BY ONLY <2>3, <2>4, <2>5, <2>6, <2>7, <2>8
  <2>10. FlattenSeq(ts \o v) = FlattenSeq(ts) \o FlattenSeq(v)
    BY ONLY <2>9, Zenon DEF Cat
  <2> QED
    BY <2>1, <2>10 DEF Good
<1>4. T = 0 .. Len(us)
  <2>1. T \in SUBSET (0 .. Len(us)) /\ 0 \in T
    BY <1>1, <1>2
  <2>2. \A k \in T : k < Len(us) => k + 1 \in T
    <3> HIDE DEF Good
    <3> QED
      BY <1>1, <1>3
  <2> HIDE DEF T
  <2> QED
    BY <1>1, <2>1, <2>2, UpTo
<1>5. Good(Len(us))
  <2> HIDE DEF Good
  <2> QED
    BY <1>1, <1>4
<1>6. SubSeq(us, 1, Len(us)) = us
  BY SubSeqFull
<1> QED
  BY <1>5, <1>6

-----------------------------------------------------------------------------
(***************************************************************************)
(* Texts written character by character.                                   *)
(***************************************************************************)
\* A sequence that has two others one after the other.
LEMMA Joined ==
    ASSUME NEW B, NEW p \in Seq(B), NEW q \in Seq(B), NEW r \in Seq(B),
           Len(r) = Len(p) + Len(q),
           \A i \in 1 .. Len(p) : r[i] = p[i],
           \A i \in 1 .. Len(q) : r[Len(p) + i] = q[i]
    PROVE  r = p \o q
<1>1. /\ p \o q \in Seq(B) /\ Len(p \o q) = Len(p) + Len(q)
      /\ \A i \in 1 .. Len(p) + Len(q) :
            (p \o q)[i] = IF i <= Len(p) THEN p[i] ELSE q[i - Len(p)]
  BY ConcatProperties
<1>2. PICK m \in Nat, n \in Nat : m = Len(p) /\ n = Len(q)
  OBVIOUS
<1>3. ASSUME NEW i \in 1 .. m + n PROVE r[i] = (p \o q)[i]
  <2>1. CASE i <= m
    BY <1>1, <1>2, <2>1
  <2>2. CASE ~(i <= m)
    <3>0. i - m \in 1 .. n /\ m + (i - m) = i
      BY <1>2, <2>2
    <3>1. PICK j \in 1 .. n : i = m + j /\ i - m = j
      BY <3>0
    <3>2. r[i] = q[j]
      BY <1>2, <3>1
    <3>3. (p \o q)[i] = q[i - m]
      BY <1>1, <1>2, <2>2
    <3> QED
      BY <3>1, <3>2, <3>3
  <2> QED
    BY <2>1, <2>2
<1> QED
  BY <1>1, <1>2, <1>3, SeqEqual

\* A text of texts of one character each.
LEMMA FlattenSingle ==
    ASSUME NEW A, NEW s \in Seq(A), NEW ps \in Seq(Seq(A)),
           Len(ps) = Len(s), \A i \in 1 .. Len(s) : ps[i] = <<s[i]>>
    PROVE  FlattenSeq(ps) = s
<1> DEFINE Good(n) == FlattenSeq(SubSeq(ps, 1, n)) = SubSeq(s, 1, n)
           T == {n \in 0 .. Len(s) : Good(n)}
<1>1. Len(s) \in Nat
  OBVIOUS
<1>2. Good(0)
  <2>1. SubSeq(s, 1, 0) = <<>> /\ SubSeq(ps, 1, 0) = <<>>
    BY SubSeqEmpty
  <2> QED
    BY <2>1, FlattenEmpty
<1>3. ASSUME NEW k \in Nat, k < Len(s), Good(k) PROVE Good(k + 1)
  <2>1. PICK u, v, w, x :
            /\ u = SubSeq(s, 1, k) /\ v = SubSeq(s, 1, k + 1)
            /\ w = FlattenSeq(SubSeq(ps, 1, k))
            /\ x = FlattenSeq(SubSeq(ps, 1, k + 1))
    OBVIOUS
  <2>2. v = u \o <<s[k + 1]>>
    BY <1>3, <2>1, OneMore
  <2>3. x = w \o ps[k + 1]
    BY <1>3, <2>1, FlattenPrefix
  <2>4. ps[k + 1] = <<s[k + 1]>>
    <3>1. k + 1 \in 1 .. Len(s)
      BY <1>1, <1>3
    <3> QED
      BY <3>1
  <2>5. w = u
    BY <1>3, <2>1
  <2> HIDE DEF Good, T
  <2> QED
    BY <2>1, <2>2, <2>3, <2>4, <2>5 DEF Good
<1>4. T = 0 .. Len(s)
  <2>1. T \in SUBSET (0 .. Len(s)) /\ 0 \in T
    BY <1>1, <1>2
  <2>2. \A k \in T : k < Len(s) => k + 1 \in T
    <3> HIDE DEF Good
    <3> QED
      BY <1>1, <1>3
  <2> HIDE DEF T
  <2> QED
    BY <1>1, <2>1, <2>2, UpTo
<1>5. Good(Len(s))
  <2> HIDE DEF Good
  <2> QED
    BY <1>1, <1>4
<1>6. SubSeq(s, 1, Len(s)) = s
  BY SubSeqFull
<1>7. SubSeq(ps, 1, Len(s)) = ps
  BY SubSeqFull
<1> QED
  BY <1>5, <1>6, <1>7

-----------------------------------------------------------------------------
(***************************************************************************)
(* JSON texts.                                                             *)
(***************************************************************************)
\* The characters of a JSON text: those dump writes, and some it never does.
Written == Characters \cup {"t", "r", "b", "0", "1"}
Line == Seq(Written)

\* What WithoutLayout and EscapedText make of each character.
Shown(s) == [i \in 1 .. Len(s) |-> IF s[i] \in Layout THEN <<>> ELSE <<s[i]>>]
Escapes(s) == [i \in 1 .. Len(s) |-> Escape(s[i])]

\* Texts of none, one or two characters.
LEMMA WrittenSingly ==
    /\ \A c \in Written : <<c>> \in Line
    /\ \A c \in Written : <<c, c>> \in Line
    /\ \A b, c \in Written : <<b, c>> \in Line
    /\ <<>> \in Line
<1>1. /\ \A S, x : x \in S => <<x>> \in Seq(S) /\ <<x, x>> \in Seq(S)
      /\ \A S, x, y : x \in S /\ y \in S => <<x, y>> \in Seq(S)
      /\ \A S : <<>> \in Seq(S)
  BY ONLY TRUE
<1> QED
  BY <1>1, Zenon DEF Line

\* What escapes are written with.
LEMMA WrittenHas ==
    /\ "quote" \in Written /\ "backslash" \in Written /\ "n" \in Written
    /\ "u" \in Written /\ "f" \in Written /\ "t" \in Written
    /\ "r" \in Written /\ "b" \in Written /\ "0" \in Written
    /\ "1" \in Written
    /\ {"quote", "backslash", "n", "t", "r", "b", "f", "0", "1"} \subseteq Written
<1>1. {"quote", "backslash", "n", "u", "f"} \subseteq Characters
  BY CharactersAssumption, Zenon
<1>2. {"quote", "backslash", "n", "u", "f"} \subseteq Written
  BY <1>1, Zenon DEF Written
<1>3. {"t", "r", "b", "0", "1"} \subseteq Written
  BY Zenon DEF Written
<1> QED
  BY ONLY <1>2, <1>3

\* How characters are escaped.
LEMMA EscapeIs ==
    /\ Escape("lf") = <<"backslash", "n">>
    /\ \A c \in {"quote", "backslash"} : Escape(c) = <<"backslash", c>>
    /\ \A c \in DOMAIN ShortEscape :
          \E x \in Written : Escape(c) = <<"backslash", x>>
    /\ \A c \in DOMAIN OtherControl :
          \E x, y \in Written :
              Escape(c) = <<"backslash", "u", "0", "0">> \o <<x, y>>
    /\ \A c : c \notin MustEscape => Escape(c) = <<c>>
<1>1. /\ DOMAIN ShortEscape =
             {"quote", "backslash", "lf", "tab", "cr", "bs", "ff"}
      /\ ShortEscape["quote"] = "quote" /\ ShortEscape["lf"] = "n"
      /\ ShortEscape["backslash"] = "backslash"
      /\ \A c \in DOMAIN ShortEscape : ShortEscape[c] \in
             {"quote", "backslash", "n", "t", "r", "b", "f"}
  BY DEF ShortEscape
<1>2. /\ DOMAIN OtherControl = {"nul", "esc"}
      /\ \A c \in DOMAIN OtherControl :
            OtherControl[c] \in {<<"0", "0">>, <<"1", "b">>}
  BY DEF OtherControl
<1>3. {"quote", "backslash", "n", "t", "r", "b", "f", "0", "1"} \subseteq Written
  BY WrittenHas, Zenon
<1>4. ASSUME NEW c \in DOMAIN ShortEscape
      PROVE  Escape(c) = <<"backslash", ShortEscape[c]>>
  <2>1. c \notin DOMAIN OtherControl
    BY <1>1, <1>2
  <2> QED
    BY <2>1, Zenon DEF Escape
<1>5. ASSUME NEW c \in DOMAIN OtherControl
      PROVE  Escape(c) = <<"backslash", "u", "0", "0">> \o OtherControl[c]
  <2>1. c \notin DOMAIN ShortEscape
    BY <1>1, <1>2
  <2> QED
    BY <2>1, Zenon DEF Escape
<1>6. \A c : c \notin MustEscape => Escape(c) = <<c>>
  BY Zenon DEF Escape, MustEscape
<1>7. \A c \in DOMAIN OtherControl :
          \E x, y \in Written : OtherControl[c] = <<x, y>>
  BY <1>2, <1>3
<1>8. \A c \in {"lf", "quote", "backslash"} :
          c \in DOMAIN ShortEscape /\ Escape(c) = <<"backslash", ShortEscape[c]>>
  BY <1>1, <1>4, Zenon
<1>9. /\ Escape("lf") = <<"backslash", "n">>
      /\ Escape("quote") = <<"backslash", "quote">>
      /\ Escape("backslash") = <<"backslash", "backslash">>
  BY <1>1, <1>8, Zenon
<1>10. \A c \in DOMAIN ShortEscape : ShortEscape[c] \in Written
  BY <1>1, <1>3
<1>11. ASSUME NEW c \in DOMAIN ShortEscape
       PROVE  \E x \in Written : Escape(c) = <<"backslash", x>>
  BY <1>4, <1>10, <1>11, Zenon
<1>12. ASSUME NEW c \in DOMAIN OtherControl
       PROVE  \E x, y \in Written :
                  Escape(c) = <<"backslash", "u", "0", "0">> \o <<x, y>>
  <2>1. PICK x \in Written, y \in Written : OtherControl[c] = <<x, y>>
    BY <1>7, <1>12, Zenon
  <2>2. Escape(c) = <<"backslash", "u", "0", "0">> \o <<x, y>>
    BY <1>5, <1>12, <2>1, Zenon
  <2> QED
    BY <2>2
<1> QED
  BY <1>6, <1>9, <1>11, <1>12, Zenon

\* An escape is text.
LEMMA EscapeInLine ==
    ASSUME NEW c \in Written
    PROVE  Escape(c) \in Line
<1>1. "backslash" \in Written /\ "u" \in Written /\ "0" \in Written
  BY WrittenHas, Zenon
<1>2. CASE c \in DOMAIN ShortEscape
  BY <1>1, <1>2, EscapeIs, WrittenSingly
<1>3. CASE c \in DOMAIN OtherControl
  <2>1. PICK x \in Written, y \in Written :
            Escape(c) = <<"backslash", "u", "0", "0">> \o <<x, y>>
    BY <1>3, EscapeIs
  <2>2. \A S, a, b, d, e : a \in S /\ b \in S /\ d \in S /\ e \in S =>
            <<a, b, d, e>> \in Seq(S)
    BY ONLY TRUE
  <2>3. PICK s \in Line, t \in Line :
            s = <<"backslash", "u", "0", "0">> /\ t = <<x, y>>
    BY <1>1, <2>2, WrittenSingly, Zenon DEF Line
  <2>4. s \o t \in Line
    BY ConcatProperties DEF Line
  <2> QED
    BY <2>1, <2>3, <2>4
<1>4. CASE c \notin MustEscape
  BY <1>4, EscapeIs, WrittenSingly
<1> QED
  BY <1>2, <1>3, <1>4 DEF MustEscape

\* What is shown of each character, and how each is escaped.
LEMMA PiecesOf ==
    ASSUME NEW s \in Line
    PROVE  /\ Shown(s) \in Seq(Line) /\ Len(Shown(s)) = Len(s)
           /\ Escapes(s) \in Seq(Line) /\ Len(Escapes(s)) = Len(s)
<1>1. Len(s) \in Nat /\ \A i \in 1 .. Len(s) : s[i] \in Written
  BY ElementOfSeq DEF Line
<1>2. \A i \in 1 .. Len(s) :
          /\ (IF s[i] \in Layout THEN <<>> ELSE <<s[i]>>) \in Line
          /\ Escape(s[i]) \in Line
  BY <1>1, WrittenSingly, EscapeInLine
<1>3. Shown(s) \in Seq(Line)
  BY <1>1, <1>2, IsASeq DEF Shown
<1>4. Escapes(s) \in Seq(Line)
  <2> DEFINE e(i) == Escape(s[i])
  <2>1. \A i \in 1 .. Len(s) : e(i) \in Line
    BY <1>2
  <2>2. Escapes(s) = [i \in 1 .. Len(s) |-> e(i)]
    BY DEF Escapes
  <2> HIDE DEF e
  <2>3. [i \in 1 .. Len(s) |-> e(i)] \in Seq(Line)
    BY <1>1, <2>1, IsASeq
  <2> QED
    BY <2>2, <2>3
<1> QED
  BY <1>1, <1>3, <1>4 DEF Shown, Escapes

\* Layout of texts one after the other.
LEMMA WithoutLayoutConcat ==
    ASSUME NEW s \in Line, NEW t \in Line
    PROVE  /\ WithoutLayout(s) \in Line /\ s \o t \in Line
           /\ WithoutLayout(s \o t) = WithoutLayout(s) \o WithoutLayout(t)
<1>1. /\ s \o t \in Line /\ Len(s \o t) = Len(s) + Len(t)
      /\ \A i \in 1 .. Len(s) + Len(t) :
            (s \o t)[i] = IF i <= Len(s) THEN s[i] ELSE t[i - Len(s)]
  BY ConcatProperties DEF Line
<1>2. PICK u, p, q, r : /\ u = s \o t
                        /\ p = Shown(s) /\ q = Shown(t) /\ r = Shown(u)
  OBVIOUS
<1>3. PICK m \in Nat, n \in Nat : m = Len(s) /\ n = Len(t)
  BY DEF Line
<1>4. /\ p \in Seq(Line) /\ q \in Seq(Line) /\ r \in Seq(Line)
      /\ Len(p) = m /\ Len(q) = n /\ Len(r) = m + n
  BY <1>1, <1>2, <1>3, PiecesOf
<1>5. \A i \in 1 .. m : r[i] = p[i]
  <2> SUFFICES ASSUME NEW i \in 1 .. m PROVE r[i] = p[i]
    OBVIOUS
  <2>1. i \in 1 .. m + n /\ u[i] = s[i]
    BY <1>1, <1>2, <1>3
  <2> QED
    BY <1>1, <1>2, <1>3, <2>1 DEF Shown
<1>6. \A i \in 1 .. n : r[m + i] = q[i]
  <2> SUFFICES ASSUME NEW i \in 1 .. n PROVE r[m + i] = q[i]
    OBVIOUS
  <2>1. PICK j \in 1 .. m + n : j = m + i /\ ~(j <= m) /\ j - m = i
    BY <1>3
  <2>2. u[j] = t[i]
    BY <1>1, <1>2, <1>3, <2>1
  <2> QED
    BY <1>1, <1>2, <1>3, <2>1, <2>2 DEF Shown
<1>7. r = p \o q
  <2>1. Len(r) = Len(p) + Len(q)
    BY <1>4
  <2>2. \A i \in 1 .. Len(p) : r[i] = p[i]
    BY <1>4, <1>5
  <2>3. \A i \in 1 .. Len(q) : r[Len(p) + i] = q[i]
    BY <1>4, <1>6
  <2> QED
    BY ONLY <1>4, <2>1, <2>2, <2>3, Joined
<1>8. FlattenSeq(r) = FlattenSeq(p) \o FlattenSeq(q) /\ FlattenSeq(p) \in Line
  BY <1>4, <1>7, FlattenConcat, FlattenInSeq DEF Line
<1> QED
  BY <1>1, <1>2, <1>8 DEF WithoutLayout, Shown

\* And what is escaped in them.
LEMMA EscapedTextConcat ==
    ASSUME NEW s \in Line, NEW t \in Line
    PROVE  /\ EscapedText(s) \in Line /\ s \o t \in Line
           /\ EscapedText(s \o t) = EscapedText(s) \o EscapedText(t)
<1>1. /\ s \o t \in Line /\ Len(s \o t) = Len(s) + Len(t)
      /\ \A i \in 1 .. Len(s) + Len(t) :
            (s \o t)[i] = IF i <= Len(s) THEN s[i] ELSE t[i - Len(s)]
  BY ConcatProperties DEF Line
<1>2. PICK u, p, q, r : /\ u = s \o t
                        /\ p = Escapes(s) /\ q = Escapes(t) /\ r = Escapes(u)
  OBVIOUS
<1>3. PICK m \in Nat, n \in Nat : m = Len(s) /\ n = Len(t)
  BY DEF Line
<1>4. /\ p \in Seq(Line) /\ q \in Seq(Line) /\ r \in Seq(Line)
      /\ Len(p) = m /\ Len(q) = n /\ Len(r) = m + n
  BY <1>1, <1>2, <1>3, PiecesOf
<1>5. \A i \in 1 .. m : r[i] = p[i]
  <2> SUFFICES ASSUME NEW i \in 1 .. m PROVE r[i] = p[i]
    OBVIOUS
  <2>1. i \in 1 .. m + n /\ u[i] = s[i]
    BY <1>1, <1>2, <1>3
  <2> QED
    BY <1>1, <1>2, <1>3, <2>1 DEF Escapes
<1>6. \A i \in 1 .. n : r[m + i] = q[i]
  <2> SUFFICES ASSUME NEW i \in 1 .. n PROVE r[m + i] = q[i]
    OBVIOUS
  <2>1. PICK j \in 1 .. m + n : j = m + i /\ ~(j <= m) /\ j - m = i
    BY <1>3
  <2>2. u[j] = t[i]
    BY <1>1, <1>2, <1>3, <2>1
  <2> QED
    BY <1>1, <1>2, <1>3, <2>1, <2>2 DEF Escapes
<1>7. r = p \o q
  <2>1. Len(r) = Len(p) + Len(q)
    BY <1>4
  <2>2. \A i \in 1 .. Len(p) : r[i] = p[i]
    BY <1>4, <1>5
  <2>3. \A i \in 1 .. Len(q) : r[Len(p) + i] = q[i]
    BY <1>4, <1>6
  <2> QED
    BY ONLY <1>4, <2>1, <2>2, <2>3, Joined
<1>8. FlattenSeq(r) = FlattenSeq(p) \o FlattenSeq(q) /\ FlattenSeq(p) \in Line
  BY <1>4, <1>7, FlattenConcat, FlattenInSeq DEF Line
<1> QED
  BY <1>1, <1>2, <1>8 DEF EscapedText, Escapes

\* Nothing shows nothing.
LEMMA NothingWritten == WithoutLayout(<<>>) = <<>> /\ EscapedText(<<>>) = <<>>
<1>1. Shown(<<>>) = <<>> /\ Escapes(<<>>) = <<>>
  BY DEF Shown, Escapes
<1> QED
  BY <1>1, FlattenEmpty DEF WithoutLayout, EscapedText, Shown, Escapes

\* A text without layout stays as it is.
LEMMA WithoutLayoutSame ==
    ASSUME NEW s \in Line, ToSet(s) \cap Layout = {}
    PROVE  WithoutLayout(s) = s
<1>1. \A i \in 1 .. Len(s) : s[i] \notin Layout
  <2>1. DOMAIN s = 1 .. Len(s)
    BY DEF Line
  <2> QED
    BY <2>1 DEF ToSet
<1>2. PICK ps : ps = Shown(s)
  OBVIOUS
<1>3. ps \in Seq(Line) /\ Len(ps) = Len(s)
  BY <1>2, PiecesOf
<1>4. \A i \in 1 .. Len(s) : ps[i] = <<s[i]>>
  BY <1>1, <1>2 DEF Shown
<1>5. FlattenSeq(ps) = s
  BY ONLY <1>3, <1>4, s \in Line, FlattenSingle DEF Line
<1> QED
  BY <1>2, <1>5 DEF WithoutLayout, Shown

\* Nor is a text changed that has nothing to escape.
LEMMA EscapedTextSame ==
    ASSUME NEW s \in Line, ToSet(s) \cap MustEscape = {}
    PROVE  EscapedText(s) = s
<1>1. \A i \in 1 .. Len(s) : s[i] \notin MustEscape
  <2>1. DOMAIN s = 1 .. Len(s)
    BY DEF Line
  <2> QED
    BY <2>1 DEF ToSet
<1>2. PICK ps : ps = Escapes(s)
  OBVIOUS
<1>3. ps \in Seq(Line) /\ Len(ps) = Len(s)
  BY <1>2, PiecesOf
<1>4. \A i \in 1 .. Len(s) : ps[i] = <<s[i]>>
  BY <1>1, <1>2, EscapeIs DEF Escapes
<1>5. FlattenSeq(ps) = s
  BY ONLY <1>3, <1>4, s \in Line, FlattenSingle DEF Line
<1> QED
  BY <1>2, <1>5 DEF EscapedText, Escapes

\* A character.
LEMMA OneWritten ==
    ASSUME NEW c \in Written
    PROVE  /\ c \notin Layout => WithoutLayout(<<c>>) = <<c>>
           /\ c \in Layout => WithoutLayout(<<c>>) = <<>>
           /\ EscapedText(<<c>>) = Escape(c)
<1>1. <<c>> \in Line /\ <<>> \in Line
  BY WrittenSingly
<1>2. /\ Shown(<<c>>) = <<IF c \in Layout THEN <<>> ELSE <<c>>>>
      /\ Escapes(<<c>>) = <<Escape(c)>>
  BY DEF Shown, Escapes
<1>3. PICK x \in Line : x = IF c \in Layout THEN <<>> ELSE <<c>>
  BY <1>1
<1>4. FlattenSeq(<<x>>) = x
  BY FlattenOne DEF Line
<1>5. PICK y \in Line : y = Escape(c)
  BY EscapeInLine
<1>6. FlattenSeq(<<y>>) = y
  BY FlattenOne DEF Line
<1> QED
  BY <1>2, <1>3, <1>4, <1>5, <1>6 DEF WithoutLayout, EscapedText, Shown, Escapes

\* Pieces that are all layout.
LEMMA OnlyLayout ==
    ASSUME NEW ps \in Seq(Line),
           \A i \in 1 .. Len(ps) : WithoutLayout(ps[i]) = <<>>
    PROVE  WithoutLayout(FlattenSeq(ps)) = <<>>
<1> DEFINE Good(n) == WithoutLayout(FlattenSeq(SubSeq(ps, 1, n))) = <<>>
           T == {n \in 0 .. Len(ps) : Good(n)}
<1>1. Len(ps) \in Nat
  OBVIOUS
<1>2. Good(0)
  <2>1. SubSeq(ps, 1, 0) = <<>>
    BY SubSeqEmpty
  <2> QED
    BY <2>1, FlattenEmpty, NothingWritten
<1>3. ASSUME NEW k \in Nat, k < Len(ps), Good(k) PROVE Good(k + 1)
  <2>1. PICK u, v, a : /\ u = FlattenSeq(SubSeq(ps, 1, k))
                       /\ v = FlattenSeq(SubSeq(ps, 1, k + 1))
                       /\ a = ps[k + 1]
    OBVIOUS
  <2>2. u \in Line /\ v = u \o a
    BY <1>3, <2>1, FlattenPrefix DEF Line
  <2>3. WithoutLayout(u) = <<>> /\ WithoutLayout(a) = <<>> /\ a \in Line
    <3>1. k + 1 \in 1 .. Len(ps)
      BY <1>1, <1>3
    <3> QED
      BY <1>3, <2>1, <3>1, ElementOfSeq
  <2> HIDE DEF Good, T
  <2>4. WithoutLayout(u \o a) = <<>> \o <<>>
    BY <2>2, <2>3, WithoutLayoutConcat
  <2>5. <<>> \o <<>> = <<>>
    BY WrittenSingly, ConcatEmptySeq DEF Line
  <2> QED
    BY <2>1, <2>2, <2>4, <2>5 DEF Good
<1>4. T = 0 .. Len(ps)
  <2>1. T \in SUBSET (0 .. Len(ps)) /\ 0 \in T
    BY <1>1, <1>2
  <2>2. \A k \in T : k < Len(ps) => k + 1 \in T
    <3> HIDE DEF Good
    <3> QED
      BY <1>1, <1>3
  <2> HIDE DEF T
  <2> QED
    BY <1>1, <2>1, <2>2, UpTo
<1>5. Good(Len(ps))
  <2> HIDE DEF Good
  <2> QED
    BY <1>1, <1>4
<1>6. SubSeq(ps, 1, Len(ps)) = ps
  BY SubSeqFull
<1> QED
  BY <1>5, <1>6

-----------------------------------------------------------------------------
(***************************************************************************)
(* Functions of a value that are defined by those of the values in it.     *)
(***************************************************************************)
\* What is in a node is a node.
LEMMA NodesInAreNodes ==
    ASSUME NEW v \in Nodes
    PROVE  NodesIn(v) \subseteq Nodes
<1>1. CASE v.type \in Containers
  <2> SUFFICES ASSUME NEW i \in 0 .. get_length(v) - 1
               PROVE  Child(v, i) \in Nodes
    BY <1>1 DEF NodesIn
  <2>1. get_length(v) \in Nat
    BY <1>1, LengthIsNat
  <2>2. i \in Nat /\ i < get_length(v)
    BY <2>1
  <2> QED
    BY <1>1, <2>2, ChildrenAreNodes
<1> QED
  BY <1>1 DEF NodesIn

\* What F makes of a function, at a node, it makes of the nodes in that one.
Local(F, U) ==
    /\ F \in [[Nodes -> U] -> [Nodes -> U]]
    /\ \A f, g \in [Nodes -> U] : \A v \in Nodes :
          (\A c \in NodesIn(v) : f[c] = g[c]) => F[f][v] = F[g][v]

\* F does not change f on what is nested less than n deep.
Fixed(F, f, n) == \A v \in Nodes : Height[v] < n => F[f][v] = f[v]

\* Two fixed points agree on the nodes both are fixed for.
LEMMA FixedSame ==
    ASSUME NEW F, NEW U, Local(F, U), NEW f \in [Nodes -> U],
           NEW g \in [Nodes -> U], NEW m \in Nat, NEW n \in Nat,
           Fixed(F, f, m), Fixed(F, g, n),
           NEW v \in Nodes, Height[v] < m, Height[v] < n
    PROVE  f[v] = g[v]
<1> DEFINE T == {h \in Nat : \E w \in Nodes : /\ Height[w] = h /\ h < m /\ h < n
                                              /\ f[w] # g[w]}
<1>1. Height \in [Nodes -> Nat]
  BY HeightAssumption
<1> SUFFICES ASSUME T # {} PROVE FALSE
  BY <1>1
<1>2. PICK h \in T : \A j \in T : h <= j
  <2>1. T \in SUBSET Nat
    OBVIOUS
  <2> HIDE DEF T
  <2> QED
    BY <2>1, LeastNatural
<1>3. PICK w \in Nodes : Height[w] = h /\ h < m /\ h < n /\ f[w] # g[w]
  OBVIOUS
<1>4. ASSUME NEW c \in NodesIn(w) PROVE f[c] = g[c]
  <2>1. c \in Nodes /\ Height[c] < Height[w]
    BY NodesInAreNodes, HeightAssumption
  <2>2. Height[c] \in Nat /\ ~(h <= Height[c]) /\ h \in Nat
    BY <1>1, <1>3, <2>1
  <2>3. Height[c] \notin T
    <3> HIDE DEF T
    <3> QED
      BY <1>2, <2>2
  <2> QED
    BY <1>3, <2>1, <2>2, <2>3
<1>5. F[f][w] = F[g][w]
  BY <1>4 DEF Local
<1>6. F[f][w] = f[w] /\ F[g][w] = g[w]
  BY <1>3 DEF Fixed
<1> QED
  BY <1>3, <1>5, <1>6

\* There is one for the nodes of every height.
LEMMA FixedUpTo ==
    ASSUME NEW F, NEW U, Local(F, U), U # {}, NEW n \in Nat
    PROVE  \E f \in [Nodes -> U] : Fixed(F, f, n)
<1> DEFINE Good(k) == \E f \in [Nodes -> U] : Fixed(F, f, k)
           T == {k \in 0 .. n : Good(k)}
<1>1. Height \in [Nodes -> Nat]
  BY HeightAssumption
<1>2. Good(0)
  <2>1. PICK u \in U : TRUE
    OBVIOUS
  <2>2. [v \in Nodes |-> u] \in [Nodes -> U]
    OBVIOUS
  <2>3. \A v \in Nodes : ~(Height[v] < 0)
    BY <1>1
  <2> QED
    BY <2>2, <2>3 DEF Fixed
<1>3. ASSUME NEW k \in Nat, k < n, Good(k) PROVE Good(k + 1)
  <2>1. PICK f \in [Nodes -> U] : Fixed(F, f, k)
    BY <1>3
  <2>2. PICK g : g = F[f]
    OBVIOUS
  <2>3. g \in [Nodes -> U]
    BY <2>2 DEF Local
  <2>4. ASSUME NEW v \in Nodes, Height[v] < k + 1
        PROVE  F[g][v] = g[v]
    <3>1. ASSUME NEW c \in NodesIn(v) PROVE g[c] = f[c]
      <4>1. c \in Nodes /\ Height[c] < Height[v]
        BY NodesInAreNodes, HeightAssumption
      <4>2. Height[c] < k
        BY <1>1, <2>4, <4>1
      <4> QED
        BY <2>1, <2>2, <4>1, <4>2 DEF Fixed
    <3>2. F[g][v] = F[f][v]
      BY <2>3, <3>1 DEF Local
    <3> QED
      BY <2>2, <3>2
  <2> QED
    BY <2>3, <2>4 DEF Fixed
<1>4. T = 0 .. n
  <2>1. T \in SUBSET (0 .. n) /\ 0 \in T
    BY <1>2
  <2>2. \A k \in T : k < n => k + 1 \in T
    <3> HIDE DEF Good
    <3> QED
      BY <1>3
  <2> HIDE DEF T
  <2> QED
    BY <2>1, <2>2, UpTo
<1>5. n \in T
  <2> HIDE DEF T
  <2> QED
    BY <1>4
<1> QED
  BY <1>5

\* There is one that F does not change anywhere.
LEMMA FixedOne ==
    ASSUME NEW F, NEW U, Local(F, U), U # {}
    PROVE  \E f \in [Nodes -> U] : F[f] = f
<1>1. Height \in [Nodes -> Nat]
  BY HeightAssumption
<1> DEFINE At0(n) == CHOOSE f \in [Nodes -> U] : Fixed(F, f, n)
<1>2. \A n \in Nat : At0(n) \in [Nodes -> U] /\ Fixed(F, At0(n), n)
  BY FixedUpTo
<1> HIDE DEF At0
<1> DEFINE f == [v \in Nodes |-> At0(Height[v] + 1)[v]]
<1>3. \A v \in Nodes : Height[v] \in Nat /\ Height[v] + 1 \in Nat
  BY <1>1
<1>4. f \in [Nodes -> U]
  <2>1. \A v \in Nodes : At0(Height[v] + 1)[v] \in U
    BY <1>2, <1>3
  <2> QED
    BY <2>1
<1>5. ASSUME NEW v \in Nodes PROVE F[f][v] = f[v]
  <2>1. PICK g \in [Nodes -> U], n \in Nat :
            g = At0(n) /\ Fixed(F, g, n) /\ n = Height[v] + 1
    BY <1>2, <1>3
  <2>2. ASSUME NEW c \in NodesIn(v) PROVE f[c] = g[c]
    <3>1. c \in Nodes /\ Height[c] < Height[v]
      BY NodesInAreNodes, HeightAssumption
    <3>2. PICK h \in [Nodes -> U], m \in Nat :
              h = At0(m) /\ Fixed(F, h, m) /\ m = Height[c] + 1
      BY <1>2, <1>3, <3>1
    <3>3. Height[c] < m /\ Height[c] < n
      BY <1>3, <2>1, <3>1, <3>2
    <3>4. h[c] = g[c]
      BY <2>1, <3>1, <3>2, <3>3, FixedSame
    <3>5. f[c] = h[c]
      BY <3>1, <3>2
    <3> QED
      BY <3>4, <3>5
  <2>3. f[v] = g[v]
    BY <2>1
  <2> HIDE DEF f
  <2>4. F[f][v] = F[g][v]
    BY <1>4, <2>1, <2>2 DEF Local
  <2>5. F[g][v] = g[v]
    <3>1. Height[v] < n
      BY <1>3, <2>1
    <3> QED
      BY <2>1, <3>1 DEF Fixed
  <2> QED
    BY <2>3, <2>4, <2>5
<1>6. F[f] = f
  <2> HIDE DEF f
  <2>1. F[f] \in [Nodes -> U]
    BY <1>4 DEF Local
  <2> QED
    BY <1>4, <1>5, <2>1
<1> HIDE DEF f
<1> QED
  BY <1>4, <1>6

\* Two functions that agree at a node if they do at the nodes in it.
LEMMA SameByParts ==
    ASSUME NEW f, NEW g,
           \A v \in Nodes : (\A c \in NodesIn(v) : f[c] = g[c]) => f[v] = g[v]
    PROVE  \A v \in Nodes : f[v] = g[v]
<1> DEFINE T == {h \in Nat : \E w \in Nodes : Height[w] = h /\ f[w] # g[w]}
<1>1. Height \in [Nodes -> Nat]
  BY HeightAssumption
<1> SUFFICES ASSUME T # {} PROVE FALSE
  BY <1>1
<1>2. PICK h \in T : \A j \in T : h <= j
  <2>1. T \in SUBSET Nat
    OBVIOUS
  <2> HIDE DEF T
  <2> QED
    BY <2>1, LeastNatural
<1>3. PICK w \in Nodes : Height[w] = h /\ f[w] # g[w]
  OBVIOUS
<1>4. ASSUME NEW c \in NodesIn(w) PROVE f[c] = g[c]
  <2>1. c \in Nodes /\ Height[c] < Height[w]
    BY NodesInAreNodes, HeightAssumption
  <2>2. Height[c] \in Nat /\ ~(h <= Height[c]) /\ h \in Nat
    BY <1>1, <1>3, <2>1
  <2>3. Height[c] \notin T
    <3> HIDE DEF T
    <3> QED
      BY <1>2, <2>2
  <2> QED
    BY <2>1, <2>2, <2>3
<1> QED
  BY <1>3, <1>4

-----------------------------------------------------------------------------
(***************************************************************************)
(* The JSON text of every node.                                            *)
(***************************************************************************)
\* What dump writes is of characters that may be written.
LEMMA TextInLine == Text \subseteq Line
<1>1. \A S, T : S \subseteq T => Seq(S) \subseteq Seq(T)
  BY SeqMonotonic
<1> QED
  BY <1>1 DEF Text, Line, Written

\* The laws of concatenation.
LEMMA LineConcat ==
    /\ \A s, t \in Line : s \o t \in Line
    /\ \A r, s, t \in Line : (r \o s) \o t = r \o (s \o t)
    /\ \A s \in Line : <<>> \o s = s /\ s \o <<>> = s
<1>1. \A s, t \in Line : s \o t \in Line
  BY ConcatProperties DEF Line
<1>2. \A r, s, t \in Line : (r \o s) \o t = r \o (s \o t)
  BY ConcatAssociative DEF Line
<1>3. \A s \in Line : <<>> \o s = s /\ s \o <<>> = s
  BY ConcatEmptySeq DEF Line
<1> QED
  BY <1>1, <1>2, <1>3

\* The marks and the words of JSON are text.
LEMMA Marks ==
    /\ Quotes \in Line /\ <<":">> \in Line /\ <<",">> \in Line
    /\ <<"[">> \in Line /\ <<"]">> \in Line
    /\ <<"{">> \in Line /\ <<"}">> \in Line
    /\ <<"space">> \in Line /\ <<"newline">> \in Line
    /\ <<"backslash">> \in Line
    /\ <<"n", "u", "l", "l">> \in Line
    /\ <<"f", "a", "l", "s", "e">> \in Line
    /\ <<"t", "r", "u", "e">> \in Line
<1>1. \A c \in {"[", "]", "{", "}", ",", ":", "newline", "space", "quote",
                "backslash"} : <<c>> \in Line
  BY CharactersAssumption, WrittenSingly DEF Written
<1>2. \A S, a, b, c, e : a \in S /\ b \in S /\ c \in S /\ e \in S =>
          <<a, b, c, e>> \in Seq(S)
  BY ONLY TRUE
<1>3. \A c \in {"t", "r", "u", "e"} : c \in Written
  BY CharactersAssumption DEF Written
<1>4. <<"t", "r", "u", "e">> \in Line
  BY <1>2, <1>3, Zenon DEF Line
<1> QED
  BY <1>1, <1>4, WordsAreText, TextInLine, Zenon DEF Quotes

\* A JSON string is text.
LEMMA JsonStringInLine ==
    ASSUME NEW s \in Line
    PROVE  JsonString(s) \in Line
<1>1. <<"quote">> \in Line
  BY Marks DEF Quotes
<1>2. EscapedText(s) \in Line
  BY EscapedTextConcat
<1> QED
  BY <1>1, <1>2, LineConcat DEF JsonString

\* So is a number, which is written as it is if it is done after six decimals.
LEMMA NumberInLine ==
    ASSUME NEW v \in Nodes, v.type \in {"integer", "double"}
    PROVE  /\ JsonNumber(v) \in Line /\ to_string(v) \in Line
           /\ WrittenRight(v) => JsonNumber(v) = to_string(v)
<1>1. to_string(v) \in Line
  <2>1. to_string(v) \in Text
    BY NodesAssumption DEF IsNode
  <2> QED
    BY <2>1, TextInLine
<1>2. CASE v.type = "integer"
  <2>1. JsonNumber(v) = to_string(v)
    BY <1>2 DEF JsonNumber
  <2> QED
    BY <1>1, <2>1
<1>3. CASE v.type = "double" /\ v.class = "finite"
  <2>1. IsDouble(v)
    BY <1>3, NodesAssumption DEF IsNode
  <2>2. PICK f \in Line, u \in Line : f = FixedPoint(v.millionths) /\ u = v.tail
    BY <1>3, <2>1, TextInLine DEF IsDouble
  <2>3. PICK g \in Line : g = Sign(v.negative)
    <3>1. "-" \in Written
      BY CharactersAssumption DEF Written
    <3> QED
      BY <3>1, WrittenSingly DEF Sign
  <2>4. JsonNumber(v) = g \o f \o u
    BY <1>3, <2>2, <2>3 DEF JsonNumber
  <2>5. g \o f \in Line
    BY LineConcat
  <2>6. JsonNumber(v) \in Line
    <3>1. (g \o f) \o u \in Line
      BY <2>5, LineConcat
    <3> QED
      BY <2>4, <3>1
  <2>7. ASSUME WrittenRight(v) PROVE JsonNumber(v) = to_string(v)
    <3>1. u = <<>>
      BY <1>3, <2>2, <2>7 DEF WrittenRight
    <3>2. (g \o f) \o u = g \o f
      BY <2>5, <3>1, LineConcat
    <3>3. ~RoundsUp(v)
      BY <2>2, <3>1 DEF RoundsUp
    <3>4. v.millionths + 0 = v.millionths
      BY <1>3, <2>1 DEF IsDouble
    <3>5. to_string(v) =
              Sign(v.negative)
                  \o FixedPoint(v.millionths + (IF RoundsUp(v) THEN 1 ELSE 0))
      BY <1>3, Zenon DEF to_string
    <3>6. to_string(v) = g \o f
      BY <2>2, <2>3, <3>3, <3>4, <3>5, Zenon
    <3> QED
      BY <2>4, <3>2, <3>6
  <2> QED
    BY <1>1, <2>6, <2>7
<1>4. CASE v.type = "double" /\ v.class # "finite"
  <2>1. JsonNumber(v) = <<>>
    BY <1>4 DEF JsonNumber
  <2>2. ~WrittenRight(v)
    BY <1>4 DEF WrittenRight
  <2> QED
    BY <1>1, <2>1, <2>2, WrittenSingly
<1> QED
  BY <1>2, <1>3, <1>4

\* What a node is made of.
LEMMA NodeParts ==
    ASSUME NEW v \in Nodes
    PROVE  /\ v.type = "string" => v.text \in Line /\ v.text \in Text
           /\ v.type \in Containers =>
                /\ get_length(v) \in Nat
                /\ \A i \in 1 .. get_length(v) :
                      /\ i - 1 \in 0 .. get_length(v) - 1
                      /\ Child(v, i - 1) \in Nodes
                      /\ Child(v, i - 1) \in NodesIn(v)
           /\ v.type = "object" =>
                \A i \in 1 .. get_length(v) :
                   /\ i \in DOMAIN v.members
                   /\ v.members[i].key \in Text
                   /\ v.members[i].key \in Line
           /\ v.type \notin Containers \cup {"string", "integer", "double"} =>
                v.type \in {"null", "false", "true"}
<1>1. IsNode(v)
  BY NodesAssumption
<1>2. v.type = "string" => v.text \in Line /\ v.text \in Text
  BY <1>1, TextInLine DEF IsNode
<1>4. ASSUME v.type \in Containers
      PROVE  /\ get_length(v) \in Nat
             /\ \A i \in 1 .. get_length(v) :
                   /\ i - 1 \in 0 .. get_length(v) - 1
                   /\ Child(v, i - 1) \in Nodes
                   /\ Child(v, i - 1) \in NodesIn(v)
  <2>1. get_length(v) \in Nat
    BY <1>4, LengthIsNat
  <2>2. ASSUME NEW i \in 1 .. get_length(v)
        PROVE  /\ i - 1 \in 0 .. get_length(v) - 1
               /\ Child(v, i - 1) \in Nodes
               /\ Child(v, i - 1) \in NodesIn(v)
    <3>1. PICK k \in 0 .. get_length(v) - 1 : k = i - 1
      BY <2>1
    <3>2. k \in Nat /\ k < get_length(v)
      BY <2>1
    <3>3. Child(v, k) \in Nodes
      BY <1>4, <3>2, ChildrenAreNodes
    <3>4. Child(v, k) \in NodesIn(v)
      BY <1>4 DEF NodesIn
    <3> QED
      BY <3>1, <3>3, <3>4
  <2> QED
    BY <2>1, <2>2
<1>5. ASSUME v.type = "object", NEW i \in 1 .. get_length(v)
      PROVE  /\ i \in DOMAIN v.members
             /\ v.members[i].key \in Text
             /\ v.members[i].key \in Line
  <2>1. /\ v.members \in Seq([key : Text, value : Nodes])
        /\ get_length(v) = Len(v.members)
    BY <1>1, <1>5 DEF IsNode, get_length, Children
  <2>2. i \in DOMAIN v.members /\ v.members[i] \in [key : Text, value : Nodes]
    <3>1. v.members[i] \in [key : Text, value : Nodes]
      BY <1>5, <2>1, ElementOfSeq
    <3>2. DOMAIN v.members = 1 .. Len(v.members)
      BY <2>1, LenProperties
    <3> QED
      BY <1>5, <2>1, <3>1, <3>2
  <2> QED
    BY <2>2, TextInLine
<1>6. v.type \notin Containers \cup {"string", "integer", "double"} =>
          v.type \in {"null", "false", "true"}
  BY <1>1 DEF IsNode, Containers
<1> QED
  BY <1>2, <1>4, <1>5, <1>6

\* What stands in front of a child and behind it is text.
LEMMA NameInLine ==
    ASSUME NEW v \in Nodes, v.type \in Containers, NEW i \in 1 .. get_length(v)
    PROVE  Name(v, i) \in Line /\ Comma(v, i) \in Line
<1>1. Comma(v, i) \in Line
  BY Marks, WrittenSingly DEF Comma
<1>2. CASE v.type = "array"
  BY <1>1, <1>2, WrittenSingly DEF Name
<1>3. CASE v.type = "object"
  <2>1. PICK s \in Line : s = v.members[i].key
    BY <1>3, NodeParts
  <2>2. JsonString(s) \o <<":">> \in Line
    BY JsonStringInLine, Marks, LineConcat
  <2> QED
    BY <1>1, <1>3, <2>1, <2>2 DEF Name
<1> QED
  BY <1>2, <1>3 DEF Containers

\* The children of a container, as texts.
LEMMA ItemsInLine ==
    ASSUME NEW f \in [Nodes -> Line], NEW v \in Nodes, v.type \in Containers
    PROVE  /\ JsonItems(f, v) \in Seq(Line)
           /\ Len(JsonItems(f, v)) = get_length(v)
           /\ FlattenSeq(JsonItems(f, v)) \in Line
           /\ \A i \in 1 .. get_length(v) :
                 JsonItems(f, v)[i] = JsonItem(f, v, i)
<1>1. get_length(v) \in Nat
  BY NodeParts
<1> DEFINE e(i) == JsonItem(f, v, i)
<1>2. ASSUME NEW i \in 1 .. get_length(v) PROVE e(i) \in Line
  <2>1. Child(v, i - 1) \in Nodes
    BY NodeParts
  <2>2. PICK p \in Line, q \in Line, r \in Line :
            p = Name(v, i) /\ q = f[Child(v, i - 1)] /\ r = Comma(v, i)
    BY <2>1, NameInLine
  <2>3. p \o q \o r \in Line
    BY LineConcat
  <2> QED
    BY <2>2, <2>3 DEF JsonItem
<1>3. JsonItems(f, v) = [i \in 1 .. get_length(v) |-> e(i)]
  BY DEF JsonItems
<1> HIDE DEF e
<1>4. [i \in 1 .. get_length(v) |-> e(i)] \in Seq(Line)
  BY <1>1, <1>2, IsASeq
<1>5. FlattenSeq(JsonItems(f, v)) \in Line
  BY <1>3, <1>4, FlattenInSeq DEF Line
<1> QED
  BY <1>1, <1>3, <1>4, <1>5 DEF e

\* The JSON text of a node is text, if that of every child is.
LEMMA JsonTextInLine ==
    ASSUME NEW f \in [Nodes -> Line], NEW v \in Nodes
    PROVE  JsonText(f, v) \in Line
<1>1. CASE v.type \in Containers
  <2>1. PICK s \in Line : s = FlattenSeq(JsonItems(f, v))
    BY <1>1, ItemsInLine
  <2>2. /\ <<"[">> \o s \o <<"]">> \in Line
        /\ <<"{">> \o s \o <<"}">> \in Line
    BY Marks, LineConcat
  <2>3. JsonText(f, v) = IF v.type = "array" THEN <<"[">> \o s \o <<"]">>
                         ELSE <<"{">> \o s \o <<"}">>
    BY <1>1, <2>1 DEF JsonText, Containers
  <2> QED
    BY <2>2, <2>3
<1>2. CASE v.type = "string"
  <2>1. JsonText(f, v) = JsonString(v.text)
    BY <1>2 DEF JsonText
  <2> QED
    BY <1>2, <2>1, NodeParts, JsonStringInLine
<1>3. CASE v.type \in {"integer", "double"}
  <2>1. JsonText(f, v) = JsonNumber(v)
    BY <1>3 DEF JsonText
  <2> QED
    BY <1>3, <2>1, NumberInLine
<1>4. CASE v.type \in {"null", "false", "true"}
  <2>1. JsonText(f, v) \in {<<"n", "u", "l", "l">>,
            <<"f", "a", "l", "s", "e">>, <<"t", "r", "u", "e">>}
    BY <1>4 DEF JsonText
  <2> QED
    BY <2>1, Marks
<1> QED
  BY <1>1, <1>2, <1>3, <1>4, NodeParts

\* It depends on the texts of the children alone.
LEMMA JsonTextLocal ==
    ASSUME NEW f, NEW g,
           NEW v \in Nodes, \A c \in NodesIn(v) : f[c] = g[c]
    PROVE  JsonText(f, v) = JsonText(g, v)
<1>1. CASE v.type \in Containers
  <2>1. \A i \in 1 .. get_length(v) : f[Child(v, i - 1)] = g[Child(v, i - 1)]
    BY <1>1, NodeParts
  <2>2. JsonItems(f, v) = JsonItems(g, v)
    BY <2>1 DEF JsonItems, JsonItem
  <2> QED
    BY <1>1, <2>2 DEF JsonText, Containers
<1>2. CASE v.type \notin Containers
  BY <1>2, NodeParts DEF JsonText, Containers
<1> QED
  BY <1>1, <1>2

\* Json is what its definition says.
LEMMA JsonIs ==
    /\ Json \in [Nodes -> Line]
    /\ \A v \in Nodes : Json[v] = JsonText(Json, v)
<1> DEFINE F == [f \in [Nodes -> Line] |-> [v \in Nodes |-> JsonText(f, v)]]
<1>1. Local(F, Line)
  <2>1. ASSUME NEW f \in [Nodes -> Line]
        PROVE  F[f] = [v \in Nodes |-> JsonText(f, v)] /\ F[f] \in [Nodes -> Line]
    BY JsonTextInLine
  <2>2. F \in [[Nodes -> Line] -> [Nodes -> Line]]
    BY JsonTextInLine
  <2>3. ASSUME NEW f \in [Nodes -> Line], NEW g \in [Nodes -> Line],
               NEW v \in Nodes, \A c \in NodesIn(v) : f[c] = g[c]
        PROVE  F[f][v] = F[g][v]
    <3>1. F[f][v] = JsonText(f, v) /\ F[g][v] = JsonText(g, v)
      BY <2>1
    <3> QED
      BY <2>3, <3>1, JsonTextLocal
  <2> HIDE DEF F
  <2> QED
    BY <2>2, <2>3 DEF Local
<1>2. \A f \in [Nodes -> Line] : F[f] = [v \in Nodes |-> JsonText(f, v)]
  OBVIOUS
<1> HIDE DEF F
<1>3. Line # {}
  BY WrittenSingly
<1>4. PICK f \in [Nodes -> Line] : F[f] = f
  BY <1>1, <1>3, FixedOne
<1>5. f = [v \in Nodes |-> JsonText(f, v)]
  BY <1>2, <1>4
<1>6. Json = [v \in Nodes |-> JsonText(Json, v)]
  BY <1>5 DEF Json
<1>7. \A v \in Nodes : Json[v] = JsonText(Json, v)
  BY <1>6
<1>8. \A v \in Nodes : Json[v] = f[v]
  <2>1. ASSUME NEW v \in Nodes, \A c \in NodesIn(v) : Json[c] = f[c]
        PROVE  Json[v] = f[v]
    <3>1. JsonText(Json, v) = JsonText(f, v)
      BY <2>1, JsonTextLocal
    <3>2. f[v] = JsonText(f, v)
      BY <1>5
    <3> QED
      BY <1>7, <3>1, <3>2
  <2> QED
    BY <2>1, SameByParts
<1>9. Json \in [Nodes -> Line]
  BY <1>6, <1>8
<1> QED
  BY <1>7, <1>9

\* And so is Faithful.
LEMMA FaithfulIs ==
    \A v \in Nodes :
        Faithful[v] <=> WrittenRight(v) /\ \A c \in NodesIn(v) : Faithful[c]
<1> DEFINE F == [f \in [Nodes -> BOOLEAN] |->
                    [v \in Nodes |->
                        WrittenRight(v) /\ \A c \in NodesIn(v) : f[c]]]
<1>1. Local(F, BOOLEAN)
  <2>1. \A f \in [Nodes -> BOOLEAN] : \A v \in Nodes :
            F[f][v] = (WrittenRight(v) /\ \A c \in NodesIn(v) : f[c])
    OBVIOUS
  <2>2. F \in [[Nodes -> BOOLEAN] -> [Nodes -> BOOLEAN]]
    OBVIOUS
  <2> HIDE DEF F
  <2>3. ASSUME NEW f \in [Nodes -> BOOLEAN], NEW g \in [Nodes -> BOOLEAN],
               NEW v \in Nodes, \A c \in NodesIn(v) : f[c] = g[c]
        PROVE  F[f][v] = F[g][v]
    <3>1. /\ F[f][v] = (WrittenRight(v) /\ \A c \in NodesIn(v) : f[c])
          /\ F[g][v] = (WrittenRight(v) /\ \A c \in NodesIn(v) : g[c])
      BY <2>1
    <3>2. (\A c \in NodesIn(v) : f[c]) = (\A c \in NodesIn(v) : g[c])
      BY <2>3
    <3> QED
      BY <3>1, <3>2
  <2> QED
    BY <2>2, <2>3 DEF Local
<1>2. \A f \in [Nodes -> BOOLEAN] :
          F[f] = [v \in Nodes |-> WrittenRight(v) /\ \A c \in NodesIn(v) : f[c]]
  OBVIOUS
<1> HIDE DEF F
<1>3. PICK f \in [Nodes -> BOOLEAN] : F[f] = f
  BY <1>1, FixedOne
<1>4. f = [v \in Nodes |-> WrittenRight(v) /\ \A c \in NodesIn(v) : f[c]]
  BY <1>2, <1>3
<1>5. Faithful = [v \in Nodes |->
                     WrittenRight(v) /\ \A c \in NodesIn(v) : Faithful[c]]
  BY <1>4 DEF Faithful
<1> QED
  BY <1>5

-----------------------------------------------------------------------------
(***************************************************************************)
(* What has been said so far, as JSON: every frame the beginning of its    *)
(* container, up to the child that is being written.                       *)
(***************************************************************************)
\* What dump was called for, here or in the loop of the innermost container.
Subject == IF frames = <<>> THEN value ELSE Child(top.container, top.index)

\* A container up to a child, and up to the value of a child.
Begun(f) ==
    Opening(f.container)
        \o FlattenSeq(SubSeq(JsonItems(Json, f.container), 1, f.index))
Around(f) == Begun(f) \o Name(f.container, f.index + 1)
Outer(calls) == FlattenSeq([k \in 1 .. Len(calls) |-> Around(calls[k])])

Said ==
    CASE dump_pc = "dump" -> Outer(frames)
      [] dump_pc = "dump_string" ->
             Outer(frames)
                 \o (Quotes \o EscapedText(SubSeq(current.text, 1, pos)))
      [] dump_pc = "loop" -> Outer(Front(frames)) \o Begun(top)
      [] dump_pc = "after" -> Outer(frames) \o Json[Subject]
      [] OTHER -> Json[value]

SaidInv == WithoutLayout(emitted \o FlattenSeq(pieces)) = Said

\* Whose child a call is about.
CallsInv ==
    /\ value \in Nodes /\ Faithful[value]
    /\ dump_pc \in {"dump", "dump_string"} => current = Subject
    /\ dump_pc = "dump_string" => pos <= Len(current.text)
    /\ dump_pc \in {"~FileOut", "written"} => frames = <<>>
    /\ frames # <<>> => frames[1].container = value
    /\ \A k \in DOMAIN frames :
          /\ Faithful[frames[k].container]
          /\ k < Len(frames) \/ dump_pc # "loop" =>
                frames[k].index < get_length(frames[k].container)
          /\ k < Len(frames) =>
                frames[k + 1].container
                    = Child(frames[k].container, frames[k].index)

-----------------------------------------------------------------------------
Calls == [container : Nodes, index : Nat]

\* Calls each of which is at one of its children.
Unfinished(calls) ==
    /\ calls \in Seq(Calls)
    /\ \A k \in 1 .. Len(calls) :
          /\ calls[k].container.type \in Containers
          /\ calls[k].index < get_length(calls[k].container)

\* A container up to one of its children is text.
LEMMA BegunInLine ==
    ASSUME NEW f \in Calls, f.container.type \in Containers,
           f.index <= get_length(f.container)
    PROVE  /\ Begun(f) \in Line
           /\ Opening(f.container) \in Line /\ Closing(f.container) \in Line
           /\ f.index < get_length(f.container) =>
                 /\ Around(f) \in Line
                 /\ Name(f.container, f.index + 1) \in Line
<1>1. f.container \in Nodes /\ f.index \in Nat
  BY DEF Calls
<1>2. PICK v \in Nodes, n \in Nat : v = f.container /\ n = f.index
  BY <1>1
<1>3. PICK ts \in Seq(Line), m \in Nat :
          ts = JsonItems(Json, v) /\ Len(ts) = m /\ m = get_length(v)
  <2>1. v.type \in Containers
    BY <1>2
  <2>2. get_length(v) \in Nat
    BY <2>1, LengthIsNat
  <2>3. /\ JsonItems(Json, v) \in Seq(Line)
        /\ Len(JsonItems(Json, v)) = get_length(v)
    BY <2>1, ItemsInLine, JsonIs
  <2> QED
    BY <2>2, <2>3
<1>4. SubSeq(ts, 1, n) \in Seq(Line)
  <2>1. \A i \in 1 .. n : ts[i] \in Line
    BY <1>2, <1>3, ElementOfSeq
  <2> QED
    BY <2>1, SubSeqProperties
<1>5. FlattenSeq(SubSeq(ts, 1, n)) \in Line
  BY <1>4, FlattenInSeq DEF Line
<1>6. Opening(v) \in Line /\ Closing(v) \in Line
  BY Marks DEF Opening, Closing
<1>7. Begun(f) \in Line
  <2>1. Opening(v) \o FlattenSeq(SubSeq(ts, 1, n)) \in Line
    BY <1>5, <1>6, LineConcat
  <2> QED
    BY <1>2, <1>3, <2>1 DEF Begun
<1>8. ASSUME n < m PROVE Name(v, n + 1) \in Line
  <2>1. n + 1 \in 1 .. get_length(v)
    BY <1>3, <1>8
  <2> QED
    BY <1>2, <2>1, NameInLine
<1>9. ASSUME n < m PROVE Around(f) \in Line
  <2>1. Begun(f) \o Name(v, n + 1) \in Line
    BY <1>7, <1>8, <1>9, LineConcat
  <2> QED
    BY <1>2, <2>1 DEF Around
<1> QED
  BY <1>2, <1>3, <1>6, <1>7, <1>8, <1>9

\* One call more says what is around it.
LEMMA OuterStep ==
    ASSUME NEW calls, Unfinished(calls)
    PROVE  /\ Outer(calls) \in Line
           /\ calls # <<>> =>
                 Outer(calls) = Outer(Front(calls)) \o Around(Last(calls))
<1>1. calls \in Seq(Calls)
  BY DEF Unfinished
<1>2. PICK n \in Nat : n = Len(calls)
  BY <1>1
<1> DEFINE e(k) == Around(calls[k])
<1>3. ASSUME NEW k \in 1 .. n PROVE e(k) \in Line
  <2>1. PICK f \in Calls : f = calls[k]
    BY <1>1, <1>2, ElementOfSeq
  <2>2. /\ f.container.type \in Containers
        /\ f.index < get_length(f.container)
    BY <1>2, <2>1 DEF Unfinished
  <2>3. f.index <= get_length(f.container)
    <3>1. f.index \in Nat /\ get_length(f.container) \in Nat
      BY <2>1, <2>2, LengthIsNat DEF Calls
    <3> QED
      BY <2>2, <3>1
  <2> QED
    BY <2>1, <2>2, <2>3, BegunInLine
<1> HIDE DEF e
<1>4. PICK ts : ts = [k \in 1 .. n |-> e(k)]
  OBVIOUS
<1>5. ts \in Seq(Line) /\ Len(ts) = n
  <2>1. [k \in 1 .. n |-> e(k)] \in Seq(Line)
    BY <1>3, IsASeq
  <2> QED
    BY <1>4, <2>1
<1>6. Outer(calls) = FlattenSeq(ts)
  BY <1>2, <1>4 DEF Outer, e
<1>7. Outer(calls) \in Line
  BY <1>5, <1>6, FlattenInSeq DEF Line
<1>8. ASSUME calls # <<>>
      PROVE  Outer(calls) = Outer(Front(calls)) \o Around(Last(calls))
  <2>1. PICK m \in Nat : n = m + 1 /\ m < n
    <3>1. n # 0
      BY <1>1, <1>2, <1>8, EmptySeq
    <3>2. n - 1 \in Nat /\ n = (n - 1) + 1 /\ n - 1 < n
      BY <3>1
    <3> QED
      BY <3>2
  <2>2. PICK front : front = Front(calls)
    OBVIOUS
  <2>3. /\ front \in Seq(Calls) /\ Len(front) = m
        /\ \A i \in 1 .. m : front[i] = calls[i]
    <3>1. /\ Front(calls) \in Seq(Calls)
          /\ Len(Front(calls)) = Len(calls) - 1
          /\ \A i \in 1 .. Len(Front(calls)) : Front(calls)[i] = calls[i]
      BY ONLY <1>1, <1>8, FrontOfSeq
    <3>2. Len(calls) - 1 = m
      BY <1>2, <2>1
    <3> QED
      BY <2>2, <3>1, <3>2
  <2>4. PICK us : us = SubSeq(ts, 1, m)
    OBVIOUS
  <2>5. us = [k \in 1 .. Len(front) |-> Around(front[k])]
    <3>1. \A k \in 1 .. m : ts[k] = Around(front[k])
      BY <1>4, <2>1, <2>3 DEF e
    <3> QED
      BY <1>5, <2>1, <2>3, <2>4, <3>1
  <2>6. FlattenSeq(SubSeq(ts, 1, m + 1)) = FlattenSeq(us) \o ts[m + 1]
    BY <1>5, <2>1, <2>4, FlattenPrefix DEF Line
  <2>7. SubSeq(ts, 1, m + 1) = ts
    BY <1>5, <2>1, SubSeqFull
  <2>8. ts[m + 1] = Around(Last(calls))
    BY <1>2, <1>4, <2>1 DEF e, Last
  <2>9. FlattenSeq(us) = Outer(front)
    BY <2>5 DEF Outer
  <2> QED
    BY <1>6, <2>2, <2>6, <2>7, <2>8, <2>9
<1> QED
  BY <1>7, <1>8

\* Around the value that is written there is nothing.
LEMMA OuterNone == Outer(<<>>) = <<>>
<1>1. [k \in 1 .. Len(<<>>) |-> Around((<<>>)[k])] = <<>>
  OBVIOUS
<1> QED
  BY <1>1, FlattenEmpty DEF Outer

\* A sequence of which one was appended.
LEMMA FrontAppend ==
    ASSUME NEW S, NEW s \in Seq(S), NEW x \in S
    PROVE  Front(Append(s, x)) = s /\ Last(Append(s, x)) = x
<1>1. PICK t : t = Append(s, x)
  OBVIOUS
<1>2. /\ t \in Seq(S) /\ t # <<>> /\ Len(t) = Len(s) + 1
      /\ \A i \in 1 .. Len(s) : t[i] = s[i]
      /\ t[Len(s) + 1] = x
  BY <1>1, AppendProperties
<1>3. PICK u : u = Front(t)
  OBVIOUS
<1>4. Len(s) \in Nat
  OBVIOUS
<1>5. /\ u \in Seq(S) /\ Len(u) = Len(t) - 1
      /\ \A i \in 1 .. Len(u) : u[i] = t[i]
  BY <1>2, <1>3, FrontOfSeq
<1>6. Len(u) = Len(s) /\ \A i \in 1 .. Len(u) : u[i] = s[i]
  BY <1>2, <1>4, <1>5
<1>7. u = s
  BY <1>5, <1>6, SeqEqual
<1> QED
  BY <1>1, <1>2, <1>3, <1>7 DEF Last

-----------------------------------------------------------------------------
(***************************************************************************)
(* What pieces show.                                                       *)
(***************************************************************************)
\* Sequences of up to four, made by appending.
LEMMA FewMore ==
    /\ \A S, x : x \in S => <<x>> \in Seq(S)
    /\ \A x, y : Append(<<x>>, y) = <<x, y>>
    /\ \A x, y, z : Append(<<x, y>>, z) = <<x, y, z>>
    /\ \A x, y, z, w : Append(<<x, y, z>>, w) = <<x, y, z, w>>
    /\ \A x, y : <<x>> \o <<y>> = <<x, y>>
<1>1. \A S, x : x \in S => <<x>> \in Seq(S)
  BY ONLY TRUE
<1>2. ASSUME NEW x, NEW y
      PROVE  Append(<<x>>, y) = <<x, y>> /\ <<x>> \o <<y>> = <<x, y>>
  <2>1. PICK S : S = {x, y}
    OBVIOUS
  <2>2. <<x>> \in Seq(S) /\ Len(<<x>>) = 1 /\ (<<x>>)[1] = x /\ y \in S
    BY <2>1
  <2>3. <<x, y>> \in Seq(S) /\ Len(<<x, y>>) = 2
        /\ (<<x, y>>)[1] = x /\ (<<x, y>>)[2] = y
    BY <2>1
  <2>4. PICK s, t : s = <<x>> /\ t = <<x, y>>
    OBVIOUS
  <2>5. PICK u : u = Append(s, y)
    OBVIOUS
  <2>6. /\ u \in Seq(S) /\ Len(u) = Len(s) + 1
        /\ \A i \in 1 .. Len(s) : u[i] = s[i]
        /\ u[Len(s) + 1] = y
    BY <2>2, <2>4, <2>5, AppendProperties
  <2>7. Len(u) = 2 /\ u[1] = x /\ u[2] = y
    BY <2>2, <2>4, <2>6
  <2>8. t \in Seq(S) /\ Len(t) = 2 /\ t[1] = x /\ t[2] = y
    BY <2>3, <2>4
  <2>9. \A i \in 1 .. Len(u) : u[i] = t[i]
    <3>1. \A i \in 1 .. Len(u) : i = 1 \/ i = 2
      BY <2>7
    <3> QED
      BY <2>7, <2>8, <3>1
  <2>10. u = t
    BY ONLY <2>6, <2>7, <2>8, <2>9, SeqEqual
  <2>11. Append(s, y) = s \o <<y>>
    BY <2>2, <2>4, AppendIsConcat
  <2> QED
    BY <2>4, <2>5, <2>10, <2>11
<1>3. ASSUME NEW x, NEW y, NEW z PROVE Append(<<x, y>>, z) = <<x, y, z>>
  <2>1. PICK S : S = {x, y, z}
    OBVIOUS
  <2>2. <<x, y>> \in Seq(S) /\ Len(<<x, y>>) = 2 /\ (<<x, y>>)[1] = x
        /\ (<<x, y>>)[2] = y /\ z \in S
    BY <2>1
  <2>3. <<x, y, z>> \in Seq(S) /\ Len(<<x, y, z>>) = 3
        /\ (<<x, y, z>>)[1] = x /\ (<<x, y, z>>)[2] = y
        /\ (<<x, y, z>>)[3] = z
    BY <2>1
  <2>4. PICK s, t : s = <<x, y>> /\ t = <<x, y, z>>
    OBVIOUS
  <2>5. PICK u : u = Append(s, z)
    OBVIOUS
  <2>6. /\ u \in Seq(S) /\ Len(u) = Len(s) + 1
        /\ \A i \in 1 .. Len(s) : u[i] = s[i]
        /\ u[Len(s) + 1] = z
    BY <2>2, <2>4, <2>5, AppendProperties
  <2>7. Len(u) = 3 /\ u[1] = x /\ u[2] = y /\ u[3] = z
    BY <2>2, <2>4, <2>6
  <2>8. t \in Seq(S) /\ Len(t) = 3 /\ t[1] = x /\ t[2] = y /\ t[3] = z
    BY <2>3, <2>4
  <2>9. \A i \in 1 .. Len(u) : u[i] = t[i]
    <3>1. \A i \in 1 .. Len(u) : i = 1 \/ i = 2 \/ i = 3
      BY <2>7
    <3> QED
      BY <2>7, <2>8, <3>1
  <2>10. u = t
    BY ONLY <2>6, <2>7, <2>8, <2>9, SeqEqual
  <2> QED
    BY <2>4, <2>5, <2>10
<1>4. ASSUME NEW x, NEW y, NEW z, NEW w
      PROVE  Append(<<x, y, z>>, w) = <<x, y, z, w>>
  <2>1. PICK S : S = {x, y, z, w}
    OBVIOUS
  <2>2. /\ <<x, y, z>> \in Seq(S) /\ Len(<<x, y, z>>) = 3
        /\ (<<x, y, z>>)[1] = x /\ (<<x, y, z>>)[2] = y
        /\ (<<x, y, z>>)[3] = z /\ w \in S
    BY <2>1
  <2>3. /\ <<x, y, z, w>> \in Seq(S) /\ Len(<<x, y, z, w>>) = 4
        /\ (<<x, y, z, w>>)[1] = x /\ (<<x, y, z, w>>)[2] = y
        /\ (<<x, y, z, w>>)[3] = z /\ (<<x, y, z, w>>)[4] = w
    BY <2>1
  <2>4. PICK s, t : s = <<x, y, z>> /\ t = <<x, y, z, w>>
    OBVIOUS
  <2>5. PICK u : u = Append(s, w)
    OBVIOUS
  <2>6. /\ u \in Seq(S) /\ Len(u) = Len(s) + 1
        /\ \A i \in 1 .. Len(s) : u[i] = s[i]
        /\ u[Len(s) + 1] = w
    BY <2>2, <2>4, <2>5, AppendProperties
  <2>7. Len(u) = 4 /\ u[1] = x /\ u[2] = y /\ u[3] = z /\ u[4] = w
    BY <2>2, <2>4, <2>6
  <2>8. /\ t \in Seq(S) /\ Len(t) = 4
        /\ t[1] = x /\ t[2] = y /\ t[3] = z /\ t[4] = w
    BY <2>3, <2>4
  <2>9. \A i \in 1 .. Len(u) : u[i] = t[i]
    <3>1. \A i \in 1 .. Len(u) : i = 1 \/ i = 2 \/ i = 3 \/ i = 4
      BY <2>7
    <3> QED
      BY <2>7, <2>8, <3>1
  <2>10. u = t
    BY ONLY <2>6, <2>7, <2>8, <2>9, SeqEqual
  <2> QED
    BY <2>4, <2>5, <2>10
<1> QED
  BY <1>1, <1>2, <1>3, <1>4

\* Up to three texts are their concatenation.
LEMMA FlattenFew ==
    /\ \A a \in Line : FlattenSeq(<<a>>) = a
    /\ \A a, b \in Line : FlattenSeq(<<a, b>>) = a \o b
    /\ \A a, b, c \in Line : FlattenSeq(<<a, b, c>>) = (a \o b) \o c
<1>0. /\ \A S, x : x \in S => <<x>> \in Seq(S)
      /\ \A x, y : Append(<<x>>, y) = <<x, y>>
      /\ \A x, y, z : Append(<<x, y>>, z) = <<x, y, z>>
  BY FewMore
<1>1. ASSUME NEW a \in Line
      PROVE  FlattenSeq(<<a>>) = a /\ <<a>> \in Seq(Line)
  <2>1. FlattenSeq(<<a>>) = a
    BY FlattenOne DEF Line
  <2> QED
    BY <1>0, <2>1, Zenon
<1>2. ASSUME NEW a \in Line, NEW b \in Line
      PROVE  FlattenSeq(<<a, b>>) = a \o b /\ <<a, b>> \in Seq(Line)
  <2>1. PICK t : t = <<a>> /\ t \in Seq(Line) /\ FlattenSeq(t) = a
    BY <1>1
  <2>2. FlattenSeq(Append(t, b)) = FlattenSeq(t) \o b
    BY <2>1, FlattenAppend DEF Line
  <2>3. Append(t, b) = <<a, b>>
    BY <1>0, <2>1, Zenon
  <2>4. Append(t, b) \in Seq(Line)
    BY <2>1, AppendProperties
  <2> QED
    BY <2>1, <2>2, <2>3, <2>4
<1>3. ASSUME NEW a \in Line, NEW b \in Line, NEW c \in Line
      PROVE  FlattenSeq(<<a, b, c>>) = (a \o b) \o c
  <2>1. PICK t : t = <<a, b>> /\ t \in Seq(Line) /\ FlattenSeq(t) = a \o b
    BY <1>2
  <2>2. FlattenSeq(Append(t, c)) = FlattenSeq(t) \o c
    BY <2>1, FlattenAppend DEF Line
  <2>3. Append(t, c) = <<a, b, c>>
    BY <1>0, <2>1, Zenon
  <2> QED
    BY <2>1, <2>2, <2>3
<1> QED
  BY <1>1, <1>2, <1>3

\* Layout shows nothing.
LEMMA LayoutShowsNothing ==
    ASSUME NEW n \in Int
    PROVE  /\ WithoutLayout(FlattenSeq(NewLine(n))) = <<>>
           /\ WithoutLayout(FlattenSeq(<<<<"newline">>>> \o Spaces(n))) = <<>>
           /\ WithoutLayout(<<"space">>) = <<>>
<1>1. "newline" \in Written /\ "space" \in Written
  BY CharactersAssumption DEF Written
<1>2. /\ WithoutLayout(<<"newline">>) = <<>>
      /\ WithoutLayout(<<"space">>) = <<>>
      /\ <<"newline">> \in Line /\ <<"space">> \in Line
  BY <1>1, OneWritten, WrittenSingly DEF Layout
<1>3. <<"space", "space">> \in Line
      /\ WithoutLayout(<<"space", "space">>) = <<>>
  <2>1. PICK s \in Line : s = <<"space">>
    BY <1>2
  <2>2. WithoutLayout(s \o s) = <<>> \o <<>> /\ s \o s \in Line
    BY <1>2, <2>1, WithoutLayoutConcat
  <2>0. \A x : <<x>> \o <<x>> = <<x, x>>
    BY FewMore
  <2>3. s \o s = <<"space", "space">>
    BY <2>0, <2>1, Zenon
  <2>4. <<>> \o <<>> = <<>>
    BY WrittenSingly, LineConcat
  <2> QED
    BY <2>2, <2>3, <2>4
<1> DEFINE Blank == {s \in Line : WithoutLayout(s) = <<>>}
<1>4. <<"newline">> \in Blank /\ <<"space", "space">> \in Blank
  BY <1>2, <1>3
<1>5. ASSUME NEW ps \in Seq(Blank)
      PROVE  WithoutLayout(FlattenSeq(ps)) = <<>>
  <2>1. \A i \in 1 .. Len(ps) : ps[i] \in Blank
    BY ElementOfSeq
  <2>2. ps \in Seq(Line)
    <3>1. \A S, T : S \subseteq T => Seq(S) \subseteq Seq(T)
      BY SeqMonotonic
    <3>2. Blank \subseteq Line
      OBVIOUS
    <3> HIDE DEF Blank
    <3> QED
      BY <3>1, <3>2
  <2>3. \A i \in 1 .. Len(ps) : WithoutLayout(ps[i]) = <<>>
    BY <2>1
  <2> QED
    BY <2>2, <2>3, OnlyLayout
<1> HIDE DEF Blank
<1>6. Spaces(n) \in Seq(Blank)
  <2>1. CASE n > 0
    <3>1. n \in Nat /\ Spaces(n) = [i \in 1 .. n |-> <<"space", "space">>]
      BY <2>1 DEF Spaces
    <3> QED
      BY <1>4, <3>1, IsASeq
  <2>2. CASE ~(n > 0)
    BY <2>2, EmptySeq DEF Spaces
  <2> QED
    BY <2>1, <2>2
<1>7. <<<<"newline">>>> \in Seq(Blank) /\ <<>> \in Seq(Blank)
  <2>1. \A S, x : x \in S => <<x>> \in Seq(S)
    BY ONLY TRUE
  <2> QED
    BY <1>4, <2>1, EmptySeq, Zenon
<1>8. <<<<"newline">>>> \o Spaces(n) \in Seq(Blank)
  BY <1>6, <1>7, ConcatProperties, Zenon
<1>9. NewLine(n) \in Seq(Blank)
  <2>1. <<>> \o Spaces(n) \in Seq(Blank)
    BY <1>6, <1>7, ConcatProperties, Zenon
  <2> QED
    BY <1>8, <2>1 DEF NewLine
<1> QED
  BY <1>2, <1>5, <1>8, <1>9

-----------------------------------------------------------------------------
(***************************************************************************)
(* Every step.                                                             *)
(***************************************************************************)
\* A child of what is written right is written right.
LEMMA FaithfulChild ==
    ASSUME NEW v \in Nodes, Faithful[v], v.type \in Containers,
           NEW i \in Nat, i < get_length(v)
    PROVE  Child(v, i) \in Nodes /\ Faithful[Child(v, i)]
<1>1. get_length(v) \in Nat
  BY LengthIsNat
<1>2. i \in 0 .. get_length(v) - 1
  BY <1>1
<1>3. Child(v, i) \in NodesIn(v)
  BY <1>2 DEF NodesIn
<1>4. Child(v, i) \in Nodes
  BY <1>3, NodesInAreNodes
<1>5. \A c \in NodesIn(v) : Faithful[c]
  BY FaithfulIs
<1> QED
  BY <1>3, <1>4, <1>5

\* The calls are of children that are written right.
LEMMA CallsAre ==
    ASSUME DumpInv, CallsInv
    PROVE  /\ frames \in Seq(Calls)
           /\ frames # <<>> =>
                /\ top \in Calls /\ top.container.type \in Containers
                /\ top.index <= get_length(top.container)
                /\ Faithful[top.container]
                /\ Unfinished(Front(frames))
           /\ dump_pc # "loop" =>
                /\ Unfinished(frames)
                /\ Subject \in Nodes /\ Faithful[Subject]
                /\ frames # <<>> => top.index < get_length(top.container)
<1>1. FramesInv
  BY DEF DumpInv
<1>2. PICK n \in Nat : n = Len(frames)
  BY <1>1 DEF FramesInv
<1>3. /\ frames \in Seq(Calls) /\ DOMAIN frames = 1 .. n
  BY <1>1, <1>2, LenProperties DEF FramesInv, Calls
<1>4. ASSUME NEW k \in 1 .. n
      PROVE  /\ frames[k] \in Calls
             /\ frames[k].container.type \in Containers
             /\ frames[k].index <= get_length(frames[k].container)
             /\ Faithful[frames[k].container]
             /\ k < n \/ dump_pc # "loop" =>
                   frames[k].index < get_length(frames[k].container)
  <2>1. frames[k] \in Calls
    BY <1>2, <1>3, ElementOfSeq
  <2> QED
    BY <1>1, <1>2, <1>3, <2>1 DEF FramesInv, CallsInv
<1>5. ASSUME frames # <<>>
      PROVE  /\ top \in Calls /\ top.container.type \in Containers
             /\ top.index <= get_length(top.container)
             /\ Faithful[top.container]
             /\ Unfinished(Front(frames))
             /\ dump_pc # "loop" => top.index < get_length(top.container)
  <2>1. n \in 1 .. n
    BY <1>2, <1>3, <1>5, EmptySeq
  <2>2. top = frames[n]
    BY <1>2 DEF top, Last
  <2>3. /\ Front(frames) \in Seq(Calls)
        /\ Len(Front(frames)) = Len(frames) - 1
        /\ \A i \in 1 .. Len(Front(frames)) : Front(frames)[i] = frames[i]
    BY ONLY <1>3, <1>5, FrontOfSeq
  <2>4. \A i \in 1 .. Len(Front(frames)) : i \in 1 .. n /\ i < n
    BY <1>2, <2>3
  <2>5. Unfinished(Front(frames))
    BY <1>4, <2>3, <2>4 DEF Unfinished
  <2> QED
    BY <1>4, <2>1, <2>2, <2>5
<1>6. ASSUME dump_pc # "loop"
      PROVE  Unfinished(frames) /\ Subject \in Nodes /\ Faithful[Subject]
  <2>1. Unfinished(frames)
    BY <1>2, <1>3, <1>4, <1>6 DEF Unfinished
  <2>2. CASE frames = <<>>
    BY <2>1, <2>2 DEF Subject, CallsInv
  <2>3. CASE frames # <<>>
    <3>1. PICK v \in Nodes, i \in Nat :
              /\ v = top.container /\ i = top.index
              /\ v.type \in Containers /\ Faithful[v] /\ i < get_length(v)
      BY <1>5, <1>6, <2>3 DEF Calls
    <3>2. Child(v, i) \in Nodes /\ Faithful[Child(v, i)]
      BY <3>1, FaithfulChild
    <3> QED
      BY <2>1, <2>3, <3>1, <3>2 DEF Subject
  <2> QED
    BY <2>2, <2>3
<1> QED
  BY <1>3, <1>5, <1>6

\* What a step says that hands texts to FileOut.
LEMMA EmitSays ==
    ASSUME DumpInv, DumpInv', SaidInv, pieces = <<>>,
           NEW texts, NEW place, Emit(texts, place),
           NEW s \in Line, Said = s,
           NEW w \in Line, WithoutLayout(FlattenSeq(texts)) = w,
           Said' = s \o w
    PROVE  SaidInv'
<1>1. pieces' = texts /\ emitted' = emitted
  BY DEF Emit, fileVars
<1>2. PICK e \in Line : e = emitted
  BY TextInLine DEF DumpInv, FileInv
<1>3. texts \in Seq(Line)
  <2>1. pieces' \in Seq(Text)
    BY DEF DumpInv, PiecesInv
  <2>2. \A S, T : S \subseteq T => Seq(S) \subseteq Seq(T)
    BY SeqMonotonic
  <2> QED
    BY <1>1, <2>1, <2>2, TextInLine
<1>4. PICK t \in Line : t = FlattenSeq(texts)
  BY <1>3, FlattenInSeq DEF Line
<1>5. WithoutLayout(e) = s
  <2>1. e \o <<>> = e
    BY LineConcat
  <2> QED
    BY <1>2, <2>1, FlattenEmpty DEF SaidInv
<1>6. WithoutLayout(e \o t) = s \o w
  <2>1. WithoutLayout(e \o t) = WithoutLayout(e) \o WithoutLayout(t)
    BY WithoutLayoutConcat
  <2> QED
    BY <1>4, <1>5, <2>1
<1> QED
  BY <1>1, <1>2, <1>4, <1>6 DEF SaidInv

\* The marks of JSON are no layout.
LEMMA MarksShown ==
    /\ WithoutLayout(Quotes) = Quotes /\ EscapedText(<<>>) = <<>>
    /\ \A c \in {"[", "]", "{", "}", ",", ":", "backslash", "n", "quote"} :
          WithoutLayout(<<c>>) = <<c>> /\ <<c>> \in Line
    /\ WithoutLayout(<<"n", "u", "l", "l">>) = <<"n", "u", "l", "l">>
    /\ WithoutLayout(<<"f", "a", "l", "s", "e">>)
         = <<"f", "a", "l", "s", "e">>
<1>1. \A c \in {"[", "]", "{", "}", ",", ":", "backslash", "n", "quote"} :
          c \in Written /\ c \notin Layout
  BY CharactersAssumption DEF Written, Layout
<1>2. \A c \in {"[", "]", "{", "}", ",", ":", "backslash", "n", "quote"} :
          WithoutLayout(<<c>>) = <<c>> /\ <<c>> \in Line
  BY <1>1, OneWritten, WrittenSingly
<1>3. WithoutLayout(Quotes) = Quotes
  BY <1>2 DEF Quotes
<1>4. WithoutLayout(<<"n", "u", "l", "l">>) = <<"n", "u", "l", "l">>
  <2>1. ToSet(<<"n", "u", "l", "l">>) \cap Layout = {}
    BY DEF ToSet, Layout
  <2> QED
    BY <2>1, Marks, WithoutLayoutSame
<1>5. WithoutLayout(<<"f", "a", "l", "s", "e">>) = <<"f", "a", "l", "s", "e">>
  <2>1. ToSet(<<"f", "a", "l", "s", "e">>) \cap Layout = {}
    BY DEF ToSet, Layout
  <2> QED
    BY <2>1, Marks, WithoutLayoutSame
<1> QED
  BY <1>2, <1>3, <1>4, <1>5, NothingWritten

\* Which calls there are is not changed by most steps.
LEMMA SameCalls ==
    ASSUME CallsInv, dump_pc \in {"dump", "dump_string", "after"},
           UNCHANGED <<frames, value>>,
           dump_pc' \in {"dump_string", "after"},
           dump_pc' = "dump_string" =>
               /\ dump_pc \in {"dump", "dump_string"}
               /\ UNCHANGED current /\ pos' <= Len(current.text)
    PROVE  CallsInv'
BY DEF CallsInv, Subject, top

\* += of one piece: what was to be written has been.
LEMMA WriteSays ==
    ASSUME DumpInv, CallsInv, SaidInv, DumpInv', Write
    PROVE  CallsInv' /\ SaidInv'
<1> USE DEF Write
<1>1. CallsInv'
  BY DEF CallsInv, Subject, top
<1>2. Said' = Said
  BY DEF Said, Subject, top
<1>3. PICK t, ts : t = Head(pieces) /\ ts = Tail(pieces)
  OBVIOUS
<1>4. /\ t \in Line /\ ts \in Seq(Line) /\ <<t>> \o ts = pieces
      /\ <<t>> \in Seq(Line)
  <2>1. pieces \in Seq(Text) /\ pieces # <<>>
    BY DEF DumpInv, PiecesInv
  <2>2. pieces \in Seq(Line)
    <3>1. \A S, T : S \subseteq T => Seq(S) \subseteq Seq(T)
      BY SeqMonotonic
    <3> QED
      BY <2>1, <3>1, TextInLine
  <2>3. t \in Line /\ ts \in Seq(Line)
    BY <1>3, <2>1, <2>2, HeadTailProperties
  <2>4. <<t>> \o ts = pieces /\ <<t>> \in Seq(Line)
    BY ONLY <1>3, <2>1, <2>2, <2>3
  <2> QED
    BY <2>3, <2>4
<1>5. PICK e \in Line : e = emitted
  BY TextInLine DEF DumpInv, FileInv
<1>6. PICK u \in Line : u = FlattenSeq(ts)
  BY <1>4, FlattenInSeq DEF Line
<1>7. FlattenSeq(pieces) = t \o u
  <2>1. FlattenSeq(<<t>> \o ts) = FlattenSeq(<<t>>) \o FlattenSeq(ts)
    BY <1>4, FlattenConcat DEF Line
  <2>2. FlattenSeq(<<t>>) = t
    BY <1>4, FlattenFew
  <2> QED
    BY <1>4, <1>6, <2>1, <2>2
<1>8. (e \o t) \o u = e \o (t \o u)
  BY <1>4, LineConcat
<1>9. emitted' = e \o t /\ pieces' = ts
  BY <1>3, <1>5
<1> QED
  BY <1>1, <1>2, <1>5, <1>6, <1>7, <1>8, <1>9 DEF SaidInv

\* dump_string begins with a quote.
LEMMA DumpStringSays ==
    ASSUME DumpInv, CallsInv, SaidInv, DumpInv', DumpString
    PROVE  CallsInv' /\ SaidInv'
<1> USE DEF DumpString
<1>1. CallsInv'
  <2>1. Len(current.text) \in Nat
    <3>1. current \in Nodes /\ current.type = "string"
      BY DEF DumpInv, PiecesInv
    <3>2. current.text \in Text
      BY <3>1, NodeParts
    <3> QED
      BY <3>2 DEF Text
  <2> QED
    BY <2>1, SameCalls DEF At, Emit
<1>2. PICK s \in Line : s = Outer(frames)
  BY CallsAre, OuterStep DEF At
<1>3. Said = s
  BY <1>2 DEF Said, At
<1>4. Said' = s \o Quotes
  <2>1. SubSeq(current.text, 1, 0) = <<>>
    BY SubSeqEmpty
  <2>2. Quotes \o <<>> = Quotes
    BY Marks, LineConcat
  <2>3. /\ dump_pc' = "dump_string" /\ frames' = frames /\ current' = current
        /\ pos' = 0
    BY DEF Emit
  <2>4. Said' = Outer(frames)
                   \o (Quotes \o EscapedText(SubSeq(current.text, 1, 0)))
    BY <2>3 DEF Said
  <2> QED
    BY <1>2, <2>1, <2>2, <2>4, NothingWritten
<1>5. WithoutLayout(FlattenSeq(<<Quotes>>)) = Quotes
  BY Marks, FlattenFew, MarksShown
<1> QED
  BY <1>1, <1>3, <1>4, <1>5, Marks, EmitSays DEF At

\* A part of a text.
LEMMA PartOf ==
    ASSUME NEW s \in Line, NEW p \in Nat, NEW q \in Nat,
           p <= q, q <= Len(s)
    PROVE  /\ SubSeq(s, 1, p) \in Line /\ SubSeq(s, p + 1, q) \in Line
           /\ SubSeq(s, 1, q) = SubSeq(s, 1, p) \o SubSeq(s, p + 1, q)
           /\ ToSet(SubSeq(s, p + 1, q)) \subseteq {s[i] : i \in p + 1 .. q}
           /\ ToSet(SubSeq(s, p + 1, q)) \subseteq ToSet(s)
<1>1. /\ s \in Seq(Written) /\ Len(s) \in Nat /\ DOMAIN s = 1 .. Len(s)
  BY LenProperties DEF Line
<1>2. \A i \in 1 .. Len(s) : s[i] \in Written
  BY <1>1, ElementOfSeq
<1>3. PICK t, u, r : /\ t = SubSeq(s, 1, p) /\ u = SubSeq(s, p + 1, q)
                     /\ r = SubSeq(s, 1, q)
  OBVIOUS
<1>4. PICK m \in Nat : q = p + m
  <2>1. q - p \in Nat /\ q = p + (q - p)
    OBVIOUS
  <2> QED
    BY <2>1
<1>5. /\ t \in Seq(Written) /\ Len(t) = p
      /\ \A i \in 1 .. p : t[i] = s[i]
  <2>1. \A i \in 1 .. p : s[i] \in Written
    BY <1>1, <1>2
  <2>2. /\ SubSeq(s, 1, p) \in Seq(Written)
        /\ Len(SubSeq(s, 1, p)) = IF 1 <= p THEN p - 1 + 1 ELSE 0
        /\ \A i \in 1 .. p - 1 + 1 : SubSeq(s, 1, p)[i] = s[1 + i - 1]
    BY <2>1, SubSeqProperties
  <2>3. \A i \in 1 .. p : i \in 1 .. p - 1 + 1 /\ 1 + i - 1 = i
    OBVIOUS
  <2> QED
    BY <1>3, <2>2, <2>3
<1>6. /\ r \in Seq(Written) /\ Len(r) = q
      /\ \A i \in 1 .. q : r[i] = s[i]
  <2>1. \A i \in 1 .. q : s[i] \in Written
    BY <1>1, <1>2
  <2>2. /\ SubSeq(s, 1, q) \in Seq(Written)
        /\ Len(SubSeq(s, 1, q)) = IF 1 <= q THEN q - 1 + 1 ELSE 0
        /\ \A i \in 1 .. q - 1 + 1 : SubSeq(s, 1, q)[i] = s[1 + i - 1]
    BY <2>1, SubSeqProperties
  <2>3. \A i \in 1 .. q : i \in 1 .. q - 1 + 1 /\ 1 + i - 1 = i
    OBVIOUS
  <2> QED
    BY <1>3, <2>2, <2>3
<1>7. /\ u \in Seq(Written) /\ Len(u) = m
      /\ \A i \in 1 .. m : u[i] = s[p + i]
  <2>1. PICK b \in Int : b = p + 1
    OBVIOUS
  <2>2. \A i \in b .. q : s[i] \in Written
    BY <1>1, <1>2, <2>1
  <2>3. /\ SubSeq(s, b, q) \in Seq(Written)
        /\ Len(SubSeq(s, b, q)) = IF b <= q THEN q - b + 1 ELSE 0
        /\ \A i \in 1 .. q - b + 1 : SubSeq(s, b, q)[i] = s[b + i - 1]
    BY <2>2, SubSeqProperties
  <2>4. q - b + 1 = m /\ (b <= q <=> m # 0)
    BY <1>4, <2>1
  <2>5. \A i \in 1 .. m : b + i - 1 = p + i
    BY <2>1
  <2> QED
    BY <1>3, <2>1, <2>3, <2>4, <2>5
<1>8. r = t \o u
  <2>1. Len(r) = Len(t) + Len(u)
    BY <1>4, <1>5, <1>6, <1>7
  <2>2. \A i \in 1 .. Len(t) : r[i] = t[i]
    BY <1>4, <1>5, <1>6
  <2>3. \A i \in 1 .. Len(u) : r[Len(t) + i] = u[i]
    <3>1. \A i \in 1 .. m : p + i \in 1 .. q
      BY <1>4
    <3> QED
      BY <1>5, <1>6, <1>7, <3>1
  <2> QED
    BY ONLY <1>5, <1>6, <1>7, <2>1, <2>2, <2>3, Joined
<1>9. ToSet(u) \subseteq {s[i] : i \in p + 1 .. q}
  <2>1. \A i \in 1 .. m : p + i \in p + 1 .. q
    BY <1>4
  <2>2. DOMAIN u = 1 .. m
    BY <1>7, LenProperties
  <2> QED
    BY <1>7, <2>1, <2>2 DEF ToSet
<1>10. {s[i] : i \in p + 1 .. q} \subseteq ToSet(s)
  <2>1. \A i \in p + 1 .. q : i \in DOMAIN s
    BY <1>1
  <2> QED
    BY <2>1 DEF ToSet
<1> QED
  BY <1>3, <1>5, <1>7, <1>8, <1>9, <1>10 DEF Line

\* The laws of concatenation, as Cat.
LEMMA CatLaws ==
    /\ \A s, t \in Line : Cat(s, t) \in Line
    /\ \A r, s, t \in Line : Cat(Cat(r, s), t) = Cat(r, Cat(s, t))
    /\ \A s \in Line : Cat(<<>>, s) = s /\ Cat(s, <<>>) = s
BY LineConcat DEF Cat

\* One round of dump_string: a piece of the string, with the escape or the
\* quote that follows it.
LEMMA StringPieceSays ==
    ASSUME DumpInv, CallsInv, SaidInv, DumpInv', StringPiece
    PROVE  CallsInv' /\ SaidInv'
<1>1. /\ dump_pc = "dump_string" /\ pieces = <<>>
      /\ UNCHANGED <<current, indent, frames>>
  BY DEF StringPiece, At
<1>2. /\ current = Subject /\ current \in Nodes /\ Faithful[current]
      /\ current.type = "string"
  BY <1>1, CallsAre DEF DumpInv, PiecesInv, CallsInv
<1>3. PICK s \in Line, p \in Nat :
          s = current.text /\ p = pos /\ p <= Len(s) /\ Len(s) \in Nat
  <2>1. current.text \in Line /\ current.text \in Text
    BY <1>2, NodeParts
  <2>2. pos \in Nat /\ pos <= Len(current.text)
    BY <1>1 DEF DumpInv, PiecesInv, CallsInv
  <2>3. Len(current.text) \in Nat
    BY <2>1 DEF Text
  <2> QED
    BY <2>1, <2>2, <2>3
<1>4. /\ ToSet(s) \cap Layout = {} /\ "tab" \notin ToSet(s)
      /\ ToSet(s) \cap MustEscape \subseteq Escaped
  <2>1. WrittenRight(current)
    BY <1>2, FaithfulIs
  <2>2. ToSet(s) \cap MustEscape \subseteq {"quote", "backslash", "lf"}
    BY <1>2, <1>3, <2>1 DEF WrittenRight
  <2>3. "tab" \in MustEscape
    BY DEF MustEscape, ShortEscape
  <2>4. ToSet(s) \cap Layout = {}
    BY <1>2, <1>3, LayoutAssumption
  <2> QED
    BY <2>2, <2>3, <2>4 DEF Escaped
<1>5. PICK o \in Line, e \in Line :
          /\ o = Outer(frames) /\ e = EscapedText(SubSeq(s, 1, p))
          /\ SubSeq(s, 1, p) \in Line
  <2>1. SubSeq(s, 1, p) \in Line
    BY <1>3, PartOf
  <2>2. EscapedText(SubSeq(s, 1, p)) \in Line
    BY <2>1, EscapedTextConcat
  <2> QED
    BY <1>1, <2>1, <2>2, CallsAre, OuterStep
<1>6. Said = o \o (Quotes \o e) /\ Said \in Line
  <2>1. Said = o \o (Quotes \o e)
    BY <1>1, <1>3, <1>5 DEF Said
  <2>2. Quotes \o e \in Line
    BY Marks, LineConcat
  <2> QED
    BY <2>1, <2>2, LineConcat
<1>q. Quotes \in Line /\ WithoutLayout(Quotes) = Quotes
  BY Marks, MarksShown
<1>7. ASSUME {n \in p + 1 .. Len(s) : s[n] \in Escaped} = {},
             Emit(<<SubSeq(s, p + 1, Len(s)), Quotes>>, "after"), pos' = pos
      PROVE  CallsInv' /\ SaidInv'
  <2>1. CallsInv'
    BY <1>1, <1>7, SameCalls DEF Emit
  <2>2. PICK r \in Line :
            /\ r = SubSeq(s, p + 1, Len(s))
            /\ s = SubSeq(s, 1, p) \o r
            /\ ToSet(r) \cap Layout = {} /\ ToSet(r) \cap MustEscape = {}
    <3>1. SubSeq(s, 1, Len(s)) = s
      BY SubSeqFull DEF Line
    <3>2. PICK m \in Nat : m = Len(s) /\ p <= m
      BY <1>3
    <3>3. /\ SubSeq(s, p + 1, m) \in Line
          /\ SubSeq(s, 1, m) = SubSeq(s, 1, p) \o SubSeq(s, p + 1, m)
          /\ ToSet(SubSeq(s, p + 1, m)) \subseteq {s[i] : i \in p + 1 .. m}
          /\ ToSet(SubSeq(s, p + 1, m)) \subseteq ToSet(s)
      <4>1. p <= m /\ m <= Len(s)
        BY <3>2
      <4> QED
        BY ONLY <4>1, s \in Line, p \in Nat, m \in Nat, PartOf
    <3>4. PICK u : u = SubSeq(s, p + 1, m)
      OBVIOUS
    <3>5. {s[i] : i \in p + 1 .. m} \cap Escaped = {}
      BY <1>7, <3>2
    <3>6. ToSet(u) \cap MustEscape = {} /\ ToSet(u) \cap Layout = {}
      BY <1>4, <3>3, <3>4, <3>5
    <3> QED
      BY <3>1, <3>2, <3>3, <3>4, <3>6
  <2>3. EscapedText(s) = e \o r
    <3>1. EscapedText(r) = r
      BY <2>2, EscapedTextSame
    <3>2. EscapedText(SubSeq(s, 1, p) \o r)
            = EscapedText(SubSeq(s, 1, p)) \o EscapedText(r)
      BY <1>5, EscapedTextConcat
    <3> QED
      BY <1>5, <2>2, <3>1, <3>2
  <2>4. Json[current] = (Quotes \o (e \o r)) \o Quotes
    <3>1. Json[current] = JsonString(s)
      BY <1>2, <1>3, JsonIs DEF JsonText
    <3> QED
      BY <2>3, <3>1 DEF JsonString, Quotes
  <2>5. Said' = o \o ((Quotes \o (e \o r)) \o Quotes)
    <3>1. /\ dump_pc' = "after" /\ frames' = frames /\ value' = value
      BY <1>1, <1>7 DEF Emit
    <3>2. Said' = Outer(frames) \o Json[Subject]
      BY <3>1 DEF Said, Subject, top
    <3> QED
      BY <1>2, <1>5, <2>4, <3>2
  <2>6. Said' = Said \o (r \o Quotes)
    <3>1. Said' = Cat(o, Cat(Cat(Quotes, Cat(e, r)), Quotes))
          /\ Said = Cat(o, Cat(Quotes, e))
      BY <1>6, <2>5 DEF Cat
    <3>2. Said' = Cat(Said, Cat(r, Quotes))
      BY <1>q, <3>1, CatLaws
    <3> QED
      BY <3>2 DEF Cat
  <2>7. /\ r \o Quotes \in Line
        /\ WithoutLayout(FlattenSeq(<<r, Quotes>>)) = r \o Quotes
    <3>1. WithoutLayout(r \o Quotes) = WithoutLayout(r) \o WithoutLayout(Quotes)
      BY <1>q, WithoutLayoutConcat
    <3>2. WithoutLayout(r) = r
      BY <2>2, WithoutLayoutSame
    <3>3. FlattenSeq(<<r, Quotes>>) = r \o Quotes
      BY <1>q, FlattenFew
    <3> QED
      BY <1>q, <3>1, <3>2, <3>3, LineConcat
  <2>8. Emit(<<r, Quotes>>, "after")
    BY <1>7, <2>2
  <2> QED
    BY <1>1, <1>6, <2>1, <2>6, <2>7, <2>8, EmitSays
<1>8. ASSUME NEW n \in p + 1 .. Len(s), s[n] \in Escaped,
             \A m \in {n1 \in p + 1 .. Len(s) : s[n1] \in Escaped} : n <= m,
             Emit(<<SubSeq(s, p + 1, n - 1), <<"backslash">>,
                    EscapedAs(s[n])>>, "dump_string"),
             pos' = n
      PROVE  CallsInv' /\ SaidInv'
  <2>1. CallsInv'
    BY <1>1, <1>3, <1>8, SameCalls DEF Emit
  <2>2. PICK k \in Nat : n = k + 1 /\ n - 1 = k /\ p <= k /\ k < Len(s)
    <3>1. n - 1 \in Nat /\ n = (n - 1) + 1 /\ p <= n - 1 /\ n - 1 < Len(s)
      BY <1>3
    <3> QED
      BY <3>1
  <2>3. PICK r \in Line :
            /\ r = SubSeq(s, p + 1, k)
            /\ SubSeq(s, 1, k) = SubSeq(s, 1, p) \o r
            /\ ToSet(r) \cap Layout = {} /\ ToSet(r) \cap MustEscape = {}
    <3>1. \A i \in p + 1 .. k : s[i] \notin Escaped
      <4>1. \A i \in p + 1 .. k : i \in p + 1 .. Len(s) /\ ~(n <= i)
        BY <1>3, <2>2
      <4> QED
        BY <1>8, <4>1
    <3>2. k <= Len(s)
      BY <1>3, <2>2
    <3>3. /\ SubSeq(s, p + 1, k) \in Line
          /\ SubSeq(s, 1, k) = SubSeq(s, 1, p) \o SubSeq(s, p + 1, k)
          /\ ToSet(SubSeq(s, p + 1, k)) \subseteq {s[i] : i \in p + 1 .. k}
          /\ ToSet(SubSeq(s, p + 1, k)) \subseteq ToSet(s)
      BY <2>2, <3>2, PartOf
    <3>4. PICK u : u = SubSeq(s, p + 1, k)
      OBVIOUS
    <3>5. ToSet(u) \cap MustEscape = {} /\ ToSet(u) \cap Layout = {}
      BY <1>4, <3>1, <3>3, <3>4
    <3> QED
      BY <3>3, <3>4, <3>5
  <2>4. PICK c \in Written :
            c = s[n] /\ c \in {"quote", "lf", "backslash"}
    <3>1. n \in 1 .. Len(s) /\ s[n] \in ToSet(s) /\ s[n] \in Written
      <4>1. n \in 1 .. Len(s) /\ DOMAIN s = 1 .. Len(s)
        BY <1>3, LenProperties DEF Line
      <4> QED
        BY <4>1, ElementOfSeq DEF Line, ToSet
    <3>2. s[n] # "tab"
      BY <1>4, <3>1
    <3> QED
      BY <1>8, <3>1, <3>2 DEF Escaped
  <2>5. PICK b \in Line, x \in Line :
            /\ b = <<"backslash">> /\ x = EscapedAs(c)
            /\ WithoutLayout(b) = b /\ WithoutLayout(x) = x
            /\ Escape(c) = b \o x
    <3>1. EscapedAs(c) \in {<<"n">>, <<"quote">>, <<"backslash">>}
      BY <2>4 DEF EscapedAs
    <3>2. Escape(c) = <<"backslash">> \o EscapedAs(c)
      <4>1. CASE c = "lf"
        <5>1. Escape(c) = <<"backslash", "n">> /\ EscapedAs(c) = <<"n">>
          BY <4>1, EscapeIs DEF EscapedAs
        <5> QED
          BY <5>1, FewMore, Zenon
      <4>2. CASE c \in {"quote", "backslash"}
        <5>1. Escape(c) = <<"backslash", c>> /\ EscapedAs(c) = <<c>>
          BY <4>2, EscapeIs DEF EscapedAs
        <5> QED
          BY <5>1, FewMore, Zenon
      <4> QED
        BY <2>4, <4>1, <4>2
    <3> QED
      BY <3>1, <3>2, MarksShown
  <2>6. EscapedText(SubSeq(s, 1, n)) = (e \o r) \o (b \o x)
    <3>1. SubSeq(s, 1, k + 1) = SubSeq(s, 1, k) \o <<s[k + 1]>>
      BY <2>2, OneMore DEF Line
    <3>2. PICK t \in Line : t = SubSeq(s, 1, k) /\ t = SubSeq(s, 1, p) \o r
      <4>1. SubSeq(s, 1, p) \o r \in Line
        BY <1>5, LineConcat
      <4> QED
        BY <2>3, <4>1
    <3>3. EscapedText(t) = e \o r
      <4>1. EscapedText(r) = r
        BY <2>3, EscapedTextSame
      <4>2. EscapedText(SubSeq(s, 1, p) \o r)
              = EscapedText(SubSeq(s, 1, p)) \o EscapedText(r)
        BY <1>5, EscapedTextConcat
      <4> QED
        BY <1>5, <3>2, <4>1, <4>2
    <3>4. EscapedText(<<c>>) = b \o x /\ <<c>> \in Line
      BY <2>5, OneWritten, WrittenSingly
    <3>5. EscapedText(t \o <<c>>) = EscapedText(t) \o EscapedText(<<c>>)
      BY <3>4, EscapedTextConcat
    <3>6. SubSeq(s, 1, n) = t \o <<c>>
      BY <2>2, <2>4, <3>1, <3>2
    <3> QED
      BY <3>3, <3>4, <3>5, <3>6
  <2>7. Said' = o \o (Quotes \o ((e \o r) \o (b \o x)))
    <3>1. /\ dump_pc' = "dump_string" /\ frames' = frames
          /\ current' = current /\ pos' = n
      BY <1>1, <1>8 DEF Emit
    <3>2. Said' = Outer(frames)
                     \o (Quotes \o EscapedText(SubSeq(current.text, 1, n)))
      BY <3>1 DEF Said
    <3> QED
      BY <1>3, <1>5, <2>6, <3>2
  <2>8. Said' = Said \o ((r \o b) \o x)
    <3>1. Said' = Cat(o, Cat(Quotes, Cat(Cat(e, r), Cat(b, x))))
          /\ Said = Cat(o, Cat(Quotes, e))
      BY <1>6, <2>7 DEF Cat
    <3>2. Said' = Cat(Said, Cat(Cat(r, b), x))
      BY <1>q, <3>1, CatLaws
    <3> QED
      BY <3>2 DEF Cat
  <2>9. /\ (r \o b) \o x \in Line
        /\ WithoutLayout(FlattenSeq(<<r, b, x>>)) = (r \o b) \o x
    <3>1. r \o b \in Line /\ WithoutLayout(r \o b) = r \o b
      <4>1. WithoutLayout(r \o b) = WithoutLayout(r) \o WithoutLayout(b)
        BY WithoutLayoutConcat
      <4>2. WithoutLayout(r) = r
        BY <2>3, WithoutLayoutSame
      <4> QED
        BY <2>5, <4>1, <4>2, LineConcat
    <3>2. PICK t \in Line : t = r \o b /\ WithoutLayout(t) = t
      BY <3>1
    <3>3. WithoutLayout(t \o x) = WithoutLayout(t) \o WithoutLayout(x)
      BY WithoutLayoutConcat
    <3>4. FlattenSeq(<<r, b, x>>) = (r \o b) \o x
      <4> DEFINE Joins(f, g, h) == FlattenSeq(<<f, g, h>>) = (f \o g) \o h
      <4>1. \A f, g, h \in Line : Joins(f, g, h)
        BY ONLY FlattenFew, Zenon
      <4> HIDE DEF Joins
      <4>2. Joins(r, b, x)
        BY <4>1
      <4> QED
        BY <4>2 DEF Joins
    <3> QED
      BY <2>5, <3>2, <3>3, <3>4, LineConcat
  <2>10. Emit(<<r, b, x>>, "dump_string")
    BY <1>8, <2>2, <2>3, <2>4, <2>5
  <2> QED
    BY <1>1, <1>6, <2>1, <2>8, <2>9, <2>10, EmitSays
<1> QED
  BY <1>3, <1>7, <1>8 DEF StringPiece

\* dump of another scalar writes all of it.
LEMMA DumpScalarSays ==
    ASSUME DumpInv, CallsInv, SaidInv, DumpInv', DumpScalar
    PROVE  CallsInv' /\ SaidInv'
<1>1. /\ dump_pc = "dump" /\ pieces = <<>>
      /\ current.type \notin Containers \cup {"string"}
      /\ Emit(<<ScalarText(current)>>, "after")
      /\ UNCHANGED <<current, indent, frames, pos>>
  BY DEF DumpScalar, At
<1>2. CallsInv'
  BY <1>1, SameCalls DEF Emit
<1>3. current = Subject /\ current \in Nodes /\ Faithful[current]
  BY <1>1, CallsAre DEF CallsInv
<1>4. PICK t \in Line :
          t = Json[current] /\ t = ScalarText(current) /\ WithoutLayout(t) = t
  <2>1. CASE current.type \in {"integer", "double"}
    <3>1. WrittenRight(current)
      BY <1>3, FaithfulIs
    <3>2. PICK x \in Line : x = to_string(current) /\ x = JsonNumber(current)
      BY <1>3, <2>1, <3>1, NumberInLine
    <3>3. ToSet(x) \cap Layout = {}
      BY <1>3, <2>1, <3>2, LayoutAssumption
    <3>4. WithoutLayout(x) = x
      BY <3>3, WithoutLayoutSame
    <3>5. Json[current] = JsonNumber(current)
      BY <1>3, <2>1, JsonIs DEF JsonText
    <3>6. ScalarText(current) = to_string(current)
      BY <2>1 DEF ScalarText
    <3> QED
      BY <3>2, <3>4, <3>5, <3>6
  <2>2. CASE current.type \notin {"integer", "double"}
    <3>1. current.type \in {"null", "false"}
      <4>1. current.type # "true"
        BY <1>3, FaithfulIs DEF WrittenRight
      <4>2. current.type \notin Containers \cup {"string", "integer", "double"}
        BY <1>1, <2>2
      <4> QED
        BY <1>3, <4>1, <4>2, NodeParts
    <3>2. CASE current.type = "null"
      <4>1. /\ Json[current] = <<"n", "u", "l", "l">>
            /\ ScalarText(current) = <<"n", "u", "l", "l">>
        BY <1>3, <3>2, JsonIs DEF JsonText, ScalarText
      <4> QED
        BY <4>1, Marks, MarksShown
    <3>3. CASE current.type = "false"
      <4>1. /\ Json[current] = <<"f", "a", "l", "s", "e">>
            /\ ScalarText(current) = <<"f", "a", "l", "s", "e">>
        BY <1>3, <3>3, JsonIs DEF JsonText, ScalarText
      <4> QED
        BY <4>1, Marks, MarksShown
    <3> QED
      BY <3>1, <3>2, <3>3
  <2> QED
    BY <2>1, <2>2
<1>5. PICK o \in Line : o = Outer(frames)
  BY <1>1, CallsAre, OuterStep
<1>6. Said = o
  BY <1>1, <1>5 DEF Said
<1>7. Said' = o \o t
  <2>1. /\ dump_pc' = "after" /\ frames' = frames /\ value' = value
    BY <1>1 DEF Emit
  <2>2. Said' = Outer(frames) \o Json[Subject]
    BY <2>1 DEF Said, Subject, top
  <2> QED
    BY <1>3, <1>4, <1>5, <2>2
<1>8. WithoutLayout(FlattenSeq(<<t>>)) = t
  BY <1>4, FlattenFew
<1>9. Emit(<<t>>, "after")
  BY <1>1, <1>4
<1> QED
  BY <1>1, <1>2, <1>6, <1>7, <1>8, <1>9, EmitSays

\* dump_array or dump_object is called.
LEMMA DumpContainerSays ==
    ASSUME DumpInv, CallsInv, SaidInv, DumpInv', DumpContainer
    PROVE  CallsInv' /\ SaidInv'
<1>1. /\ dump_pc = "dump" /\ pieces = <<>>
      /\ current.type \in Containers
      /\ Emit(<<Opening(current)>>, "loop")
      /\ frames' = Append(frames, [container |-> current, index |-> 0])
      /\ UNCHANGED <<current, pos>>
  BY DEF DumpContainer, At
<1>2. /\ current = Subject /\ current \in Nodes /\ Faithful[current]
      /\ Unfinished(frames) /\ frames \in Seq(Calls)
  BY <1>1, CallsAre DEF CallsInv
<1>f. PICK f \in Calls :
          /\ f = [container |-> current, index |-> 0]
          /\ f.container = current /\ f.index = 0
  <2>1. current \in Nodes
    BY <1>2
  <2>2. \A S, x : x \in S =>
           /\ [container |-> x, index |-> 0] \in [container : S, index : Nat]
           /\ [container |-> x, index |-> 0].container = x
           /\ [container |-> x, index |-> 0].index = 0
    BY ONLY TRUE
  <2> QED
    BY <2>1, <2>2, Zenon DEF Calls
<1>3. PICK fs : fs = frames' /\ f.container = current /\ f.index = 0
  BY <1>f
<1>4. fs = Append(frames, f)
  BY <1>1, <1>f, <1>3
<1>5. /\ fs \in Seq(Calls) /\ fs # <<>> /\ Len(fs) = Len(frames) + 1
      /\ \A i \in 1 .. Len(frames) : fs[i] = frames[i]
      /\ fs[Len(frames) + 1] = f
      /\ DOMAIN fs = 1 .. Len(frames) + 1
  BY <1>2, <1>4, AppendProperties, LenProperties
<1>6. PICK n \in Nat : n = Len(frames) /\ DOMAIN frames = 1 .. n
  BY <1>2, LenProperties
<1>7. dump_pc' = "loop" /\ value' = value
  BY <1>1 DEF Emit
<1>8. CallsInv'
  <2>1. fs[1].container = value
    <3>1. CASE n = 0
      <4>1. frames = <<>>
        BY <1>2, <1>6, <3>1, EmptySeq
      <4> QED
        BY <1>2, <1>3, <1>5, <1>6, <3>1, <4>1 DEF Subject
    <3>2. CASE n # 0
      <4>1. frames # <<>> /\ fs[1] = frames[1]
        BY <1>5, <1>6, <3>2
      <4> QED
        BY <4>1 DEF CallsInv
    <3> QED
      BY <3>1, <3>2
  <2>2. ASSUME NEW k \in 1 .. n + 1
        PROVE  /\ Faithful[fs[k].container]
               /\ k < n + 1 => fs[k].index < get_length(fs[k].container)
               /\ k < n + 1 =>
                     fs[k + 1].container = Child(fs[k].container, fs[k].index)
    <3>1. CASE k = n + 1
      BY <1>2, <1>3, <1>5, <1>6, <3>1
    <3>2. CASE k = n
      <4>1. /\ k \in DOMAIN frames /\ k \in 1 .. Len(frames)
            /\ fs[k] = frames[k] /\ fs[k + 1] = f
        BY <1>5, <1>6, <3>2
      <4>2. frames # <<>> /\ top = frames[k]
        BY <1>2, <1>6, <3>2, <4>1 DEF top, Last
      <4>3. f.container = Child(frames[k].container, frames[k].index)
        BY <1>2, <1>3, <4>2 DEF Subject
      <4>4. /\ Faithful[frames[k].container]
            /\ frames[k].index < get_length(frames[k].container)
        BY <1>1, <4>1 DEF CallsInv
      <4> QED
        BY <4>1, <4>3, <4>4
    <3>3. CASE k < n
      <4>1. /\ k \in DOMAIN frames /\ k < Len(frames)
            /\ fs[k] = frames[k] /\ fs[k + 1] = frames[k + 1]
        BY <1>5, <1>6, <3>3
      <4> QED
        BY <4>1 DEF CallsInv
    <3> QED
      BY <1>6, <3>1, <3>2, <3>3
  <2>3. value \in Nodes /\ Faithful[value]
    BY DEF CallsInv
  <2> QED
    BY <1>3, <1>5, <1>6, <1>7, <2>1, <2>2, <2>3 DEF CallsInv
<1>9. PICK o \in Line : o = Outer(frames)
  BY <1>2, OuterStep
<1>10. Said = o
  BY <1>1, <1>9 DEF Said
<1>11. PICK w \in Line : w = Opening(current) /\ WithoutLayout(w) = w
  BY Marks, MarksShown DEF Opening
<1>12. Said' = o \o w
  <2>1. Front(fs) = frames /\ Last(fs) = f
    BY ONLY <1>2, <1>4, f \in Calls, FrontAppend
  <2>2. Said' = Outer(Front(fs)) \o Begun(Last(fs))
    BY <1>3, <1>7 DEF Said, top
  <2>3. Begun(f) = Opening(current) \o <<>>
    <3>1. SubSeq(JsonItems(Json, current), 1, 0) = <<>>
      BY SubSeqEmpty
    <3> QED
      BY <1>3, <3>1, FlattenEmpty DEF Begun
  <2>4. w \o <<>> = w
    BY LineConcat
  <2> QED
    BY <1>9, <1>11, <2>1, <2>2, <2>3, <2>4
<1>13. WithoutLayout(FlattenSeq(<<w>>)) = w
  BY <1>11, FlattenFew
<1>14. Emit(<<w>>, "loop")
  BY <1>1, <1>11
<1> QED
  BY <1>1, <1>8, <1>10, <1>12, <1>13, <1>14, EmitSays

\* A piece more.
LEMMA PiecesShow ==
    ASSUME NEW ps \in Seq(Line), NEW qs \in Seq(Line)
    PROVE  /\ ps \o qs \in Seq(Line)
           /\ FlattenSeq(ps) \in Line
           /\ WithoutLayout(FlattenSeq(ps)) \in Line
           /\ WithoutLayout(FlattenSeq(Cat(ps, qs)))
                = Cat(WithoutLayout(FlattenSeq(ps)),
                      WithoutLayout(FlattenSeq(qs)))
<1>1. PICK s \in Line, t \in Line : s = FlattenSeq(ps) /\ t = FlattenSeq(qs)
  BY FlattenInSeq DEF Line
<1>2. FlattenSeq(ps \o qs) = s \o t
  BY <1>1, FlattenConcat DEF Line
<1>3. WithoutLayout(s \o t) = WithoutLayout(s) \o WithoutLayout(t)
      /\ WithoutLayout(s) \in Line
  BY WithoutLayoutConcat
<1>4. ps \o qs \in Seq(Line)
  BY ConcatProperties
<1> QED
  BY <1>1, <1>2, <1>3, <1>4 DEF Cat

\* Pieces are texts.
LEMMA TextsInLines == Seq(Text) \subseteq Seq(Line)
<1>1. \A S, T : S \subseteq T => Seq(S) \subseteq Seq(T)
  BY SeqMonotonic
<1> QED
  BY <1>1, TextInLine

\* Two texts without layout are one.
LEMMA CatShows ==
    ASSUME NEW s \in Line, NEW t \in Line,
           WithoutLayout(s) = s, WithoutLayout(t) = t
    PROVE  Cat(s, t) \in Line /\ WithoutLayout(Cat(s, t)) = Cat(s, t)
BY WithoutLayoutConcat DEF Cat

\* What is written in front of a child.
LEMMA KeyShows ==
    ASSUME NEW v \in Nodes, v.type \in Containers, Faithful[v],
           NEW i \in Nat, i < get_length(v)
    PROVE  /\ KeyText(v, i) \in Seq(Line)
           /\ WithoutLayout(FlattenSeq(KeyText(v, i))) = Name(v, i + 1)
           /\ Name(v, i + 1) \in Line
<1>1. KeyText(v, i) \in Seq(Line)
  BY ChildrenAreNodes, TextsInLines
<1>2. i + 1 \in 1 .. get_length(v)
  BY LengthIsNat
<1>3. Name(v, i + 1) \in Line
  BY <1>2, NameInLine
<1>4. CASE v.type = "array"
  <2>1. KeyText(v, i) = <<>> /\ Name(v, i + 1) = <<>>
    BY <1>4 DEF KeyText, Name
  <2> QED
    BY <1>1, <1>3, <2>1, FlattenEmpty, NothingWritten
<1>5. CASE v.type = "object"
  <2>1. PICK key \in Line :
            /\ key = v.members[i + 1].key
            /\ ToSet(key) \cap Layout = {} /\ ToSet(key) \cap MustEscape = {}
    <3>1. i + 1 \in DOMAIN v.members /\ v.members[i + 1].key \in Line
      BY <1>2, <1>5, NodeParts
    <3>2. WrittenRight(v)
      BY FaithfulIs
    <3> QED
      BY <1>5, <3>1, <3>2, LayoutAssumption DEF WrittenRight
  <2>2. PICK q \in Line, c \in Line :
            /\ q = Quotes /\ c = <<":">>
            /\ WithoutLayout(q) = q /\ WithoutLayout(c) = c
            /\ WithoutLayout(key) = key /\ EscapedText(key) = key
    BY <2>1, Marks, MarksShown, WithoutLayoutSame, EscapedTextSame
  <2>3. Name(v, i + 1) = Cat(Cat(Cat(q, key), q), c)
    BY <1>5, <2>1, <2>2 DEF Name, JsonString, Quotes, Cat
  <2>4. PICK ps \in Seq(Line) : ps = <<q, key, q>>
    <3>1. \A S, x, y : x \in S /\ y \in S => <<x, y, x>> \in Seq(S)
      BY ONLY TRUE
    <3> QED
      BY <3>1
  <2>5. PICK qs \in Seq(Line) : qs = Append(ps, c) /\ qs = <<q, key, q, c>>
    <3>1. \A x, y, z, w : Append(<<x, y, z>>, w) = <<x, y, z, w>>
      BY FewMore
    <3>2. Append(ps, c) \in Seq(Line)
      BY ONLY <2>2, <2>4, AppendProperties
    <3> QED
      BY <2>4, <3>1, <3>2
  <2>6. FlattenSeq(qs) = Cat(Cat(Cat(q, key), q), c)
    <3>1. FlattenSeq(Append(ps, c)) = FlattenSeq(ps) \o c
      BY FlattenAppend DEF Line
    <3>2. FlattenSeq(ps) = (q \o key) \o q
      BY <2>4, FlattenFew
    <3> QED
      BY <2>5, <3>1, <3>2 DEF Cat
  <2>7. WithoutLayout(FlattenSeq(qs)) = FlattenSeq(qs) /\ FlattenSeq(qs) \in Line
    <3>1. PICK a \in Line : a = Cat(q, key) /\ WithoutLayout(a) = a
      BY <2>2, CatShows
    <3>2. PICK b \in Line : b = Cat(a, q) /\ WithoutLayout(b) = b
      BY <2>2, <3>1, CatShows
    <3> QED
      BY <2>2, <2>6, <3>1, <3>2, CatShows
  <2>8. KeyText(v, i) = qs \o (IF indent # 0 THEN <<<<"space">>>> ELSE <<>>)
    BY <1>5, <2>1, <2>2, <2>5 DEF KeyText
  <2>9. PICK bs \in Seq(Line) :
            /\ bs = IF indent # 0 THEN <<<<"space">>>> ELSE <<>>
            /\ WithoutLayout(FlattenSeq(bs)) = <<>>
    <3>0. WithoutLayout(<<"space">>) = <<>>
      <4>1. 0 \in Int
        OBVIOUS
      <4> QED
        BY <4>1, LayoutShowsNothing
    <3>1. PICK b \in Line : b = <<"space">> /\ WithoutLayout(b) = <<>>
      BY <3>0, Marks
    <3>2. <<b>> \in Seq(Line) /\ WithoutLayout(FlattenSeq(<<b>>)) = <<>>
      BY <3>1, FewMore, FlattenFew
    <3>3. <<>> \in Seq(Line) /\ WithoutLayout(FlattenSeq(<<>>)) = <<>>
      BY EmptySeq, FlattenEmpty, NothingWritten
    <3> QED
      BY <3>1, <3>2, <3>3
  <2>10. WithoutLayout(FlattenSeq(Cat(qs, bs))) = FlattenSeq(qs)
    <3>1. WithoutLayout(FlattenSeq(Cat(qs, bs)))
            = Cat(WithoutLayout(FlattenSeq(qs)), <<>>)
      <4>1. WithoutLayout(FlattenSeq(Cat(qs, bs)))
              = Cat(WithoutLayout(FlattenSeq(qs)),
                    WithoutLayout(FlattenSeq(bs)))
        BY ONLY qs \in Seq(Line), bs \in Seq(Line), PiecesShow
      <4> QED
        BY <2>9, <4>1
    <3> QED
      BY <2>7, <3>1, CatLaws
  <2> QED
    <3>1. KeyText(v, i) = Cat(qs, bs)
      BY <2>8, <2>9 DEF Cat
    <3> QED
      BY <1>1, <1>3, <2>3, <2>6, <2>10, <3>1
<1> QED
  BY <1>4, <1>5 DEF Containers

\* The calls there are, if the innermost is at one of its children.
LEMMA TopUnfinished ==
    ASSUME DumpInv, CallsInv, frames # <<>>,
           top.index < get_length(top.container)
    PROVE  Unfinished(frames)
<1>1. FramesInv
  BY DEF DumpInv
<1>2. PICK n \in Nat : n = Len(frames)
  BY <1>1 DEF FramesInv
<1>3. /\ frames \in Seq(Calls) /\ DOMAIN frames = 1 .. n /\ top = frames[n]
  BY <1>1, <1>2, LenProperties DEF FramesInv, Calls, top, Last
<1>4. ASSUME NEW k \in 1 .. n
      PROVE  /\ frames[k].container.type \in Containers
             /\ frames[k].index < get_length(frames[k].container)
  <2>1. frames[k].container.type \in Containers
    BY <1>1, <1>3 DEF FramesInv
  <2>2. CASE k = n
    BY <1>3, <2>1, <2>2
  <2>3. CASE k < n
    BY <1>2, <1>3, <2>1, <2>3 DEF CallsInv
  <2> QED
    BY <1>2, <2>2, <2>3
<1> QED
  BY <1>2, <1>3, <1>4 DEF Unfinished

\* The loop calls dump for a child, after its key.
LEMMA DumpChildSays ==
    ASSUME DumpInv, CallsInv, SaidInv, DumpInv', DumpChild
    PROVE  CallsInv' /\ SaidInv'
<1>1. /\ dump_pc = "loop" /\ pieces = <<>>
      /\ top.index # get_length(top.container)
      /\ Emit(NewLine(indent) \o KeyText(top.container, top.index), "dump")
      /\ current' = Child(top.container, top.index)
      /\ UNCHANGED <<indent, frames, pos>>
  BY DEF DumpChild, At
<1>2. /\ frames # <<>> /\ frames \in Seq(Calls)
      /\ top \in Calls /\ top.container.type \in Containers
      /\ top.index <= get_length(top.container)
      /\ Faithful[top.container]
      /\ Unfinished(Front(frames))
  <2>1. frames # <<>>
    BY <1>1 DEF DumpInv, FramesInv
  <2> QED
    BY <2>1, CallsAre
<1>3. PICK v \in Nodes, i \in Nat :
          /\ v = top.container /\ i = top.index
          /\ v.type \in Containers /\ Faithful[v]
          /\ i < get_length(v)
  <2>1. top.container \in Nodes /\ top.index \in Nat
    BY <1>2 DEF Calls
  <2>2. get_length(top.container) \in Nat
    BY <1>2, <2>1, LengthIsNat
  <2> QED
    BY <1>1, <1>2, <2>1, <2>2
<1>4. dump_pc' = "dump" /\ value' = value
  BY <1>1 DEF Emit
<1>5. CallsInv'
  <2>1. current' = Subject'
    BY <1>1, <1>2 DEF Subject, top
  <2>2. PICK n \in Nat : n = Len(frames)
    BY <1>2
  <2>3. DOMAIN frames = 1 .. n /\ top = frames[n]
    BY <1>2, <2>2, LenProperties DEF top, Last
  <2>4. \A k \in DOMAIN frames :
            frames[k].index < get_length(frames[k].container)
    <3>1. \A k \in 1 .. n : k = n \/ k < n
      BY <2>2
    <3> QED
      BY <1>3, <2>2, <2>3, <3>1 DEF CallsInv
  <2> QED
    BY <1>1, <1>4, <2>1, <2>4 DEF CallsInv
<1>6. PICK o \in Line, b \in Line, nm \in Line :
          /\ o = Outer(Front(frames)) /\ b = Begun(top)
          /\ nm = Name(v, i + 1)
  <2>1. Outer(Front(frames)) \in Line
    BY <1>2, OuterStep
  <2>2. Begun(top) \in Line
    BY <1>2, BegunInLine
  <2> QED
    BY <1>3, <2>1, <2>2, KeyShows
<1>7. Said = Cat(o, b)
  BY <1>1, <1>6 DEF Said, Cat
<1>8. Said' = Cat(o, Cat(b, nm))
  <2>1. Unfinished(frames)
    BY <1>2, <1>3, TopUnfinished
  <2>2. Outer(frames) = Outer(Front(frames)) \o Around(top)
    BY <1>2, <2>1, OuterStep DEF top
  <2>3. Said' = Outer(frames)
    BY <1>1, <1>4 DEF Said
  <2>4. Around(top) = b \o nm
    BY <1>3, <1>6 DEF Around
  <2> QED
    BY <1>6, <2>2, <2>3, <2>4 DEF Cat
<1>9. Said' = Said \o nm
  <2>1. Said' = Cat(Said, nm)
    BY <1>7, <1>8, CatLaws
  <2> QED
    BY <2>1 DEF Cat
<1>10. Said \in Line
  BY <1>7, CatLaws
<1>11. WithoutLayout(FlattenSeq(NewLine(indent) \o KeyText(v, i))) = nm
  <2>1. PICK ps \in Seq(Line), qs \in Seq(Line) :
            ps = NewLine(indent) /\ qs = KeyText(v, i)
    <3>1. indent \in Int
      BY DEF DumpInv, PiecesInv
    <3>2. NewLine(indent) \in Seq(Line)
      BY <3>1, LayoutIsText, TextsInLines
    <3> QED
      BY <1>3, <3>2, KeyShows
  <2>2. /\ WithoutLayout(FlattenSeq(ps)) = <<>>
        /\ WithoutLayout(FlattenSeq(qs)) = nm
    <3>1. indent \in Int
      BY DEF DumpInv, PiecesInv
    <3> QED
      BY <1>3, <1>6, <2>1, <3>1, LayoutShowsNothing, KeyShows
  <2>3. WithoutLayout(FlattenSeq(Cat(ps, qs)))
          = Cat(WithoutLayout(FlattenSeq(ps)), WithoutLayout(FlattenSeq(qs)))
    BY ONLY ps \in Seq(Line), qs \in Seq(Line), PiecesShow
  <2>4. WithoutLayout(FlattenSeq(Cat(ps, qs))) = nm
    BY <2>2, <2>3, CatLaws
  <2> QED
    BY <2>1, <2>4 DEF Cat
<1>12. Emit(NewLine(indent) \o KeyText(v, i), "dump")
  BY <1>1, <1>3
<1> QED
  BY <1>1, <1>5, <1>9, <1>10, <1>11, <1>12, EmitSays

\* The innermost call goes one on.
LEMMA AfterChildMoves ==
    ASSUME DumpInv, AfterChild,
           NEW next \in Nat, next = advance_index(top.container, top.index, 1)
    PROVE  /\ frames' \in Seq(Calls) /\ Len(frames') = Len(frames)
           /\ \A k \in 1 .. Len(frames) :
                 k # Len(frames) => frames'[k] = frames[k]
           /\ frames'[Len(frames)].container = top.container
           /\ frames'[Len(frames)].index = next
<1>1. frames # <<>> /\ frames \in Seq(Calls)
  BY DEF AfterChild, DumpInv, FramesInv, Calls
<1>2. PICK n : n = Len(frames) /\ n \in 1 .. Len(frames)
  BY <1>1, EmptySeq
<1>3. top = frames[n] /\ frames[n] \in Calls
  BY <1>1, <1>2, ElementOfSeq DEF top, Last
<1>4. PICK moved \in Calls :
          /\ moved = [frames[n] EXCEPT !.index = next]
          /\ moved.container = frames[n].container /\ moved.index = next
  <2>1. \A S, T, r, x :
            r \in [container : S, index : T] /\ x \in T =>
                /\ [r EXCEPT !.index = x] \in [container : S, index : T]
                /\ [r EXCEPT !.index = x].container = r.container
                /\ [r EXCEPT !.index = x].index = x
    BY ONLY TRUE
  <2>2. PICK f : f = frames[n] /\ f \in [container : Nodes, index : Nat]
    BY <1>3, Zenon DEF Calls
  <2>3. /\ [f EXCEPT !.index = next] \in [container : Nodes, index : Nat]
        /\ [f EXCEPT !.index = next].container = f.container
        /\ [f EXCEPT !.index = next].index = next
    BY ONLY <2>1, <2>2, next \in Nat
  <2>4. PICK moved : moved = [f EXCEPT !.index = next]
    OBVIOUS
  <2>5. moved \in Calls
    BY <2>3, <2>4, Zenon DEF Calls
  <2> QED
    BY <2>2, <2>3, <2>4, <2>5, Zenon
<1>5. frames' = [frames EXCEPT ![n] = moved]
  BY <1>2, <1>3, <1>4 DEF AfterChild
<1>6. /\ frames' \in Seq(Calls)
      /\ Len(frames') = Len(frames)
      /\ \A k \in 1 .. Len(frames) :
            frames'[k] = IF k = n THEN moved ELSE frames[k]
  BY ONLY <1>1, <1>2, <1>5, moved \in Calls, ExceptSeq
<1> QED
  BY <1>2, <1>3, <1>4, <1>6

\* dump comes back to the loop, which goes on behind the comma.
LEMMA AfterChildSays ==
    ASSUME DumpInv, CallsInv, SaidInv, DumpInv', AfterChild
    PROVE  CallsInv' /\ SaidInv'
<1>1. /\ dump_pc = "after" /\ pieces = <<>> /\ frames # <<>>
      /\ Emit(IF CommaAfter(top.index, get_length(top.container))
              THEN <<<<",">>>> ELSE <<>>, "loop")
  BY DEF AfterChild, At
<1>2. /\ frames \in Seq(Calls)
      /\ top \in Calls /\ top.container.type \in Containers
      /\ Faithful[top.container]
      /\ Unfinished(Front(frames)) /\ Unfinished(frames)
      /\ top.index < get_length(top.container)
  BY <1>1, CallsAre
<1>3. PICK v \in Nodes, i \in Nat, m \in Nat :
          /\ v = top.container /\ i = top.index /\ m = get_length(v)
          /\ v.type \in Containers /\ i < m
  <2>1. top.container \in Nodes /\ top.index \in Nat
    BY <1>2 DEF Calls
  <2>2. get_length(top.container) \in Nat
    BY <1>2, <2>1, LengthIsNat
  <2> QED
    BY <1>2, <2>1, <2>2
<1>4. PICK n \in Nat : n = Len(frames) /\ n # 0
  BY <1>1, <1>2, EmptySeq
<1>5. PICK fs : fs = frames'
  OBVIOUS
<1>6. /\ fs \in Seq(Calls) /\ Len(fs) = n /\ DOMAIN fs = 1 .. n
      /\ DOMAIN frames = 1 .. n
      /\ \A k \in 1 .. n : k # n => fs[k] = frames[k]
      /\ fs[n].container = v /\ fs[n].index = i + 1
      /\ frames[n] = top
  <2>1. advance_index(top.container, top.index, 1) = i + 1 /\ i + 1 \in Nat
    BY <1>3 DEF advance_index
  <2>2. /\ frames' \in Seq(Calls) /\ Len(frames') = Len(frames)
        /\ \A k \in 1 .. Len(frames) :
              k # Len(frames) => frames'[k] = frames[k]
        /\ frames'[Len(frames)].container = top.container
        /\ frames'[Len(frames)].index = i + 1
    BY <2>1, AfterChildMoves
  <2> QED
    BY <1>2, <1>3, <1>4, <1>5, <2>2, LenProperties DEF top, Last
<1>7. dump_pc' = "loop" /\ value' = value
  BY <1>1 DEF Emit
<1>8. CallsInv'
  <2>1. fs[1].container = value
    <3>1. fs[1].container = frames[1].container
      BY <1>3, <1>4, <1>6
    <3> QED
      BY <1>1, <3>1 DEF CallsInv
  <2>2. ASSUME NEW k \in 1 .. n
        PROVE  /\ Faithful[fs[k].container]
               /\ k < n => fs[k].index < get_length(fs[k].container)
               /\ k < n =>
                     fs[k + 1].container = Child(fs[k].container, fs[k].index)
    <3>1. CASE k = n
      BY <1>2, <1>3, <1>6, <3>1
    <3>2. CASE k < n
      <4>1. k + 1 \in 1 .. n /\ fs[k] = frames[k]
        BY <1>4, <1>6, <3>2
      <4>2. fs[k + 1].container = frames[k + 1].container
        BY <1>3, <1>6, <4>1
      <4> QED
        BY <1>4, <1>6, <3>2, <4>1, <4>2 DEF CallsInv
    <3> QED
      BY <1>4, <3>1, <3>2
  <2>3. value \in Nodes /\ Faithful[value]
    BY DEF CallsInv
  <2> QED
    BY <1>4, <1>5, <1>6, <1>7, <2>1, <2>2, <2>3 DEF CallsInv
<1>9. Front(fs) = Front(frames)
  <2>1. /\ Front(frames) \in Seq(Calls) /\ Len(Front(frames)) = n - 1
        /\ \A k \in 1 .. n - 1 : Front(frames)[k] = frames[k]
    BY <1>1, <1>2, <1>4, FrontOfSeq
  <2>2. fs # <<>>
    BY <1>4, <1>6, EmptySeq
  <2>3. /\ Front(fs) \in Seq(Calls) /\ Len(Front(fs)) = n - 1
        /\ \A k \in 1 .. n - 1 : Front(fs)[k] = fs[k]
    BY <1>6, <2>2, FrontOfSeq
  <2>4. \A k \in 1 .. n - 1 : fs[k] = frames[k]
    BY <1>4, <1>6
  <2>5. \A k \in 1 .. Len(Front(fs)) : Front(fs)[k] = Front(frames)[k]
    BY <2>1, <2>3, <2>4
  <2> QED
    BY ONLY <2>1, <2>3, <2>5, SeqEqual
<1>10. PICK items \in Seq(Line) :
           items = JsonItems(Json, v) /\ Len(items) = m
           /\ items[i + 1] = JsonItem(Json, v, i + 1)
  <2>1. i + 1 \in 1 .. get_length(v)
    BY <1>3
  <2> QED
    BY <1>3, <2>1, ItemsInLine, JsonIs
<1>11. PICK o \in Line, op \in Line, x \in Line, nm \in Line, j \in Line,
            c \in Line :
           /\ o = Outer(Front(frames)) /\ op = Opening(v)
           /\ x = FlattenSeq(SubSeq(items, 1, i))
           /\ nm = Name(v, i + 1) /\ j = Json[Child(v, i)]
           /\ c = Comma(v, i + 1)
  <2>1. Outer(Front(frames)) \in Line
    BY <1>2, OuterStep
  <2>2. Opening(v) \in Line
    BY Marks DEF Opening
  <2>3. FlattenSeq(SubSeq(items, 1, i)) \in Line
    BY <1>3, <1>10, FlattenPrefix DEF Line
  <2>4. Name(v, i + 1) \in Line /\ Comma(v, i + 1) \in Line
    <3>1. i + 1 \in 1 .. get_length(v)
      BY <1>3
    <3> QED
      BY <1>3, <3>1, NameInLine
  <2>5. Json[Child(v, i)] \in Line
    <3>1. Child(v, i) \in Nodes
      BY <1>3, ChildrenAreNodes
    <3> QED
      BY <3>1, JsonIs
  <2> QED
    BY <2>1, <2>2, <2>3, <2>4, <2>5
<1>12. Said = Cat(Cat(o, Cat(Cat(op, x), nm)), j)
  <2>1. Said = Outer(frames) \o Json[Subject]
    BY <1>1 DEF Said
  <2>2. Subject = Child(v, i)
    BY <1>1, <1>3 DEF Subject
  <2>3. Outer(frames) = Outer(Front(frames)) \o Around(top)
    BY <1>1, <1>2, OuterStep DEF top
  <2>4. Around(top) = Cat(Cat(op, x), nm)
    BY <1>3, <1>10, <1>11 DEF Around, Begun, Cat
  <2> QED
    BY <1>11, <2>1, <2>2, <2>3, <2>4 DEF Cat
<1>13. Said' = Cat(o, Cat(op, Cat(x, Cat(Cat(nm, j), c))))
  <2>1. Said' = Outer(Front(fs)) \o Begun(Last(fs))
    BY <1>5, <1>7 DEF Said, top
  <2>2. Last(fs) = fs[n]
    BY <1>6 DEF Last
  <2>3. Begun(fs[n]) = Opening(v) \o FlattenSeq(SubSeq(items, 1, i + 1))
    BY <1>6, <1>10 DEF Begun
  <2>4. FlattenSeq(SubSeq(items, 1, i + 1)) = x \o items[i + 1]
    BY <1>3, <1>10, <1>11, FlattenPrefix DEF Line
  <2>5. items[i + 1] = Cat(Cat(nm, j), c)
    <3>1. (i + 1) - 1 = i
      OBVIOUS
    <3> QED
      BY <1>10, <1>11, <3>1 DEF JsonItem, Cat
  <2> QED
    BY <1>9, <1>11, <2>1, <2>2, <2>3, <2>4, <2>5 DEF Cat
<1>14. Said' = Said \o c /\ Said \in Line
  <2>1. PICK ox \in Line, oxn \in Line, nj \in Line, njc \in Line,
             jc \in Line, all \in Line :
            /\ ox = Cat(op, x) /\ oxn = Cat(ox, nm) /\ nj = Cat(nm, j)
            /\ njc = Cat(nj, c) /\ jc = Cat(j, c) /\ all = Cat(oxn, j)
    <3>1. PICK ox \in Line : ox = Cat(op, x)
      BY CatLaws
    <3>2. PICK oxn \in Line : oxn = Cat(ox, nm)
      BY CatLaws
    <3>3. PICK nj \in Line : nj = Cat(nm, j)
      BY CatLaws
    <3> QED
      BY <3>1, <3>2, <3>3, CatLaws
  <2>2. Cat(op, Cat(x, njc)) = Cat(all, c)
    <3>1. Cat(op, Cat(x, njc)) = Cat(ox, njc)
      BY <2>1, CatLaws
    <3>2. njc = Cat(nm, jc)
      BY <2>1, CatLaws
    <3>3. Cat(ox, Cat(nm, jc)) = Cat(oxn, jc)
      BY <2>1, CatLaws
    <3>4. Cat(oxn, jc) = Cat(all, c)
      BY <2>1, CatLaws
    <3> QED
      BY <3>1, <3>2, <3>3, <3>4
  <2>3. Said = Cat(o, all) /\ Said \in Line
    <3>1. Said = Cat(Cat(o, oxn), j)
      BY <1>12, <2>1
    <3> QED
      BY <2>1, <3>1, CatLaws
  <2>4. Said' = Cat(o, Cat(all, c))
    BY <1>13, <2>1, <2>2
  <2>5. Said' = Cat(Said, c)
    BY <2>3, <2>4, CatLaws
  <2> QED
    BY <2>3, <2>5 DEF Cat
<1>15. WithoutLayout(FlattenSeq(IF CommaAfter(i, m) THEN <<<<",">>>> ELSE <<>>))
         = c
  <2>1. CASE CommaAfter(i, m)
    <3>1. PICK w \in Line : w = <<",">> /\ WithoutLayout(w) = w
      BY MarksShown
    <3>2. c = w
      BY <1>3, <1>11, <2>1, <3>1 DEF Comma, CommaAfter
    <3>3. FlattenSeq(<<w>>) = w
      BY FlattenFew
    <3> QED
      BY <2>1, <3>1, <3>2, <3>3
  <2>2. CASE ~CommaAfter(i, m)
    <3>1. c = <<>>
      BY <1>3, <1>11, <2>2 DEF Comma, CommaAfter
    <3> QED
      BY <2>2, <3>1, FlattenEmpty, NothingWritten
  <2> QED
    BY <2>1, <2>2
<1>16. Emit(IF CommaAfter(i, m) THEN <<<<",">>>> ELSE <<>>, "loop")
  BY <1>1, <1>3
<1> QED
  BY <1>1, <1>8, <1>14, <1>15, <1>16, EmitSays

\* The calls there are, once the innermost is back.
LEMMA CloseContainerReturns ==
    ASSUME DumpInv, CallsInv, CloseContainer
    PROVE  CallsInv' /\ Subject' = top.container
<1>1. /\ dump_pc = "loop" /\ frames' = Front(frames)
      /\ dump_pc' = "after" /\ value' = value
  BY DEF CloseContainer, At, Emit
<1>2. frames # <<>> /\ frames \in Seq(Calls)
  BY <1>1, CallsAre DEF DumpInv, FramesInv
<1>3. PICK n \in Nat : n = Len(frames) /\ n # 0 /\ DOMAIN frames = 1 .. n
  BY <1>2, EmptySeq, LenProperties
<1>4. PICK m \in Nat : n = m + 1
  <2>1. n - 1 \in Nat /\ n = (n - 1) + 1
    BY <1>3
  <2> QED
    BY <2>1
<1>5. PICK fs : fs = frames'
  OBVIOUS
<1>6. /\ fs \in Seq(Calls) /\ Len(fs) = m /\ DOMAIN fs = 1 .. m
      /\ \A k \in 1 .. m : fs[k] = frames[k]
  <2>1. /\ Front(frames) \in Seq(Calls)
        /\ Len(Front(frames)) = Len(frames) - 1
        /\ \A k \in 1 .. Len(Front(frames)) : Front(frames)[k] = frames[k]
    BY ONLY <1>2, FrontOfSeq
  <2>2. Len(frames) - 1 = m
    BY <1>3, <1>4
  <2> QED
    BY <1>1, <1>5, <2>1, <2>2, LenProperties
<1>7. top = frames[n]
  BY <1>3 DEF top, Last
<1>8. ASSUME NEW k \in 1 .. m
      PROVE  /\ k \in DOMAIN frames /\ k < Len(frames)
             /\ k < m => k + 1 \in 1 .. m
  BY <1>3, <1>4
<1>9. CASE m = 0
  <2>1. fs = <<>> /\ frames[n] = frames[1]
    BY <1>3, <1>4, <1>6, <1>9, EmptySeq
  <2>2. Subject' = value
    BY <1>1, <1>5, <2>1 DEF Subject
  <2>3. top.container = value
    BY <1>2, <1>7, <2>1 DEF CallsInv
  <2>4. CallsInv'
    BY <1>1, <1>5, <1>6, <1>9, <2>1 DEF CallsInv
  <2> QED
    BY <2>2, <2>3, <2>4
<1>10. CASE m # 0
  <2>1. fs # <<>> /\ 1 \in 1 .. m /\ m \in 1 .. m /\ Last(fs) = fs[m]
    BY <1>4, <1>6, <1>10, EmptySeq DEF Last
  <2>2. Subject' = Child(frames[m].container, frames[m].index)
    BY <1>5, <1>6, <2>1 DEF Subject, top
  <2>3. top.container = Child(frames[m].container, frames[m].index)
    BY <1>4, <1>7, <1>8, <2>1 DEF CallsInv
  <2>4. CallsInv'
    <3>1. fs[1].container = value
      BY <1>2, <1>6, <2>1 DEF CallsInv
    <3>2. ASSUME NEW k \in 1 .. m
          PROVE  /\ Faithful[fs[k].container]
                 /\ fs[k].index < get_length(fs[k].container)
                 /\ k < m =>
                       fs[k + 1].container
                           = Child(fs[k].container, fs[k].index)
      <4>1. fs[k] = frames[k] /\ (k < m => fs[k + 1] = frames[k + 1])
        BY <1>6, <1>8
      <4> QED
        BY <1>8, <4>1 DEF CallsInv
    <3>3. value \in Nodes /\ Faithful[value]
      BY DEF CallsInv
    <3> QED
      BY <1>1, <1>5, <1>6, <3>1, <3>2, <3>3 DEF CallsInv
  <2> QED
    BY <2>2, <2>3, <2>4
<1> QED
  BY <1>9, <1>10

\* And says all of the container.
LEMMA CloseContainerSays ==
    ASSUME DumpInv, CallsInv, SaidInv, DumpInv', CloseContainer
    PROVE  CallsInv' /\ SaidInv'
<1>1. /\ dump_pc = "loop" /\ pieces = <<>>
      /\ top.index = get_length(top.container)
      /\ Emit((IF indent # -1 THEN <<<<"newline">>>> \o Spaces(indent')
                              ELSE <<>>)
                  \o <<Closing(top.container)>>, "after")
      /\ frames' = Front(frames)
  BY DEF CloseContainer, At
<1>2. CallsInv' /\ Subject' = top.container
  BY CloseContainerReturns
<1>3. /\ top \in Calls /\ top.container.type \in Containers
      /\ Unfinished(Front(frames)) /\ top.index <= get_length(top.container)
  <2>1. frames # <<>>
    BY <1>1 DEF DumpInv, FramesInv
  <2> QED
    BY <2>1, CallsAre
<1>4. PICK v \in Nodes :
          v = top.container /\ v.type \in Containers
  BY <1>3 DEF Calls
<1>5. PICK items \in Seq(Line) :
          items = JsonItems(Json, v) /\ Len(items) = get_length(v)
  BY <1>4, ItemsInLine, JsonIs
<1>6. PICK o \in Line, op \in Line, x \in Line, cl \in Line :
          /\ o = Outer(Front(frames)) /\ op = Opening(v)
          /\ x = FlattenSeq(items) /\ cl = Closing(v)
          /\ WithoutLayout(cl) = cl
  <2>1. Outer(Front(frames)) \in Line
    BY <1>3, OuterStep
  <2>2. FlattenSeq(items) \in Line
    BY FlattenInSeq DEF Line
  <2>3. Opening(v) \in Line /\ Closing(v) \in Line
    BY Marks DEF Opening, Closing
  <2>4. WithoutLayout(Closing(v)) = Closing(v)
    BY MarksShown DEF Closing
  <2> QED
    BY <2>1, <2>2, <2>3, <2>4
<1>7. Said = Cat(o, Cat(op, x))
  <2>1. SubSeq(items, 1, Len(items)) = items
    BY SubSeqFull
  <2>2. Begun(top) = op \o x
    BY <1>1, <1>4, <1>5, <1>6, <2>1 DEF Begun
  <2> QED
    BY <1>1, <1>6, <2>2 DEF Said, Cat
<1>8. Said' = Cat(o, Cat(Cat(op, x), cl))
  <2>1. Json[v] = (op \o x) \o cl
    <3>1. Json[v] = JsonText(Json, v)
      BY JsonIs
    <3>2. CASE v.type = "array"
      BY <1>5, <1>6, <3>1, <3>2 DEF JsonText, Opening, Closing
    <3>3. CASE v.type = "object"
      BY <1>5, <1>6, <3>1, <3>3 DEF JsonText, Opening, Closing
    <3> QED
      BY <1>4, <3>2, <3>3 DEF Containers
  <2>2. dump_pc' = "after"
    BY <1>1 DEF Emit
  <2>3. Said' = Outer(frames') \o Json[Subject']
    BY <2>2 DEF Said
  <2> QED
    BY <1>1, <1>2, <1>4, <1>6, <2>1, <2>3 DEF Cat
<1>9. Said' = Said \o cl /\ Said \in Line
  <2>1. Said' = Cat(Said, cl) /\ Said \in Line
    <3>1. PICK b \in Line : b = Cat(op, x)
      BY CatLaws
    <3>2. Said = Cat(o, b) /\ Said' = Cat(o, Cat(b, cl))
      BY <1>7, <1>8, <3>1
    <3> QED
      BY <3>2, CatLaws
  <2> QED
    BY <2>1 DEF Cat
<1>10. PICK ls \in Seq(Line) :
           /\ ls = IF indent # -1 THEN <<<<"newline">>>> \o Spaces(indent')
                                  ELSE <<>>
           /\ WithoutLayout(FlattenSeq(ls)) = <<>>
  <2>1. indent' \in Int
    BY DEF DumpInv, PiecesInv
  <2>2. PICK i \in Int : i = indent'
    BY <2>1
  <2>3. WithoutLayout(FlattenSeq(<<<<"newline">>>> \o Spaces(i))) = <<>>
    BY LayoutShowsNothing
  <2>4. <<<<"newline">>>> \o Spaces(i) \in Seq(Line)
    <3>1. Spaces(i) \in Seq(Line)
      BY LayoutIsText, TextsInLines
    <3>2. <<<<"newline">>>> \in Seq(Line)
      BY Marks, FewMore, Zenon
    <3> QED
      BY <3>1, <3>2, ConcatProperties, Zenon
  <2>5. <<>> \in Seq(Line) /\ WithoutLayout(FlattenSeq(<<>>)) = <<>>
    BY EmptySeq, FlattenEmpty, NothingWritten
  <2> QED
    BY <2>2, <2>3, <2>4, <2>5
<1>11. WithoutLayout(FlattenSeq(ls \o <<cl>>)) = cl
  <2>1. PICK qs \in Seq(Line) : qs = <<cl>> /\ WithoutLayout(FlattenSeq(qs)) = cl
    BY <1>6, FewMore, FlattenFew
  <2>2. WithoutLayout(FlattenSeq(Cat(ls, qs)))
          = Cat(WithoutLayout(FlattenSeq(ls)), WithoutLayout(FlattenSeq(qs)))
    BY ONLY ls \in Seq(Line), qs \in Seq(Line), PiecesShow
  <2>3. WithoutLayout(FlattenSeq(Cat(ls, qs))) = cl
    BY <1>10, <2>1, <2>2, CatLaws
  <2> QED
    BY <2>1, <2>3 DEF Cat
<1>12. Emit(ls \o <<cl>>, "after")
  BY <1>1, <1>4, <1>6, <1>10
<1> QED
  BY <1>1, <1>2, <1>9, <1>11, <1>12, EmitSays

\* The end of write.
LEMMA ReturnSizeSays ==
    ASSUME DumpInv, CallsInv, SaidInv, DumpInv', ReturnSize
    PROVE  CallsInv' /\ SaidInv'
<1>1. /\ dump_pc = "after" /\ pieces = <<>> /\ frames = <<>>
      /\ dump_pc' = "~FileOut"
      /\ UNCHANGED <<value, current, frames, pos, pieces, emitted>>
  BY DEF ReturnSize, At, fileVars
<1>2. Said = Json[value]
  <2>1. Said = Outer(<<>>) \o Json[value]
    BY <1>1 DEF Said, Subject
  <2>2. Json[value] \in Line
    BY JsonIs DEF CallsInv
  <2> QED
    BY <2>1, <2>2, OuterNone, LineConcat
<1>3. Said' = Json[value]
  BY <1>1 DEF Said
<1>4. CallsInv'
  BY <1>1 DEF CallsInv
<1>5. emitted' \o FlattenSeq(pieces') = emitted \o FlattenSeq(pieces)
  BY <1>1
<1> QED
  BY <1>2, <1>3, <1>4, <1>5 DEF SaidInv

\* The flush changes nothing that was said.
LEMMA FlushSays ==
    ASSUME DumpInv, CallsInv, SaidInv, Flush
    PROVE  CallsInv' /\ SaidInv'
<1>1. /\ dump_pc = "~FileOut" /\ dump_pc' = "written"
      /\ UNCHANGED <<value, current, frames, pos, pieces, emitted>>
  BY DEF Flush
<1>2. Said = Json[value] /\ Said' = Json[value]
  BY <1>1 DEF Said
<1>3. CallsInv'
  BY <1>1 DEF CallsInv
<1> QED
  BY <1>1, <1>2, <1>3 DEF SaidInv

\* What is said, if everything dump is called with is written right.
FaithfulInv == Faithful[value] => CallsInv /\ SaidInv

\* It holds when write is called.
LEMMA FaithfulInitial == DumpInit => FaithfulInv
<1> SUFFICES ASSUME DumpInit, Faithful[value] PROVE CallsInv /\ SaidInv
  BY DEF FaithfulInv
<1>1. /\ dump_pc = "dump" /\ value \in Nodes /\ current = value
      /\ frames = <<>> /\ pieces = <<>> /\ emitted = <<>>
  BY NodesAssumption DEF DumpInit
<1>2. CallsInv
  BY <1>1, LenProperties DEF CallsInv, Subject
<1>3. Said = <<>>
  BY <1>1, OuterNone DEF Said
<1>4. <<>> \o <<>> = <<>>
  BY WrittenSingly, LineConcat
<1> QED
  BY <1>1, <1>2, <1>3, <1>4, FlattenEmpty, NothingWritten DEF SaidInv

\* Every step says what the recursion of dump should.
LEMMA FaithfulStep ==
    ASSUME DumpInv, FaithfulInv, DumpInv', [DumpNext]_dumpVars
    PROVE  FaithfulInv'
<1>1. value' = value
  BY DEF DumpNext, Write, DumpString, StringPiece, DumpScalar, DumpContainer,
         DumpChild, AfterChild, CloseContainer, ReturnSize, Flush, Emit,
         dumpVars
<1> SUFFICES ASSUME Faithful[value] PROVE (CallsInv /\ SaidInv)'
  BY <1>1 DEF FaithfulInv
<1>2. CallsInv /\ SaidInv
  BY DEF FaithfulInv
<1>3. CASE UNCHANGED dumpVars
  BY <1>2, <1>3
  DEF dumpVars, fileVars, CallsInv, SaidInv, Said, Subject, top
<1> QED
  BY <1>2, <1>3, WriteSays, DumpStringSays, StringPieceSays, DumpScalarSays,
     DumpContainerSays, DumpChildSays, AfterChildSays, CloseContainerSays,
     ReturnSizeSays, FlushSays
  DEF DumpNext

\* A value that holds nothing dump is known to write otherwise: the file that
\* was written has its JSON text, with layout only between the tokens, whatever
\* was nested in it, and however often the buffer was flushed or bypassed.
THEOREM FileSaysTheValue == Spec => []SerializesFaithful
<1> DEFINE Inv == DumpIdle \/ (DumpInv /\ FaithfulInv)
<1>1. Init => Inv
  BY DumpInitial, FaithfulInitial DEF Init
<1>2. Inv /\ [Next]_vars => Inv'
  <2> SUFFICES ASSUME Inv, [Next]_vars PROVE Inv'
    OBVIOUS
  <2>1. [DumpNext]_dumpVars
    BY DEF Next, vars
  <2>2. DumpIdle => DumpIdle'
    BY <2>1, IdleStays
  <2> QED
    BY <2>1, <2>2, DumpStep, FaithfulStep
<1>3. Inv => SerializesFaithful
  <2>1. ASSUME DumpInv, FaithfulInv, dump_pc = "written", Faithful[value]
        PROVE  WithoutLayout(file) = Json[value]
    <3>1. pieces = <<>> /\ file \in Line /\ file \o <<>> = emitted
      BY <2>1, TextInLine DEF DumpInv, FileInv
    <3>2. file = emitted /\ emitted \o <<>> = emitted
      BY <3>1, LineConcat
    <3>3. Said = Json[value] /\ SaidInv
      BY <2>1 DEF Said, FaithfulInv
    <3> QED
      BY <3>1, <3>2, <3>3, FlattenEmpty DEF SaidInv
  <2>2. DumpIdle => SerializesFaithful
    BY DEF DumpIdle, SerializesFaithful
  <2> QED
    BY <2>1, <2>2 DEF SerializesFaithful, Serialized
<1> QED
  BY <1>1, <1>2, <1>3, PTL DEF Spec
=============================================================================
