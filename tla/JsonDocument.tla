---------------------------- MODULE JsonDocument ----------------------------
(***************************************************************************)
(* What parsing promises, without memory: a document is built value by     *)
(* value, each value going to the innermost structure that is still open,  *)
(* and what is handed out in the end is exactly what was put in.           *)
(***************************************************************************)
EXTENDS Naturals, Sequences, Functions

CONSTANTS
    Scalars,    \* the strings, numbers, and literals of the text
    Keys,       \* the keys of the text
    KeyOrder,   \* the pairs of keys of which the first goes before the second
    SortAbove   \* an object of more members has them sorted

VARIABLES
    open,       \* the structures still open, the innermost last
    status,     \* how far the document is
    document    \* the root, once it is closed

docVars == <<open, status, document>>

Kinds == {"array", "object"}

\* No key is pending, and no document is there: a value of the same shape as
\* a key or a structure, but none of them.
None == <<>>

\* A structure: its kind, and its values or its <<key, value>> members.
Structure(kind, items) == <<kind, items>>

\* An open structure has, in an object, the key that awaits its value.
Frame(kind, items, key) == [kind |-> kind, items |-> items, key |-> key]

AwaitsValue(f) == f.kind = "array" \/ f.key # None
AwaitsKey(f) == f.kind = "object" /\ f.key = None
MayClose(f) == f.kind = "array" \/ f.key = None

WithValue(f, v) ==
    Frame(f.kind,
          Append(f.items, IF f.kind = "array" THEN v ELSE <<f.key, v>>),
          None)

Innermost == open[Len(open)]
Enclosing == SubSeq(open, 1, Len(open) - 1)
PutIn(frames, v) ==
    [frames EXCEPT ![Len(frames)] = WithValue(@, v)]

\* With one of these values, or one of these keys, in the innermost structure.
WithOneOf(frames, vs) == {PutIn(frames, v) : v \in vs}
WithKey(frames, ks) == {[frames EXCEPT ![Len(frames)].key = k] : k \in ks}

\* The members of an object stay as they came, those of a large one are put in
\* the order of their keys.
Arrangements(f) ==
    LET n == Len(f.items)
        inOrder(q) == \A i, j \in 1 .. n :
            i < j => <<f.items[q[j]][1], f.items[q[i]][1]>> \notin KeyOrder
    IN  IF f.kind = "object" /\ n > SortAbove
        THEN {[i \in 1 .. n |-> f.items[q[i]]] :
                    q \in {b \in Bijection(1 .. n, 1 .. n) : inOrder(b)}}
        ELSE {f.items}

-----------------------------------------------------------------------------
Init == open = <<>> /\ status = "start" /\ document = None

OpenRoot ==
    /\ status = "start"
    /\ \E kind \in Kinds : open' = <<Frame(kind, <<>>, None)>>
    /\ status' = "building"
    /\ UNCHANGED document

Key ==
    /\ status = "building"
    /\ AwaitsKey(Innermost)
    /\ open' \in WithKey(open, Keys)
    /\ UNCHANGED <<status, document>>

Scalar ==
    /\ status = "building"
    /\ AwaitsValue(Innermost)
    /\ open' \in WithOneOf(open, Scalars)
    /\ UNCHANGED <<status, document>>

OpenNested ==
    /\ status = "building"
    /\ AwaitsValue(Innermost)
    /\ \E kind \in Kinds : open' = Append(open, Frame(kind, <<>>, None))
    /\ UNCHANGED <<status, document>>

Close ==
    /\ status = "building"
    /\ MayClose(Innermost)
    /\ \E items \in Arrangements(Innermost) :
          LET v == Structure(Innermost.kind, items)
          IN  IF Len(open) = 1
              THEN open' = <<>> /\ status' = "closed" /\ document' = v
              ELSE /\ open' = PutIn(Enclosing, v)
                   /\ UNCHANGED <<status, document>>

\* The text ends inside a structure: all that is left is to say so.
RunOut ==
    /\ status = "building"
    /\ open' = <<>>
    /\ status' = "exhausted"
    /\ UNCHANGED document

Accept ==
    /\ status = "closed"
    /\ status' = "accepted"
    /\ UNCHANGED <<open, document>>

Reject ==
    /\ status \notin {"accepted", "rejected"}
    /\ open' = <<>>
    /\ status' = "rejected"
    /\ document' = None

Next ==
    \/ OpenRoot
    \/ Key
    \/ Scalar
    \/ OpenNested
    \/ Close
    \/ RunOut
    \/ Accept
    \/ Reject

Spec == Init /\ [][Next]_docVars
=============================================================================
