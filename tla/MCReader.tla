------------------------------ MODULE MCReader -------------------------------
(***************************************************************************)
(* The objects DocumentReader looks keys up in, and the values it writes.  *)
(***************************************************************************)
EXTENDS Serialization

\* "", two keys of one byte, and two of two.
FiveKeys == {Key(0, 0), Key(1, 97), Key(1, 98), Key(2, 97), Key(2, 353)}
Longest == 5

\* Any keys in any order, twice or more among them, up to the threshold; in
\* order above it.
AllObjects ==
    {o \in UNION {[1 .. n -> FiveKeys] : n \in 0 .. Longest} :
        Len(o) > SortAbove => InOrder(o)}
AllWanted == FiveKeys \cup {Key(1, 0), Key(3, 0), Key(2, 98)}

String(s) == [type |-> "string", text |-> s]
Whole(n) == [type |-> "integer", number |-> n]
Finite(negative, n, tail) ==
    [type |-> "double", class |-> "finite", negative |-> negative,
     millionths |-> n, tail |-> tail]
Unbounded(negative) ==
    [type |-> "double", class |-> "infinite", negative |-> negative]
NotANumber == [type |-> "double", class |-> "nan", negative |-> TRUE]
Array(s) == [type |-> "array", elements |-> s]
Object(s) == [type |-> "object", members |-> s]
Member(k, v) == [key |-> k, value |-> v]

Constant(name) == [type |-> name]
Scalars ==
    {Constant("null"), Constant("true"), Constant("false"),
     Whole(7), Whole(-120), Finite(TRUE, 12500000, <<>>), String(<<>>),
     String(<<"c", "c", "c", "c">>), String(<<"c", "quote", "c">>),
     String(<<"lf", "backslash">>), String(<<"tab">>)}
ShortKeys == {<<>>, <<"k">>, <<"k", "l", "m">>, <<"quote">>}

\* Doubles that six decimals do not tell, 1e-10 among them, and the strings of
\* one control character.
Lossy ==
    {Finite(FALSE, 0, <<"0", "0", "0", "1">>), Finite(FALSE, 999999, <<"5">>),
     Finite(FALSE, 1000000, <<"5">>), Finite(TRUE, 2, <<"5", "1">>),
     Unbounded(FALSE), Unbounded(TRUE), NotANumber}
        \cup {String(<<c>>) : c \in {"cr", "bs", "ff", "nul", "esc"}}

UpTo(n, S) == UNION {[1 .. k -> S] : k \in 0 .. n}

Flat ==
    {Array(s) : s \in UpTo(2, Scalars)}
        \cup {Object(s) : s \in UpTo(1, {Member(k, v) : k \in ShortKeys,
                                                      v \in Scalars})}
        \cup Scalars \cup Lossy \cup {Array(<<v>>) : v \in Lossy}
        \cup {Object(<<Member(<<"cr">>, Whole(7))>>)}
FewScalars == {Constant("null"), String(<<"quote">>)}
FewMembers == {Member(<<"k">>, v) : v \in FewScalars}
Inner == {Array(s) : s \in UpTo(2, FewScalars)}
             \cup {Object(s) : s \in UpTo(2, FewMembers)}
Nested ==
    {Array(<<a, b>>) : a, b \in Inner \cup {Constant("false")}}
        \cup {Array(<<a, b, a>>) : a \in Inner, b \in FewScalars}
        \cup {Object(<<Member(<<"k">>, a), Member(<<>>, b)>>) :
                 a, b \in Inner \cup {Constant("false")}}
        \cup {Array(<<Array(<<a>>)>>) : a \in Inner}

AllCharacters ==
    {"[", "]", "{", "}", ",", ":", "newline", "space", "quote", "backslash",
     "lf", "tab", "cr", "bs", "ff", "nul", "esc",
     "n", "u", "l", "f", "a", "s", "e", "r", "t", "i", "c", "k", "m",
     "-", ".", "0", "1", "2", "3", "4", "5", "6", "7", "8", "9"}

AllValues == Flat \cup Nested
AllNodes == AllValues \cup Scalars \cup FewScalars \cup Inner
                \cup {Array(<<a>>) : a \in Inner}

RECURSIVE HeightOf(_)
HeightOf(v) ==
    IF NodesIn(v) = {} THEN 0
    ELSE 1 + Max({HeightOf(c) : c \in NodesIn(v)})
AllHeights == [v \in AllNodes |-> HeightOf(v)]
=============================================================================
