---------------------------- MODULE Serialization ----------------------------
(***************************************************************************)
(* What a file that was written says: the JSON text of a value, against    *)
(* which what Dump writes is compared.                                     *)
(***************************************************************************)
EXTENDS DocumentReader

CONSTANT
    Height     \* how deep every node is nested

NodesIn(v) ==
    IF v.type \in Containers
    THEN {Child(v, i) : i \in 0 .. get_length(v) - 1} ELSE {}

\* An AST is finite: nothing is nested in itself.
ASSUME HeightAssumption ==
    /\ Height \in [Nodes -> Nat]
    /\ \A v \in Nodes : \A c \in NodesIn(v) : Height[c] < Height[v]

\* Layout is told from the same characters within a token by another name.
Layout == {"newline", "space"}

ASSUME LayoutAssumption ==
    \A v \in Nodes :
        /\ v.type = "string" => ToSet(v.text) \cap Layout = {}
        /\ v.type \in {"integer", "double"} => ToSet(to_string(v)) \cap Layout = {}
        /\ v.type = "object" =>
              \A i \in DOMAIN v.members :
                  ToSet(v.members[i].key) \cap Layout = {}

WithoutLayout(s) ==
    FlattenSeq([i \in 1 .. Len(s) |->
                  IF s[i] \in Layout THEN <<>> ELSE <<s[i]>>])

-----------------------------------------------------------------------------
(***************************************************************************)
(* The JSON text of a value, without any layout.                           *)
(***************************************************************************)
\* A string must have no quotation mark, no backslash and no control character,
\* from 0 to 31, but in an escape.
ShortEscape ==
    [quote |-> "quote", backslash |-> "backslash", lf |-> "n", tab |-> "t",
     cr |-> "r", bs |-> "b", ff |-> "f"]
OtherControl == [nul |-> <<"0", "0">>, esc |-> <<"1", "b">>]
MustEscape == DOMAIN ShortEscape \cup DOMAIN OtherControl

Escape(c) ==
    CASE c \in DOMAIN ShortEscape -> <<"backslash", ShortEscape[c]>>
      [] c \in DOMAIN OtherControl ->
             <<"backslash", "u", "0", "0">> \o OtherControl[c]
      [] OTHER -> <<c>>

EscapedText(s) == FlattenSeq([i \in 1 .. Len(s) |-> Escape(s[i])])
JsonString(s) == <<"quote">> \o EscapedText(s) \o <<"quote">>

\* The number in full, if it is one: JSON has no other.
JsonNumber(v) ==
    CASE v.type = "integer" -> to_string(v)
      [] v.type = "double" /\ v.class = "finite" ->
             Sign(v.negative) \o FixedPoint(v.millionths) \o v.tail
      [] v.type = "double" /\ v.class # "finite" -> <<>>

\* What stands in front of the i-th child in its container, and behind it.
Name(v, i) ==
    IF v.type = "array" THEN <<>>
    ELSE JsonString(v.members[i].key) \o <<":">>
Comma(v, i) == IF i < get_length(v) THEN <<",">> ELSE <<>>

\* The JSON text of a container, given those of its children.
JsonItem(json, v, i) == Name(v, i) \o json[Child(v, i - 1)] \o Comma(v, i)
JsonItems(json, v) == [i \in 1 .. get_length(v) |-> JsonItem(json, v, i)]

JsonText(json, v) ==
    CASE v.type = "array" ->
             <<"[">> \o FlattenSeq(JsonItems(json, v)) \o <<"]">>
      [] v.type = "object" ->
             <<"{">> \o FlattenSeq(JsonItems(json, v)) \o <<"}">>
      [] v.type = "string" -> JsonString(v.text)
      [] v.type \in {"integer", "double"} -> JsonNumber(v)
      [] v.type = "null" -> <<"n", "u", "l", "l">>
      [] v.type = "false" -> <<"f", "a", "l", "s", "e">>
      [] v.type = "true" -> <<"t", "r", "u", "e">>

Json[v \in Nodes] == JsonText(Json, v)

\* Where dump is known to write something else: true, a double that is infinite,
\* no number, or not done after six decimals, a control character in a string
\* but the line feed, and any character in a key that would have to be escaped.
WrittenRight(v) ==
    /\ v.type # "true"
    /\ v.type = "double" => v.class = "finite" /\ v.tail = <<>>
    /\ v.type = "string" =>
          ToSet(v.text) \cap MustEscape \subseteq {"quote", "backslash", "lf"}
    /\ v.type = "object" =>
          \A i \in DOMAIN v.members :
              ToSet(v.members[i].key) \cap MustEscape = {}

Faithful[v \in Nodes] ==
    WrittenRight(v) /\ \A c \in NodesIn(v) : Faithful[c]

-----------------------------------------------------------------------------
Serialized == WithoutLayout(file) = Json[value]

\* The file has the JSON text of the value, with layout only between its
\* tokens, if it holds nothing dump is known to write otherwise.
SerializesFaithful == dump_pc = "written" /\ Faithful[value] => Serialized

\* write is to "serialize a sajson::value to the given file pointer", whatever
\* the value; only infinity and what is no number have no JSON text.
HasJson[v \in Nodes] ==
    /\ v.type = "double" => v.class = "finite"
    /\ \A c \in NodesIn(v) : HasJson[c]

SerializesAlways == dump_pc = "written" /\ HasJson[value] => Serialized
=============================================================================
