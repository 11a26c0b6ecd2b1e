----------------------------- MODULE ObjectIndex -----------------------------
(***************************************************************************)
(* The two lookups of a key in an object that was installed:               *)
(* value::find_object_key of include/sajson.h, and sajson_find_object_key  *)
(* of swift/sajson/sajson-ffi.cpp, here run one after the other for the    *)
(* same object and key.                                                    *)
(*                                                                         *)
(* A key is its length and its bytes, the bytes read as one number: for    *)
(* keys of one length memcmp orders them as these numbers are ordered.     *)
(*                                                                         *)
(* A definition whose name ends in _bug is no part of the specification:   *)
(* it is the definition that follows with a defect a programmer might have *)
(* made, for which some property must fail.                                *)
(***************************************************************************)
EXTENDS Integers, Sequences

CONSTANTS
    Objects,   \* the objects considered, each the sequence of its keys
    Wanted,    \* the keys looked for
    SortAbove  \* objects with more members than this are sorted (100)

Key(len, bytes) == [length |-> len, bytes |-> bytes]
Keys == [length : Nat, bytes : Nat]

Less_lengths_bug(a, b) == a.length < b.length

\* object_key_comparator.
Less(a, b) ==
    \/ a.length < b.length
    \/ a.length = b.length /\ a.bytes < b.bytes

\* object_key_record::match.
Matches(a, b) == a.length = b.length /\ a.bytes = b.bytes

InOrder(ks) ==
    \A i, j \in DOMAIN ks : i < j => ~Less(ks[j], ks[i])

should_binary_search(n) == n > SortAbove

\* install_object sorts the objects that will be bisected, and no others.
ASSUME ObjectsAssumption ==
    /\ SortAbove \in Nat
    /\ Wanted \subseteq Keys
    /\ \A o \in Objects :
          /\ o \in Seq(Keys)
          /\ Len(o) > SortAbove => InOrder(o)

VARIABLES
    find_pc,  \* where the lookup is
    keys,     \* the keys of the object, in the order of its records
    wanted,   \* the key looked for
    first,    \* the first record still considered, from 0
    count,    \* how many are considered
    found,    \* what find_object_key returns
    found_ffi \* what sajson_find_object_key returns

indexVars == <<find_pc, keys, wanted, first, count, found, found_ffi>>

length == Len(keys)
record(i) == keys[i + 1]

\* No answer yet.
Pending == -1

FindInit ==
    /\ find_pc = "find_object_key"
    /\ keys \in Objects
    /\ wanted \in Wanted
    /\ first = 0 /\ count = 0
    /\ found = Pending /\ found_ffi = Pending

-----------------------------------------------------------------------------
(***************************************************************************)
(* std::lower_bound, as it halves its range.                               *)
(***************************************************************************)
Considering(n, next) ==
    /\ first' = 0
    /\ count' = n
    /\ find_pc' = next
    /\ UNCHANGED <<keys, wanted>>

Bisect ==
    /\ find_pc \in {"lower_bound", "ffi_lower_bound"}
    /\ count > 0
    /\ LET half == count \div 2
       IN  IF Less(record(first + half), wanted)
           THEN /\ first' = first + half + 1
                /\ count' = count - half - 1
           ELSE /\ first' = first
                /\ count' = half
    /\ UNCHANGED <<find_pc, keys, wanted, found, found_ffi>>

AtBound_unmatched_bug == first

\* The record at the bound is the one, or there is none.
AtBound == IF first # length /\ Matches(record(first), wanted) THEN first
           ELSE length

-----------------------------------------------------------------------------
(***************************************************************************)
(* find_object_key.                                                        *)
(***************************************************************************)
\* A small object is searched from its first record on.
find_object_key ==
    /\ find_pc = "find_object_key"
    /\ Considering(length, IF should_binary_search(length) THEN "lower_bound"
                                                           ELSE "linear")
    /\ UNCHANGED <<found, found_ffi>>

LinearStep_stuck_bug ==
    /\ find_pc = "linear"
    /\ count > 0
    /\ ~Matches(record(first), wanted)
    /\ UNCHANGED indexVars

LinearStep ==
    /\ find_pc = "linear"
    /\ count > 0
    /\ ~Matches(record(first), wanted)
    /\ first' = first + 1
    /\ count' = count - 1
    /\ UNCHANGED <<find_pc, keys, wanted, found, found_ffi>>

Return(index) ==
    /\ found' = index
    /\ found_ffi' = found_ffi
    /\ Considering(0, "sajson_find_object_key")

ReturnLinear ==
    /\ find_pc = "linear"
    /\ \/ count > 0 /\ Matches(record(first), wanted) /\ Return(first)
       \/ count = 0 /\ Return(length)

ReturnBisected ==
    /\ find_pc = "lower_bound"
    /\ count = 0
    /\ Return(AtBound)

-----------------------------------------------------------------------------
(***************************************************************************)
(* sajson_find_object_key bisects every object.                            *)
(***************************************************************************)
sajson_find_object_key ==
    /\ find_pc = "sajson_find_object_key"
    /\ Considering(length, "ffi_lower_bound")
    /\ UNCHANGED <<found, found_ffi>>

ReturnFfi ==
    /\ find_pc = "ffi_lower_bound"
    /\ count = 0
    /\ found_ffi' = AtBound
    /\ found' = found
    /\ Considering(0, "done")

FindNext ==
    \/ Bisect
    \/ find_object_key
    \/ LinearStep
    \/ ReturnLinear
    \/ ReturnBisected
    \/ sajson_find_object_key
    \/ ReturnFfi

FindSpec == FindInit /\ [][FindNext]_indexVars

-----------------------------------------------------------------------------
(***************************************************************************)
(* What is promised.                                                       *)
(***************************************************************************)
\* An index is right if it is that of a member with the key, or the length of
\* the object where no member has it.
RightIndex(index) ==
    IF \E i \in DOMAIN keys : keys[i] = wanted
    THEN index \in 0 .. length - 1 /\ record(index) = wanted
    ELSE index = length

\* find_object_key "returns the index of the associated value if one exists",
\* and get_length() otherwise, also with keys of different lengths, with a key
\* twice, and on both sides of the threshold.
FindsMember == found # Pending => RightIndex(found)

\* Bisection never leaves the records, and is never in doubt about those it
\* has left behind.
BisectionKeepsBounds ==
    find_pc = "lower_bound" =>
        /\ first + count <= length
        /\ \A i \in 0 .. length - 1 :
              /\ i < first => Less(record(i), wanted)
              /\ i >= first + count => ~Less(record(i), wanted)

\* In an object that is sorted the FFI finds what find_object_key finds.
FfiFindsSorted == found_ffi # Pending /\ InOrder(keys) => RightIndex(found_ffi)

\* sajson_find_object_key "is a re-implemented version of a similar function on
\* sajson::value": it finds a key where that function does.
FfiFindsMember == found_ffi # Pending => RightIndex(found_ffi)
=============================================================================
