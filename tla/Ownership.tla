------------------------------ MODULE Ownership ------------------------------
(***************************************************************************)
(* Who owns the memory of a parsed document: internal::allocated_buffer,   *)
(* the counted copy of a text; mutable_string_view, which holds one or     *)
(* points into memory of the caller; document, with its text and the       *)
(* blocks of its AST; and the documents the FFI hands to Swift.            *)
(*                                                                         *)
(* The client is any program of one thread: it constructs, copies, moves,  *)
(* assigns and destroys views and documents in any order C++ allows.  How  *)
(* the AST came to be is left to SajsonParser and DynamicAllocation.       *)
(*                                                                         *)
(* A definition whose name ends in _bug is no part of the specification:   *)
(* it is the definition that follows with a defect a programmer might have *)
(* made, for which some property must fail.                                *)
(***************************************************************************)
EXTENDS Integers, FiniteSets

CONSTANTS
    Buffers,    \* addresses of counted copies of a text
    Trees,      \* addresses of blocks for an AST
    Views,      \* the client's variables of type mutable_string_view
    Documents,  \* its variables of type document
    Handles,    \* sajson_document pointers given out by the FFI
    Caller,     \* memory of the caller, a text or a block for an AST
    Null        \* the null pointer

Holders == Views \cup Documents \cup Handles
Addresses == Buffers \cup {Caller, Null}
Blocks == Trees \cup {Caller, Null}

ASSUME AddressAssumption ==
    /\ Caller # Null
    /\ {Caller, Null} \cap Buffers = {}
    /\ {Caller, Null} \cap Trees = {}
    /\ IsFiniteSet(Holders)

ASSUME HoldersAssumption ==
    /\ Views \cap (Documents \cup Handles) = {}
    /\ Documents \cap Handles = {}

VARIABLES
    refcount,   \* the count of each buffer: 0 where none is allocated
    trees,      \* the blocks allocated for ASTs
    view,       \* each view, or the view of each document
    structure,  \* document::structure
    root,       \* document::root
    valid,      \* document::is_valid()
    moved,      \* has the document been moved from?
    lost        \* the handles Swift no longer knows and did not free

vars == <<refcount, trees, view, structure, root, valid, moved, lost>>

View(data, buffer) == [alive |-> TRUE, data |-> data, buffer |-> buffer]
Dead == [alive |-> FALSE, data |-> Null, buffer |-> Null]
NullView == View(Null, Null)

Alive(h) == view[h].alive

Init ==
    /\ refcount = [b \in Buffers |-> 0]
    /\ trees = {}
    /\ view = [h \in Holders |-> Dead]
    /\ structure = [d \in Documents \cup Handles |-> Null]
    /\ root = [d \in Documents \cup Handles |-> Null]
    /\ valid = [d \in Documents \cup Handles |-> FALSE]
    /\ moved = [d \in Documents \cup Handles |-> FALSE]
    /\ lost = {}

documentVars == <<trees, structure, root, valid, moved, lost>>

-----------------------------------------------------------------------------
(***************************************************************************)
(* allocated_buffer.  A count that is touched after its memory was freed   *)
(* is no count any more.                                                   *)
(***************************************************************************)
Corrupt == -1

Step(counts, b, n) ==
    IF b = Null THEN counts
    ELSE [counts EXCEPT ![b] = IF @ > 0 THEN @ + n ELSE Corrupt]

\* The block is deleted when its count comes to 0.
incref(counts, b) == Step(counts, b, 1)
decref(counts, b) == Step(counts, b, -1)

Assigned_move_bug(counts, old, new) == incref(counts, new)

\* operator= of two different variables that may share one buffer.
Assigned(counts, old, new) == incref(decref(counts, old), new)

-----------------------------------------------------------------------------
(***************************************************************************)
(* mutable_string_view.                                                    *)
(***************************************************************************)
\* The empty view, and one into memory of the caller.
ConstructView(v) ==
    /\ ~Alive(v)
    /\ \E new \in {NullView, View(Caller, Null)} :
          view' = [view EXCEPT ![v] = new]
    /\ UNCHANGED <<refcount, documentVars>>

\* From a string_view, which is copied.
AllocateView(v, b) ==
    /\ ~Alive(v)
    /\ refcount[b] = 0
    /\ refcount' = [refcount EXCEPT ![b] = 1]
    /\ view' = [view EXCEPT ![v] = View(b, b)]
    /\ UNCHANGED documentVars

CopyView(v, from) ==
    /\ ~Alive(v) /\ Alive(from)
    /\ refcount' = incref(refcount, view[from].buffer)
    /\ view' = [view EXCEPT ![v] = view[from]]
    /\ UNCHANGED documentVars

MoveView(v, from) ==
    /\ ~Alive(v) /\ Alive(from)
    /\ view' = [view EXCEPT ![v] = view[from], ![from] = NullView]
    /\ UNCHANGED <<refcount, documentVars>>

CopyAssignView_self_bug(v, from) ==
    /\ Alive(v) /\ Alive(from)
    /\ refcount' = Assigned(refcount, view[v].buffer, view[from].buffer)
    /\ view' = [view EXCEPT ![v] = view[from]]
    /\ UNCHANGED documentVars

CopyAssignView(v, from) ==
    /\ Alive(v) /\ Alive(from)
    /\ IF v = from THEN UNCHANGED <<refcount, view>>
       ELSE /\ refcount' = Assigned(refcount, view[v].buffer, view[from].buffer)
            /\ view' = [view EXCEPT ![v] = view[from]]
    /\ UNCHANGED documentVars

MoveAssignView(v, from) ==
    /\ Alive(v) /\ Alive(from)
    /\ IF v = from THEN UNCHANGED <<refcount, view>>
       ELSE /\ refcount' = decref(refcount, view[v].buffer)
            /\ view' = [view EXCEPT ![v] = view[from], ![from] = NullView]
    /\ UNCHANGED documentVars

DestroyView(v) ==
    /\ Alive(v)
    /\ refcount' = decref(refcount, view[v].buffer)
    /\ view' = [view EXCEPT ![v] = Dead]
    /\ UNCHANGED documentVars

-----------------------------------------------------------------------------
(***************************************************************************)
(* document.                                                               *)
(***************************************************************************)
SetDocument(d, owned, tree, is_valid) ==
    /\ structure' = [structure EXCEPT ![d] = owned]
    /\ root' = [root EXCEPT ![d] = tree]
    /\ valid' = [valid EXCEPT ![d] = is_valid]
    /\ moved' = [moved EXCEPT ![d] = FALSE]
    /\ lost' = lost

\* What a parse returns: a tree that is owned, one in the caller's buffer, or
\* an error.
Parsed(d) ==
    \/ \E t \in Trees \ trees :
          /\ trees' = trees \cup {t}
          /\ SetDocument(d, t, t, TRUE)
    \/ /\ trees' = trees
       /\ SetDocument(d, Null, Caller, TRUE)
    \/ /\ trees' = trees
       /\ SetDocument(d, Null, Null, FALSE)

\* document(), which is no valid one.
DefaultDocument(d) ==
    /\ ~Alive(d)
    /\ view' = [view EXCEPT ![d] = NullView]
    /\ refcount' = refcount
    /\ trees' = trees
    /\ SetDocument(d, Null, Null, FALSE)

\* parse(strategy, view): the parser's copy of the view, and the argument's,
\* are gone when it returns.
Parse(d, v) ==
    /\ ~Alive(d) /\ Alive(v)
    /\ view' = [view EXCEPT ![d] = view[v]]
    /\ refcount' = incref(refcount, view[v].buffer)
    /\ Parsed(d)

MoveDocument_kept_bug(d, from) ==
    /\ ~Alive(d) /\ Alive(from)
    /\ view' = [view EXCEPT ![d] = view[from]]
    /\ refcount' = incref(refcount, view[from].buffer)
    /\ structure' = [structure EXCEPT ![d] = structure[from]]
    /\ root' = [root EXCEPT ![d] = root[from]]
    /\ valid' = [valid EXCEPT ![d] = valid[from]]
    /\ moved' = [moved EXCEPT ![d] = moved[from], ![from] = TRUE]
    /\ UNCHANGED <<trees, lost>>

\* The text is copied, the tree moves; root and root_tag stay behind as well.
MoveDocument(d, from) ==
    /\ ~Alive(d) /\ Alive(from)
    /\ view' = [view EXCEPT ![d] = view[from]]
    /\ refcount' = incref(refcount, view[from].buffer)
    /\ structure' = [structure EXCEPT ![d] = structure[from], ![from] = Null]
    /\ root' = [root EXCEPT ![d] = root[from]]
    /\ valid' = [valid EXCEPT ![d] = valid[from]]
    /\ moved' = [moved EXCEPT ![d] = moved[from], ![from] = TRUE]
    /\ UNCHANGED <<trees, lost>>

\* ~ownership deletes the tree, ~mutable_string_view lets go of the text.
DestroyDocument(d) ==
    /\ Alive(d)
    /\ view' = [view EXCEPT ![d] = Dead]
    /\ refcount' = decref(refcount, view[d].buffer)
    /\ trees' = trees \ {structure[d]}
    /\ SetDocument(d, Null, Null, FALSE)

-----------------------------------------------------------------------------
(***************************************************************************)
(* sajson-ffi.cpp and sajson.swift.                                        *)
(***************************************************************************)
\* sajson_parse_*_allocation over the bytes of a Data: the document is moved
\* to the heap.  If that has no room, it dies with the call.
sajson_parse(h) ==
    /\ ~Alive(h)
    /\ view' = [view EXCEPT ![h] = View(Caller, Null)]
    /\ refcount' = refcount
    /\ \/ \E t \in Trees \ trees :
             /\ trees' = trees \cup {t}
             /\ SetDocument(h, t, t, TRUE)
       \/ /\ trees' = trees
          /\ SetDocument(h, Null, Null, FALSE)

\* deinit of Swift's Document, which is made of valid ones only.
sajson_free_document(h) ==
    /\ Alive(h) /\ valid[h]
    /\ view' = [view EXCEPT ![h] = Dead]
    /\ refcount' = decref(refcount, view[h].buffer)
    /\ trees' = trees \ {structure[h]}
    /\ SetDocument(h, Null, Null, FALSE)

\* parse() of sajson.swift reads the error and throws it, and the document is
\* never freed.
ThrowParseError(h) ==
    /\ Alive(h) /\ ~valid[h] /\ h \notin lost
    /\ lost' = lost \cup {h}
    /\ UNCHANGED <<refcount, trees, view, structure, root, valid, moved>>

Next ==
    \/ \E v \in Views :
          \/ ConstructView(v)
          \/ \E b \in Buffers : AllocateView(v, b)
          \/ \E from \in Views :
                \/ CopyView(v, from)
                \/ MoveView(v, from)
                \/ CopyAssignView(v, from)
                \/ MoveAssignView(v, from)
          \/ DestroyView(v)
    \/ \E d \in Documents :
          \/ DefaultDocument(d)
          \/ \E v \in Views : Parse(d, v)
          \/ \E from \in Documents : MoveDocument(d, from)
          \/ DestroyDocument(d)
    \/ \E h \in Handles :
          \/ sajson_parse(h)
          \/ sajson_free_document(h)
          \/ ThrowParseError(h)

Spec == Init /\ [][Next]_vars

-----------------------------------------------------------------------------
(***************************************************************************)
(* What is promised.                                                       *)
(***************************************************************************)
TypeOK ==
    /\ refcount \in [Buffers -> Nat]
    /\ trees \subseteq Trees
    /\ view \in [Holders -> [alive : BOOLEAN, data : Addresses,
                             buffer : Buffers \cup {Null}]]
    /\ structure \in [Documents \cup Handles -> Trees \cup {Null}]
    /\ root \in [Documents \cup Handles -> Blocks]
    /\ valid \in [Documents \cup Handles -> BOOLEAN]
    /\ moved \in [Documents \cup Handles -> BOOLEAN]
    /\ lost \subseteq Handles

HoldersOf(b) == {h \in Holders : view[h].buffer = b}

\* The count of a buffer is the number of views, those of documents included,
\* that hold it, after any sequence of copies, moves, assignments and ends of
\* life: it is freed with the last of them, once, and not before.
RefcountExact ==
    \A b \in Buffers : refcount[b] = Cardinality(HoldersOf(b))

\* A block of an AST that is allocated has one owner, and no document owns one
\* that was freed.
OneTreeOwner ==
    /\ \A t \in trees : \E d \in Documents \cup Handles : structure[d] = t
    /\ \A d \in Documents \cup Handles :
          structure[d] # Null =>
              /\ structure[d] \in trees
              /\ \A other \in Documents \cup Handles :
                    structure[other] = structure[d] => other = d

\* "the document holds a strong reference to any memory allocated": no text is
\* freed under a view or a document, and a valid document that was not moved
\* from owns its tree, unless that is in memory of the caller.
DocumentsUsable ==
    /\ \A h \in Holders :
          view[h].data \in Buffers => refcount[view[h].data] > 0
    /\ \A d \in Documents \cup Handles :
          Alive(d) /\ valid[d] /\ ~moved[d] /\ root[d] # Caller =>
              /\ root[d] = structure[d]
              /\ root[d] \in trees
=============================================================================
