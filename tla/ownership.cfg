\* Three views and two documents of C++, one of Swift, over two copied texts
\* and two trees.
SPECIFICATION Spec
CONSTANTS
    Buffers = {b1, b2}
    Trees = {t1, t2}
    Views = {v1, v2, v3}
    Documents = {d1, d2}
    Handles = {h1}
    Caller = Caller
    Null = Null
INVARIANTS
    RefcountExact
    OneTreeOwner
    DocumentsUsable
