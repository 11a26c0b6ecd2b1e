SPECIFICATION Spec
CONSTANTS
    Blocks = {b1, b2, b3}
    Null = Null
    Words = {w1, w2}
    Garbage = Garbage
    Reservations = {1, 2}
    InitialCapacities = {0}
    DefaultAst = 2
    DefaultStack = 4
    MaxStack = 4
    MaxAst = 4
SYMMETRY Interchangeable
INVARIANT
    DocumentHoldsMemory
\* parse() returns and the document is dropped: a behaviour ends there.
CHECK_DEADLOCK FALSE
