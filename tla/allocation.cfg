SPECIFICATION Spec
CONSTANTS
    Blocks = {b1, b2, b3}
    Null = Null
    Words = {w1, w2}
    Garbage = Garbage
    Reservations = {1, 2}
    InitialCapacities = {0, 1}
    DefaultAst = 2
    DefaultStack = 3
    MaxStack = 4
    MaxAst = 4
SYMMETRY Interchangeable
INVARIANTS
    TypeOK
    WithinBlocks
    GrowthEnds
    OneOwner
    OnlyRefusalsForget
PROPERTIES
    ImplementsWordMemory
\* parse() returns and the document is dropped: a behaviour ends there.
CHECK_DEADLOCK FALSE
