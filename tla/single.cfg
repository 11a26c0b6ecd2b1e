\* single_allocation: no allocation is checked, and the stack and the AST share
\* one buffer of a word per byte. The buffer is the caller's, of 10 words: full
\* to the last word for inputs of 10 bytes, and refused for those of 11. Doubles
\* take the two words of a 32-bit build.
SPECIFICATION Spec
CONSTANTS
    Strategy = "existing"
    Lengths = {0, 1, 2, 3, 4, 5, 6, 7, 10, 11}
    Capacity = 10
    SortAbove = 100
    DoubleWords = 2
    RootMarker = 99
    NumberWidths = {1, 3}
    StringWidths = {2, 3, 4}
    Gaps = {0, 1}
    KeyBytes <- KeyPattern
INVARIANTS
    TypeOK
    WritesInBounds
    WordsPaidFor
    ObjectRecords
    AstWritten
PROPERTIES
    AstKept
    EnclosingFramesKept
    CopyKeepsFrame
    Termination
    ImplementsDocument
\* parse() returns: a behaviour ends there.
CHECK_DEADLOCK FALSE
