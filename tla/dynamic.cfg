\* dynamic_allocation: two buffers, any growth of which may be refused. Objects
\* of two members and more are sorted; 13 bytes make one with keys of one length,
\* or of different lengths.
SPECIFICATION Spec
CONSTANTS
    Strategy = "dynamic"
    Lengths = {0, 1, 2, 3, 13}
    Capacity = 0
    SortAbove = 1
    DoubleWords = 1
    RootMarker = 99
    NumberWidths = {1}
    StringWidths = {2, 3}
    Gaps = {0}
    KeyBytes <- KeyPattern
INVARIANTS
    LargeObjectsSearchable
PROPERTIES
    ImplementsDocument
\* parse() returns: a behaviour ends there.
CHECK_DEADLOCK FALSE
