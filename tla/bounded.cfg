\* bounded_allocation: 11 words are too few for some inputs of 8 bytes, and
\* enough for all inputs of up to 7.
SPECIFICATION Spec
CONSTANTS
    Strategy = "bounded"
    Lengths = {0, 1, 2, 3, 4, 5, 6, 7, 8, 9, 10}
    Capacity = 11
    SortAbove = 100
    DoubleWords = 1
    RootMarker = 99
    NumberWidths = {1, 3}
    StringWidths = {2, 3, 4}
    Gaps = {0, 1}
    KeyBytes <- KeyPattern
INVARIANTS
    BuffersNeverMeet
    RoomyBufferSuffices
PROPERTIES
    Termination
    ImplementsDocument
\* parse() returns: a behaviour ends there.
CHECK_DEADLOCK FALSE
