\* Objects of up to five members, sorted from three on, and values nested up to
\* three deep, written through a buffer of three characters.
SPECIFICATION Spec
CONSTANTS
    Objects <- AllObjects
    Wanted <- AllWanted
    SortAbove = 2
    Values <- AllValues
    Nodes <- AllNodes
    Characters <- AllCharacters
    Capacity = 3
    Height <- AllHeights
INVARIANTS
    FindsMember
    FfiFindsSorted
    FileKeepsAll
    SerializesFaithful
PROPERTIES
    ReaderTermination
\* The reader is done: a behaviour ends there.
CHECK_DEADLOCK FALSE
