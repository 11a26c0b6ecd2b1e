\* The lookup of the FFI, in the objects and values of reader.cfg.
SPECIFICATION Spec
CONSTANTS
    Objects <- AllObjects
    Wanted <- AllWanted
    SortAbove = 2
    Values <- AllValues
    Nodes <- AllNodes
    Characters <- AllCharacters
    Capacity = 3
    Height <- AllHeights
INVARIANT FfiFindsMember
\* The reader is done: a behaviour ends there.
CHECK_DEADLOCK FALSE
