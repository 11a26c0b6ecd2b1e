\* A number that is multiplied by a power of ten, with the texts of values.cfg.
SPECIFICATION Spec
CONSTANTS
    Documents <- Texts
    IntMax = 31
    MinExponent <- LeastExponent
    MaxExponent = 2
    Int53Max = 64
    DoubleMax = 252
    Unit = 32768
    Binades = 17
INVARIANT NeverNaN
\* parse() returns: a behaviour ends there.
CHECK_DEADLOCK FALSE
