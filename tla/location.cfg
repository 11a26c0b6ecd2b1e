\* Where a failure is said to be, with the texts of values.cfg.
SPECIFICATION Spec
CONSTANTS
    Documents <- Texts
    IntMax = 31
    MinExponent <- LeastExponent
    MaxExponent = 2
    Int53Max = 64
    DoubleMax = 252
    Unit = 32768
    Binades = 17
INVARIANT ErrorLocatedAlways
\* parse() returns: a behaviour ends there.
CHECK_DEADLOCK FALSE
