\* Strings of up to three pieces, numbers around the limits of an int and a
\* double, arrays of two values, texts that are wrong, and texts cut short. An
\* int ends at 31, a double at 252, an int53 at 64, pow10 has the powers from -4 to 2.
SPECIFICATION Spec
CONSTANTS
    Documents <- Texts
    IntMax = 31
    MinExponent <- LeastExponent
    MaxExponent = 2
    Int53Max = 64
    DoubleMax = 252
    Unit = 32768
    Binades = 17
INVARIANTS
    InPlace
    StringsMean
    NoOverflow
    IntegersExact
    DoublesExact
    DoublesClose
    Int53Exact
    Verdict
    ErrorLocated
PROPERTY Termination
\* parse() returns: a behaviour ends there.
CHECK_DEADLOCK FALSE
