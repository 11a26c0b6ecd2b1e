---------------------------- MODULE NumberParser -----------------------------
(***************************************************************************)
(* parse_number of include/sajson.h.  A number is an int as long as its    *)
(* digits fit one, which is decided digit by digit and before the          *)
(* multiplication that would overflow; from there on it is a double.       *)
(*                                                                         *)
(* The widths of the machine are CONSTANTS: ints are two's complement, an  *)
(* unsigned wraps at twice their range, and pow10 has a table from         *)
(* MinExponent (-323) to MaxExponent (308).  Doubles are binary, with      *)
(* significands up to Int53Max, and every result is rounded to the nearest *)
(* one, of two the one with the even significand.                          *)
(*                                                                         *)
(* A definition whose name ends in _bug is no part of the specification:   *)
(* it is the definition that follows with a defect a programmer might have *)
(* made, for which some property must fail.                                *)
(***************************************************************************)
EXTENDS InputText

CONSTANTS
    IntMax,       \* std::numeric_limits<int>::max()
    MinExponent,  \* pow10 is 0 below
    MaxExponent,  \* pow10 is infinite above
    Int53Max,     \* the whole numbers up to it are doubles (2^53)
    DoubleMax,    \* the largest finite double
    Unit,         \* 1 is so many times the least positive double
    Binades       \* neighbouring doubles are 2^0 to 2^Binades apart

\* The last digit of IntMax is no 9: the comparison of the last digit of a
\* negative number with one more than it would otherwise admit every digit.
\* It is a 7 wherever an int has 32 bits.
ASSUME IntAssumption ==
    /\ IntMax \in Nat
    /\ IntMax > 9
    /\ (IntMax % 10) # 9

ASSUME DoubleAssumption ==
    /\ MinExponent \in Int /\ MaxExponent \in Nat
    /\ MinExponent < 0 /\ -MinExponent < IntMax
    /\ MaxExponent < IntMax
    /\ Int53Max \in Nat /\ Int53Max > IntMax /\ (Int53Max % 4) = 0
    /\ DoubleMax \in Nat /\ DoubleMax > Int53Max
    /\ Unit \in Nat \ {0} /\ Binades \in Nat

\* How far apart neighbouring doubles may be.
Spacings == {2 ^ k : k \in 0 .. Binades}

\* Arithmetic: these are the powers of two, the powers of ten are positive, and
\* even from 10 on.  Those of the table of pow10 are not too large for a double.
ASSUME PowersAssumption ==
    /\ 1 \in Spacings
    /\ \A s \in Spacings :
          /\ s \in Nat \ {0}
          /\ s > 1 => (s % 2) = 0 /\ (s \div 2) \in Spacings
    /\ \A k \in 1 .. MaxExponent - MinExponent :
          (10 ^ k) \in Nat /\ (10 ^ k) > 0 /\ ((10 ^ k) % 2) = 0
    /\ \A k \in 1 .. MaxExponent : \E s \in Spacings : 10 ^ k <= Int53Max * s

VARIABLES
    negative,   \* a minus sign was read
    try_double, \* the digits are being collected in d
    u,          \* the digits as an unsigned int
    d,          \* the digits as a double
    exponent,   \* what d is to be multiplied by, as a power of ten
    negativeExponent,
    exp         \* the written exponent, clamped to IntMax

numberVars == <<negative, try_double, u, d, exponent, negativeExponent, exp>>

UnsignedRange == 2 * (IntMax + 1)

max_digit_after_risky_unsigned_bug == IntMax % 10

RISKY == IntMax \div 10
max_digit_after_risky == (IntMax % 10) + (IF negative THEN 1 ELSE 0)

-----------------------------------------------------------------------------
(***************************************************************************)
(* Doubles.  A digit is shifted in as a whole number, what is stored is a  *)
(* number of units, where there are Unit of them in 1.                     *)
(***************************************************************************)
\* The doubles that are no number.
Infinity == -1
NaN == -2

\* The spacing of the doubles around num / den.
Spacing(num, den) ==
    CHOOSE s \in Spacings : /\ num <= Int53Max * s * den
                            /\ s > 1 => num > Int53Max * (s \div 2) * den

\* The double nearest to num / den.
Nearest(num, den) ==
    LET s == Spacing(num, den)
        low == num \div (s * den)
        rest == num % (s * den)
        up == \/ 2 * rest > s * den
              \/ 2 * rest = s * den /\ low % 2 = 1
    IN  s * (IF up THEN low + 1 ELSE low)

\* The double a whole number is rounded to, if it is not too large for one.
Whole(n) ==
    IF (\E s \in Spacings : n <= Int53Max * s) /\ Nearest(n, 1) <= DoubleMax
    THEN Nearest(n, 1) ELSE Infinity

\* 10.0 * d + digit
Shift(x, digit) ==
    LET tens == Whole(10 * x)
    IN  IF Infinity \in {x, tens} THEN Infinity ELSE Whole(tens + digit)

Units(x) == IF x = Infinity THEN Infinity ELSE x * Unit

\* An entry of the table of pow10: a whole number, or a number of units.
PowerOfTen_next_bug(k) ==
    IF k >= 0 THEN Nearest(10 ^ (k + 1), 1) ELSE Nearest(Unit, 10 ^ (-k - 1))

PowerOfTen(k) ==
    IF k >= 0 THEN Nearest(10 ^ k, 1) ELSE Nearest(Unit, 10 ^ (-k))

\* d * pow10(k), in units, which is not computed for a k or d of 0.
Scaled(x, k) ==
    CASE k = 0 \/ x = 0 -> Units(x)
      [] k > MaxExponent /\ x # 0 -> Infinity
      [] k < MinExponent /\ x # 0 -> IF x = Infinity THEN NaN ELSE 0
      [] k \in 1 .. MaxExponent /\ x # 0 ->
            IF x = Infinity THEN Infinity ELSE Units(Whole(x * PowerOfTen(k)))
      [] k \in MinExponent .. -1 /\ x # 0 ->
            IF x = Infinity THEN Infinity ELSE Nearest(x * PowerOfTen(k), 1)

Integer(n) == [type |-> "integer", number |-> n]
Double(sign, n) == [type |-> "double", negative |-> sign, units |-> n]

-----------------------------------------------------------------------------
\* ++p, and the test for the end of the text every increment is followed by.
Advance(place) ==
    \/ /\ at_eof(p + 1)
       /\ Fail(p + 1, "UNEXPECTED_END")
    \/ /\ ~at_eof(p + 1)
       /\ Goto(p + 1, place)
       /\ UNCHANGED input

Stay(place) ==
    /\ Goto(p, place)
    /\ UNCHANGED input

-----------------------------------------------------------------------------
(***************************************************************************)
(* The sign and the digits before the point.                               *)
(***************************************************************************)
StartNumber ==
    /\ negative' = (input[p] = Minus)
    /\ try_double' = FALSE
    /\ u' = 0 /\ d' = 0
    /\ exponent' = 0 /\ negativeExponent' = FALSE /\ exp' = 0
    /\ IF input[p] = Minus THEN Advance("first_digit") ELSE Stay("first_digit")

\* A leading zero stands alone.
FirstDigit ==
    /\ pc = "first_digit"
    /\ \/ /\ input[p] = Zero
          /\ Advance("point")
       \/ /\ input[p] \notin Digits
          /\ Fail(p, "INVALID_NUMBER")
       \/ /\ input[p] \in Digits \ {Zero}
          /\ Stay("digits")
    /\ UNCHANGED numberVars

Overflows_late_bug(digit) ==
    u > RISKY + 1 \/ (u = RISKY + 1 /\ digit > max_digit_after_risky)

\* Would another digit no longer fit an int?
Overflows(digit) == u > RISKY \/ (u = RISKY /\ digit > max_digit_after_risky)

Collect(digit) ==
    IF try_double \/ Overflows(digit)
    THEN /\ try_double' = TRUE
         /\ d' = Shift(IF try_double THEN d ELSE u, digit)
         /\ u' = u
    ELSE /\ u' = (10 * u + digit) % UnsignedRange
         /\ UNCHANGED <<try_double, d>>

Digit ==
    /\ pc = "digits"
    /\ IF input[p] \in Digits
       THEN /\ Advance("digits")
            /\ IF at_eof(p + 1) THEN UNCHANGED <<try_double, u, d>>
               ELSE Collect(DigitOf(input[p]))
       ELSE /\ Stay("point")
            /\ UNCHANGED <<try_double, u, d>>
    /\ UNCHANGED <<negative, exponent, negativeExponent, exp>>

-----------------------------------------------------------------------------
(***************************************************************************)
(* The fraction.                                                           *)
(***************************************************************************)
BecomeDouble_again_bug ==
    /\ try_double' = TRUE
    /\ d' = u

BecomeDouble ==
    /\ try_double' = TRUE
    /\ d' = IF try_double THEN d ELSE u

Point ==
    /\ pc = "point"
    /\ IF input[p] = Dot
       THEN /\ Advance("first_fraction_digit")
            /\ BecomeDouble
       ELSE /\ Stay("exponent")
            /\ UNCHANGED <<try_double, d>>
    /\ UNCHANGED <<negative, u, exponent, negativeExponent, exp>>

FirstFractionDigit ==
    /\ pc = "first_fraction_digit"
    /\ \/ /\ input[p] \notin Digits
          /\ Fail(p, "INVALID_NUMBER")
       \/ /\ input[p] \in Digits
          /\ Stay("fraction")
    /\ UNCHANGED numberVars

FractionDigit ==
    /\ pc = "fraction"
    /\ IF input[p] \in Digits
       THEN /\ Advance("fraction")
            /\ IF at_eof(p + 1) THEN UNCHANGED <<d, exponent>>
               ELSE /\ d' = Shift(d, DigitOf(input[p]))
                    /\ exponent' = exponent - 1
       ELSE /\ Stay("exponent")
            /\ UNCHANGED <<d, exponent>>
    /\ UNCHANGED <<negative, try_double, u, negativeExponent, exp>>

-----------------------------------------------------------------------------
(***************************************************************************)
(* The exponent.                                                           *)
(***************************************************************************)
Exponent ==
    /\ pc = "exponent"
    /\ IF input[p] \in ExponentMarks
       THEN /\ Advance("exponent_sign")
            /\ BecomeDouble
       ELSE /\ Stay("store")
            /\ UNCHANGED <<try_double, d>>
    /\ UNCHANGED <<negative, u, exponent, negativeExponent, exp>>

ExponentSign ==
    /\ pc = "exponent_sign"
    /\ negativeExponent' = (input[p] = Minus)
    /\ IF input[p] \in {Plus, Minus}
       THEN Advance("first_exponent_digit")
       ELSE Stay("first_exponent_digit")
    /\ UNCHANGED <<negative, try_double, u, d, exponent, exp>>

FirstExponentDigit ==
    /\ pc = "first_exponent_digit"
    /\ \/ /\ input[p] \notin Digits
          /\ Fail(p, "MISSING_EXPONENT")
       \/ /\ input[p] \in Digits
          /\ Stay("exponent_digits")
    /\ UNCHANGED numberVars

ShiftExponent(digit) ==
    IF exp > (IntMax - digit) \div 10 THEN IntMax ELSE 10 * exp + digit

\* The end of the text is looked for after the digit is added.
ExponentDigit ==
    /\ pc = "exponent_digits"
    /\ IF input[p] \in Digits
       THEN /\ exp' = ShiftExponent(DigitOf(input[p]))
            /\ exponent' = exponent
            /\ Advance("exponent_digits")
       ELSE /\ exponent' = exponent + (IF negativeExponent THEN -exp ELSE exp)
            /\ exp' = exp
            /\ Stay("store")
    /\ UNCHANGED <<negative, try_double, u, d, negativeExponent>>

-----------------------------------------------------------------------------
(***************************************************************************)
(* The value.                                                              *)
(***************************************************************************)
\* static_cast<int>, of what 0u - u leaves for a negative number.
AsInt(n) == IF n > IntMax THEN n - UnsignedRange ELSE n

Store ==
    /\ pc = "store"
    /\ IF try_double
       THEN Push(Double(negative, Scaled(d, exponent)), p)
       ELSE Push(Integer(AsInt(IF negative THEN (0 - u) % UnsignedRange
                                           ELSE u)), p)
    /\ UNCHANGED <<input, numberVars>>

parse_number ==
    \/ FirstDigit \/ Digit
    \/ Point \/ FirstFractionDigit \/ FractionDigit
    \/ Exponent \/ ExponentSign \/ FirstExponentDigit \/ ExponentDigit
    \/ Store
=============================================================================
