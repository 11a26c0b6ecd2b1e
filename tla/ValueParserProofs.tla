-------------------------- MODULE ValueParserProofs --------------------------
(***************************************************************************)
(* For every text: decoding in place never reaches what is still to be     *)
(* read nor what was decoded before, and no digit, of a number or of its   *)
(* exponent, overflows the int it is collected in.                         *)
(***************************************************************************)
EXTENDS ValueParser, SequenceTheorems, TLAPS

-----------------------------------------------------------------------------
(***************************************************************************)
(* Numbers.                                                                *)
(***************************************************************************)
DigitsInv ==
    /\ negative \in BOOLEAN
    /\ u \in Nat /\ u <= IntMax + (IF negative THEN 1 ELSE 0)
    /\ exp \in Nat /\ exp <= IntMax

\* The digits that do not overflow make a number that fits.
LEMMA CollectFits ==
    ASSUME DigitsInv, NEW digit \in 0 .. 9, ~Overflows(digit)
    PROVE  /\ 10 * u + digit \in Nat
           /\ 10 * u + digit <= IntMax + (IF negative THEN 1 ELSE 0)
<1>1. /\ IntMax \in Nat /\ IntMax > 9
      /\ IntMax = 10 * (IntMax \div 10) + (IntMax % 10)
      /\ IntMax \div 10 \in Nat /\ (IntMax % 10) \in 0 .. 9
  BY IntAssumption
<1> DEFINE q == IntMax \div 10
           r == IntMax % 10
<1>2. /\ u <= q
      /\ u = q => digit <= r + (IF negative THEN 1 ELSE 0)
  BY <1>1 DEF Overflows, RISKY, max_digit_after_risky, DigitsInv
<1>3. u \in Nat /\ negative \in BOOLEAN
  BY DEF DigitsInv
<1> HIDE DEF q, r
<1> QED
  BY <1>1, <1>2, <1>3 DEF q, r

\* What is less than the range of an unsigned is kept by one.
LEMMA UnsignedKeeps ==
    ASSUME NEW n \in Nat, NEW m \in Nat, n < m
    PROVE  n % m = n
  BY SMTT(30)

\* An exponent that another digit would take beyond an int is clamped.
LEMMA ExponentClamped ==
    ASSUME DigitsInv, NEW digit \in 0 .. 9
    PROVE  ShiftExponent(digit) \in Nat /\ ShiftExponent(digit) <= IntMax
<1>1. /\ IntMax \in Nat /\ IntMax > 9 /\ exp \in Nat
      /\ IntMax - digit \in Nat
      /\ 10 * ((IntMax - digit) \div 10) <= IntMax - digit
  BY IntAssumption DEF DigitsInv
<1>2. (IntMax - digit) \div 10 \in Nat
  BY <1>1
<1> DEFINE q == (IntMax - digit) \div 10
<1> HIDE DEF q
<1>3. CASE exp > q
  BY <1>1, <1>3 DEF ShiftExponent, q
<1>4. CASE ~(exp > q)
  <2>1. ShiftExponent(digit) = 10 * exp + digit
    BY <1>4 DEF ShiftExponent, q
  <2>2. 10 * exp + digit <= IntMax
    BY <1>1, <1>2, <1>4 DEF q
  <2> QED
    BY <2>1, <2>2, <1>1
<1> QED
  BY <1>3, <1>4

\* The invariant of the digits holds at first.
LEMMA DigitsInitial ==
    Init => DigitsInv
<1> SUFFICES ASSUME Init PROVE DigitsInv
  OBVIOUS
<1>1. negative = FALSE /\ u = 0 /\ exp = 0
  BY DEF Init
<1>2. IntMax \in Nat
  BY IntAssumption
<1>3. negative \in BOOLEAN /\ (IF negative THEN 1 ELSE 0) = 0
  BY <1>1, Zenon
<1> QED
  BY <1>1, <1>2, <1>3 DEF DigitsInv

\* Every step keeps it: Collect and ExponentDigit by the lemmas above.
LEMMA DigitsStep ==
    DigitsInv /\ [Next]_vars => DigitsInv'
<1> SUFFICES ASSUME DigitsInv, [Next]_vars PROVE DigitsInv'
  OBVIOUS
<1>0. ASSUME UNCHANGED <<negative, u, exp>> PROVE DigitsInv'
  BY <1>0 DEF DigitsInv
<1>1. CASE UNCHANGED numberVars
  BY <1>0, <1>1 DEF numberVars
<1>2. CASE StartNumber
  BY <1>2, IntAssumption DEF StartNumber, DigitsInv
<1>3. CASE FirstDigit
  BY <1>3, <1>1 DEF FirstDigit
<1>4. CASE Digit
  <2>1. UNCHANGED <<negative, exp>>
    BY <1>4 DEF Digit
  <2>2. CASE u' = u
    BY <2>1, <2>2, <1>0
  <2>3. CASE input[p] \in Digits /\ Collect(DigitOf(input[p])) /\ u' # u
    <3> DEFINE digit == DigitOf(input[p])
    <3>1. digit \in 0 .. 9
      BY <2>3 DEF Digits, DigitOf
    <3>2. ~Overflows(digit) /\ u' = (10 * u + digit) % UnsignedRange
      BY <2>3 DEF Collect
    <3>3. /\ 10 * u + digit \in Nat
          /\ 10 * u + digit <= IntMax + (IF negative THEN 1 ELSE 0)
      BY <3>1, <3>2, CollectFits
    <3> HIDE DEF digit
    <3>4. UnsignedRange \in Nat /\ 10 * u + digit < UnsignedRange
      <4>1. IntMax \in Nat /\ IntMax > 9 /\ negative \in BOOLEAN
        BY IntAssumption DEF DigitsInv
      <4>2. (IF negative THEN 1 ELSE 0) \in 0 .. 1
        BY <4>1
      <4> QED
        BY <4>1, <4>2, <3>3 DEF UnsignedRange
    <3>5. u' = 10 * u + digit
      BY <3>2, <3>3, <3>4, UnsignedKeeps
    <3> QED
      BY <3>3, <3>5, <2>1 DEF DigitsInv
  <2> QED
    BY <2>2, <2>3, <1>4 DEF Digit
<1>5. CASE Point
  BY <1>5, <1>0 DEF Point
<1>6. CASE FirstFractionDigit
  BY <1>6, <1>1 DEF FirstFractionDigit
<1>7. CASE FractionDigit
  BY <1>7, <1>0 DEF FractionDigit
<1>8. CASE Exponent
  BY <1>8, <1>0 DEF Exponent
<1>9. CASE ExponentSign
  BY <1>9, <1>0 DEF ExponentSign
<1>10. CASE FirstExponentDigit
  BY <1>10, <1>1 DEF FirstExponentDigit
<1>11. CASE ExponentDigit
  <2>1. UNCHANGED <<negative, u>>
    BY <1>11 DEF ExponentDigit
  <2>2. CASE input[p] \in Digits
    <3>1. DigitOf(input[p]) \in 0 .. 9
      BY <2>2 DEF Digits, DigitOf
    <3>2. exp' = ShiftExponent(DigitOf(input[p]))
      BY <1>11, <2>2 DEF ExponentDigit
    <3>3. exp' \in Nat /\ exp' <= IntMax
      BY <3>1, <3>2, ExponentClamped
    <3> QED
      BY <3>3, <2>1 DEF DigitsInv
  <2>3. CASE input[p] \notin Digits
    BY <1>11, <2>1, <2>3, <1>0 DEF ExponentDigit
  <2> QED
    BY <2>2, <2>3
<1>12. CASE Store
  BY <1>12, <1>1 DEF Store
<1>13. CASE parse_number
  BY <1>3, <1>4, <1>5, <1>6, <1>7, <1>8, <1>9, <1>10, <1>11, <1>12, <1>13
     DEF parse_number
<1>14. CASE Next
  BY <1>1, <1>2, <1>13, <1>14
     DEF Next, ParseRoot, ArrayCloseOrElement, NextElement, Switch,
         StructureCloseOrComma, PopArray
<1>15. CASE UNCHANGED vars
  BY <1>1, <1>15 DEF vars
<1> QED
  BY <1>14, <1>15

\* No digit overflows, in every behaviour.
THEOREM DigitsNeverOverflow == Spec => []NoOverflow
<1>1. DigitsInv => NoOverflow
  BY DEF DigitsInv, NoOverflow
<1> QED
  BY <1>1, DigitsInitial, DigitsStep, PTL DEF Spec

-----------------------------------------------------------------------------
(***************************************************************************)
(* Decoding in place.                                                      *)
(***************************************************************************)
StringPlaces == {"scan", "found", "slow"}

PlaceInv ==
    /\ input_end \in Nat
    /\ DOMAIN input = 0 .. input_end - 1
    /\ p \in Nat /\ start \in Nat /\ end \in Nat
    /\ \A i \in p .. input_end - 1 : Unread(i)
    /\ pc \in {"scan", "found"} => start <= p
    /\ pc = "slow" => start <= end /\ end <= p

\* What a step may write, and where it goes on.
InPlaceStep ==
    /\ input_end' = input_end /\ document' = document
    /\ DOMAIN input' = DOMAIN input
    /\ p' \in Nat
    /\ p' >= p \/ p' = input_end
    /\ \A i \in DOMAIN input :
          input'[i] # input[i] => start <= i /\ i < p'

\* A step that leaves the text alone.
Onward ==
    /\ input_end' = input_end /\ document' = document
    /\ input' = input
    /\ p' \in Nat
    /\ p' >= p \/ p' = input_end

\* Nothing is written by such a step.
LEMMA OnwardIsInPlace ==
    ASSUME Onward PROVE InPlaceStep
BY DEF Onward, InPlaceStep

\* A step is one of those, and the string it is in goes on where it was.
LEMMA PlaceKept ==
    ASSUME PlaceInv, InPlaceStep, start' \in Nat, end' \in Nat,
           pc' \in {"scan", "found"} => start' <= p',
           pc' = "slow" => start' <= end' /\ end' <= p'
    PROVE  PlaceInv'
<1>1. ASSUME NEW i \in p' .. input_end - 1
      PROVE  input'[i] = original'[i]
  <2>1. i \in DOMAIN input /\ i \in p .. input_end - 1
    BY <1>1 DEF PlaceInv, InPlaceStep
  <2>2. input'[i] = input[i]
    BY <2>1, <1>1 DEF PlaceInv, InPlaceStep
  <2>3. input[i] = original[i] /\ original' = original
    BY <2>1 DEF PlaceInv, InPlaceStep, Unread, original
  <2> QED
    BY <2>2, <2>3
<1> QED
  BY <1>1 DEF PlaceInv, InPlaceStep, Unread

\* A failure, and a step between the values.
LEMMA FailsInPlace ==
    ASSUME PlaceInv, NEW at, NEW code, Fail(at, code)
    PROVE  Onward /\ pc' \notin StringPlaces
BY DEF Fail, Onward, PlaceInv, StringPlaces

\* A step to another place further on.
LEMMA GoesOn ==
    ASSUME PlaceInv, NEW q \in Nat, q >= p \/ q = input_end, NEW place,
           Goto(q, place), UNCHANGED input
    PROVE  Onward /\ pc' = place
BY DEF Goto, Onward

\* The invariant of the places holds at first.
LEMMA PlaceInitial ==
    Init => PlaceInv
<1> SUFFICES ASSUME Init PROVE PlaceInv
  OBVIOUS
<1>1. /\ input_end \in Nat /\ input \in [0 .. input_end - 1 -> Bytes]
      /\ input = original /\ p = 0 /\ start = 0 /\ end = 0 /\ pc = "root"
  BY DocumentsAssumption DEF Init, original
<1> QED
  BY <1>1 DEF PlaceInv, Unread

\* Between the values, and in a number, nothing is written.
LEMMA OutsideStrings ==
    ASSUME PlaceInv,
           \/ ParseRoot \/ ArrayCloseOrElement \/ NextElement
           \/ StructureCloseOrComma \/ PopArray
    PROVE  /\ Onward /\ pc' \notin StringPlaces
           /\ UNCHANGED stringVars
<1>0. input_end \in Nat /\ p \in Nat
  BY DEF PlaceInv
<1>1. ASSUME NEW at, NEW code, Fail(at, code)
      PROVE  Onward /\ pc' \notin StringPlaces
  BY <1>1, FailsInPlace
<1>2. ASSUME NEW q \in Nat, q >= p \/ q = input_end, NEW place,
             Goto(q, place), UNCHANGED input, place \notin StringPlaces
      PROVE  Onward /\ pc' \notin StringPlaces
  BY <1>2, GoesOn
<1>3. \A q \in p .. input_end - 1 : q \in Nat /\ q >= p /\ q + 1 \in Nat /\ q + 1 >= p
  BY <1>0
<1>4. \A q \in p + 1 .. input_end - 1 : q \in Nat /\ q >= p
  BY <1>0
<1> USE DEF StringPlaces
<1>5. CASE ParseRoot
  BY <1>1, <1>2, <1>3, <1>5 DEF ParseRoot
<1>6. CASE ArrayCloseOrElement
  BY <1>1, <1>2, <1>3, <1>6 DEF ArrayCloseOrElement
<1>7. CASE NextElement
  BY <1>1, <1>2, <1>3, <1>7 DEF NextElement
<1>8. CASE StructureCloseOrComma
  BY <1>1, <1>2, <1>3, <1>8 DEF StructureCloseOrComma
<1>9. CASE PopArray
  BY <1>0, <1>1, <1>2, <1>4, <1>9 DEF PopArray
<1> QED
  BY <1>5, <1>6, <1>7, <1>8, <1>9

\* Every step of parse_number leaves the text alone.
LEMMA NumbersInPlace ==
    ASSUME PlaceInv, StartNumber \/ parse_number
    PROVE  Onward /\ pc' \notin StringPlaces
<1>0. p \in Nat /\ p + 1 \in Nat /\ p + 1 >= p /\ p >= p
  BY DEF PlaceInv
<1>1. ASSUME NEW at, NEW code, Fail(at, code)
      PROVE  Onward /\ pc' \notin StringPlaces
  BY <1>1, FailsInPlace
<1>2. ASSUME NEW place, Advance(place), place \notin StringPlaces
      PROVE  Onward /\ pc' \notin StringPlaces
  BY <1>0, <1>1, <1>2, GoesOn DEF Advance
<1>3. ASSUME NEW place, Stay(place), place \notin StringPlaces
      PROVE  Onward /\ pc' \notin StringPlaces
  BY <1>0, <1>3, GoesOn DEF Stay
<1>4. ASSUME NEW value, Push(value, p), UNCHANGED input
      PROVE  Onward /\ pc' \notin StringPlaces
  BY <1>0, <1>4 DEF Push, Onward, StringPlaces
<1> USE DEF StringPlaces
<1>5. CASE StartNumber
  BY <1>2, <1>3, <1>5 DEF StartNumber
<1>6. CASE FirstDigit
  BY <1>1, <1>2, <1>3, <1>6 DEF FirstDigit
<1>7. CASE Digit
  BY <1>2, <1>3, <1>7 DEF Digit
<1>8. CASE Point
  BY <1>2, <1>3, <1>8 DEF Point
<1>9. CASE FirstFractionDigit
  BY <1>1, <1>3, <1>9 DEF FirstFractionDigit
<1>10. CASE FractionDigit
  BY <1>2, <1>3, <1>10 DEF FractionDigit
<1>11. CASE Exponent
  BY <1>2, <1>3, <1>11 DEF Exponent
<1>12. CASE ExponentSign
  BY <1>2, <1>3, <1>12 DEF ExponentSign
<1>13. CASE FirstExponentDigit
  BY <1>1, <1>3, <1>13 DEF FirstExponentDigit
<1>14. CASE ExponentDigit
  BY <1>2, <1>3, <1>14 DEF ExponentDigit
<1>15. CASE Store
  BY <1>4, <1>15 DEF Store
<1> QED
  BY <1>5, <1>6, <1>7, <1>8, <1>9, <1>10, <1>11, <1>12, <1>13, <1>14, <1>15
     DEF parse_number

\* The switch on the first byte of a value.
LEMMA LiteralsInPlace ==
    ASSUME PlaceInv, NEW name \in Literals, Literal(name, p)
    PROVE  Onward /\ pc' \notin StringPlaces
<1>1. ASSUME NEW at, NEW code, Fail(at, code)
      PROVE  Onward /\ pc' \notin StringPlaces
  BY <1>1, FailsInPlace
<1>2. Len(Spelling[name]) \in Nat
  BY DEF Literals, Spelling
<1>3. ASSUME NEW value, Push(value, p + Len(Spelling[name])), UNCHANGED input
      PROVE  Onward /\ pc' \notin StringPlaces
  <2>1. p + Len(Spelling[name]) \in Nat /\ p + Len(Spelling[name]) >= p
    BY <1>2 DEF PlaceInv
  <2> QED
    BY <1>3, <2>1 DEF Push, Onward, StringPlaces
<1> QED
  BY <1>1, <1>3 DEF Literal

\* parse_string writes nothing before the closing quote.
LEMMA ScanInPlace ==
    ASSUME PlaceInv, StartString \/ Scan \/ Found
    PROVE  PlaceInv' /\ InPlaceStep
<1>0. /\ p \in Nat /\ start \in Nat /\ end \in Nat /\ input_end \in Nat
      /\ DOMAIN input = 0 .. input_end - 1
      /\ pc \in {"scan", "found"} => start <= p
  BY DEF PlaceInv
<1>1. ASSUME NEW at, NEW code, Fail(at, code), UNCHANGED stringVars
      PROVE  PlaceInv' /\ InPlaceStep
  <2>1. Onward /\ pc' \notin StringPlaces
    BY <1>1, FailsInPlace
  <2> QED
    BY <1>0, <1>1, <2>1, OnwardIsInPlace, PlaceKept DEF stringVars, StringPlaces
<1>2. ASSUME NEW q \in Nat, q >= p, NEW place \in {"scan", "found"},
             Goto(q, place), UNCHANGED input,
             start' \in Nat, start' <= q, end' = end
      PROVE  PlaceInv' /\ InPlaceStep
  <2>1. Onward /\ pc' = place /\ p' = q
    BY <1>2, GoesOn DEF Goto
  <2> QED
    BY <1>0, <1>2, <2>1, OnwardIsInPlace, PlaceKept
<1>3. CASE StartString
  BY <1>0, <1>2, <1>3 DEF StartString
<1>4. CASE Scan
  <2>1. start <= p /\ UNCHANGED stringVars /\ pc = "scan"
    BY <1>0, <1>4 DEF Scan
  <2>2. /\ ScanWidth \in Nat /\ p + ScanWidth \in Nat
        /\ p + ScanWidth >= p /\ start <= p + ScanWidth
    BY <1>0, <2>1 DEF ScanWidth
  <2>3. ASSUME NEW q \in p .. p + ScanWidth - 1
        PROVE  q \in Nat /\ q >= p /\ start <= q
    BY <1>0, <2>1, <2>2
  <2> QED
    BY <1>0, <1>1, <1>2, <1>4, <2>1, <2>2, <2>3 DEF Scan, stringVars
<1>5. CASE Found
  <2>1. start <= p /\ start' = start /\ end' \in Nat
    BY <1>0, <1>5 DEF Found
  <2>2. CASE Close(p)
    <3>1. /\ input' = [input EXCEPT ![p] = 0]
          /\ p' = p + 1 /\ pc' = "structure_close_or_comma"
          /\ UNCHANGED <<document, input_end>>
      BY <2>2 DEF Close, Push
    <3>2. InPlaceStep
      BY <1>0, <2>1, <3>1 DEF InPlaceStep
    <3> QED
      BY <1>0, <2>1, <3>1, <3>2, PlaceKept
  <2>3. CASE IllegalCodepoint
    <3>1. InPlaceStep /\ pc' = "failed"
      BY <1>0, <2>3 DEF IllegalCodepoint, InPlaceStep
    <3> QED
      BY <1>0, <2>1, <3>1, PlaceKept
  <2>4. CASE end' = p /\ Goto(p, "slow") /\ UNCHANGED input
    <3>1. Onward /\ pc' = "slow" /\ p' = p
      BY <1>0, <2>4, GoesOn DEF Goto
    <3> QED
      BY <1>0, <2>1, <2>4, <3>1, OnwardIsInPlace, PlaceKept
  <2> QED
    BY <1>5, <2>2, <2>3, <2>4 DEF Found
<1> QED
  BY <1>3, <1>4, <1>5

\* What is written ends before the place reading goes on at.
LEMMA WritesInPlace ==
    ASSUME PlaceInv, pc = "slow", NEW bytes, NEW q \in Nat,
           Len(bytes) \in Nat, p + Len(bytes) <= q,
           Write(bytes, q), start' = start
    PROVE  PlaceInv' /\ InPlaceStep
<1>0. /\ p \in Nat /\ start \in Nat /\ end \in Nat /\ input_end \in Nat
      /\ DOMAIN input = 0 .. input_end - 1
      /\ start <= end /\ end <= p
  BY DEF PlaceInv
<1>1. /\ end' = end + Len(bytes) /\ p' = q /\ pc' = "slow"
      /\ UNCHANGED <<document, input_end>>
  BY DEF Write, Goto
<1>2. DOMAIN input' = DOMAIN input
  BY DEF Write
<1>3. ASSUME NEW i \in DOMAIN input, input'[i] # input[i]
      PROVE  start <= i /\ i < q
  <2>1. i \in end .. end + Len(bytes) - 1
    BY <1>3 DEF Write
  <2> QED
    BY <1>0, <2>1
<1>4. InPlaceStep
  BY <1>0, <1>1, <1>2, <1>3 DEF InPlaceStep
<1>5. start' <= end' /\ end' <= p' /\ start' \in Nat /\ end' \in Nat
  BY <1>0, <1>1
<1> QED
  BY <1>1, <1>4, <1>5, PlaceKept

\* A code point has at most four bytes, the least of its escapes six.
LEMMA EncodedLength ==
    ASSUME NEW c
    PROVE  Len(write_utf8(c)) \in Nat /\ Len(write_utf8(c)) <= 4
BY DEF write_utf8

\* So does a sequence of UTF-8, which is as long as the text it is copied from.
LEMMA SequenceCopied ==
    ASSUME NEW n \in 1 .. 4
    PROVE  Len([i \in 1 .. n |-> input[p + i - 1]]) = n
<1> DEFINE s == [i \in 1 .. n |-> input[p + i - 1]]
           S == {input[p + i - 1] : i \in 1 .. n}
<1>1. s \in [1 .. n -> S]
  OBVIOUS
<1>2. n \in Nat
  OBVIOUS
<1>3. s \in Seq(S)
  <2> HIDE DEF s, S
  <2> QED
    BY <1>1, <1>2
<1>4. DOMAIN s = 1 .. Len(s) /\ Len(s) \in Nat
  BY <1>3, LenProperties
<1>5. 1 .. Len(s) = 1 .. n
  BY <1>1, <1>4
<1> QED
  BY <1>2, <1>4, <1>5

\* parse_string_slow.
LEMMA SlowInPlace ==
    ASSUME PlaceInv, parse_string_slow
    PROVE  PlaceInv' /\ InPlaceStep
<1>0. /\ p \in Nat /\ start \in Nat /\ end \in Nat /\ input_end \in Nat
      /\ DOMAIN input = 0 .. input_end - 1
      /\ start' = start
  BY DEF PlaceInv, parse_string_slow
<1>1. ASSUME pc = "slow" PROVE start <= end /\ end <= p
  BY <1>1 DEF PlaceInv
<1>2. ASSUME NEW at, NEW code, Refuse(at, code)
      PROVE  PlaceInv' /\ InPlaceStep
  <2>1. Onward /\ pc' \notin StringPlaces /\ end' = end
    BY <1>2, FailsInPlace DEF Refuse
  <2> QED
    BY <1>0, <2>1, OnwardIsInPlace, PlaceKept DEF StringPlaces
<1>3. ASSUME pc = "slow", NEW bytes, NEW n \in Nat,
             Len(bytes) \in Nat, Len(bytes) <= n, Write(bytes, p + n)
      PROVE  PlaceInv' /\ InPlaceStep
  <2>1. p + n \in Nat /\ p + Len(bytes) <= p + n
    BY <1>0, <1>3
  <2> QED
    BY <1>0, <1>3, <2>1, WritesInPlace
<1>4. CASE SlowEnd
  BY <1>2, <1>4 DEF SlowEnd
<1>5. CASE SlowControl
  <2>1. InPlaceStep /\ pc' = "failed" /\ end' = end
    BY <1>0, <1>5 DEF SlowControl, IllegalCodepoint, InPlaceStep
  <2> QED
    BY <1>0, <2>1, PlaceKept
<1>6. CASE SlowClose
  <2>1. /\ input' = [input EXCEPT ![end] = 0]
        /\ p' = p + 1 /\ pc' = "structure_close_or_comma" /\ end' = end
        /\ UNCHANGED <<document, input_end>>
        /\ start <= end /\ end <= p
    BY <1>1, <1>6 DEF SlowClose, Reading, Close, Push
  <2>2. InPlaceStep
    BY <1>0, <2>1 DEF InPlaceStep
  <2> QED
    BY <1>0, <2>1, <2>2, PlaceKept
<1>7. CASE SlowEscape
  <2>1. ASSUME NEW c, Write(<<c>>, p + 2), pc = "slow"
        PROVE  PlaceInv' /\ InPlaceStep
    <3>1. Len(<<c>>) \in Nat /\ Len(<<c>>) <= 2
      OBVIOUS
    <3> DEFINE bytes == <<c>>
    <3> HIDE DEF bytes
    <3> QED
      BY <1>3, <2>1, <3>1 DEF bytes
  <2> QED
    BY <1>2, <1>7, <2>1 DEF SlowEscape, Reading
<1>8. CASE SlowUnicode
  <2>1. ASSUME NEW c, Write(write_utf8(c), p + 2 + 4), pc = "slow"
        PROVE  PlaceInv' /\ InPlaceStep
    <3>1. Len(write_utf8(c)) \in Nat /\ Len(write_utf8(c)) <= 6
      BY EncodedLength
    <3>2. p + 2 + 4 = p + 6
      BY <1>0
    <3> QED
      BY <1>3, <2>1, <3>1, <3>2
  <2> QED
    BY <1>2, <1>8, <2>1 DEF SlowUnicode, Reading
<1>9. CASE SlowSurrogates
  <2>1. ASSUME NEW c, Write(write_utf8(c), p + 6 + 6), pc = "slow"
        PROVE  PlaceInv' /\ InPlaceStep
    <3>1. Len(write_utf8(c)) \in Nat /\ Len(write_utf8(c)) <= 12
      BY EncodedLength
    <3>2. p + 6 + 6 = p + 12
      BY <1>0
    <3> QED
      BY <1>3, <2>1, <3>1, <3>2
  <2> QED
    BY <1>2, <1>9, <2>1 DEF SlowSurrogates, Reading
<1>10. CASE SlowUtf8
  <2> DEFINE n == SequenceLength(input[p])
  <2>1. pc = "slow" /\ n \in 0 .. 4
    BY <1>10 DEF SlowUtf8, Reading, SequenceLength
  <2>2. ASSUME n > 0, Write([i \in 1 .. n |-> input[p + i - 1]], p + n)
        PROVE  PlaceInv' /\ InPlaceStep
    <3>1. n \in 1 .. 4 /\ n \in Nat
      BY <2>1, <2>2
    <3> HIDE DEF n
    <3>2. Len([i \in 1 .. n |-> input[p + i - 1]]) = n
      BY <3>1, SequenceCopied
    <3>3. n <= n
      BY <3>1
    <3> QED
      BY <1>3, <2>1, <2>2, <3>1, <3>2, <3>3
  <2> QED
    BY <1>2, <1>10, <2>2 DEF SlowUtf8
<1> QED
  BY <1>4, <1>5, <1>6, <1>7, <1>8, <1>9, <1>10 DEF parse_string_slow

\* Every step of the parser is in place and keeps the invariant.
LEMMA PlaceStep ==
    PlaceInv /\ [Next]_vars =>
        /\ PlaceInv'
        /\ [\A i \in DOMAIN input :
                input'[i] # input[i] => start <= i /\ i < p']_vars
<1> SUFFICES ASSUME PlaceInv, [Next]_vars
             PROVE  /\ PlaceInv'
                    /\ vars' = vars \/ InPlaceStep
  BY DEF InPlaceStep
<1>1. ASSUME Onward, pc' \notin StringPlaces, UNCHANGED stringVars
      PROVE  PlaceInv' /\ InPlaceStep
  <2>1. start \in Nat /\ end \in Nat
    BY DEF PlaceInv
  <2> QED
    BY <1>1, <2>1, OnwardIsInPlace, PlaceKept DEF stringVars, StringPlaces
<1>2. CASE \/ ParseRoot \/ ArrayCloseOrElement \/ NextElement
           \/ StructureCloseOrComma \/ PopArray
  BY <1>1, <1>2, OutsideStrings
<1>3. CASE parse_number /\ UNCHANGED stringVars
  BY <1>1, <1>3, NumbersInPlace
<1>4. CASE parse_string
  BY <1>4, ScanInPlace, SlowInPlace DEF parse_string
<1>5. CASE Switch
  <2>1. ASSUME NEW at, NEW code, Fail(at, code), UNCHANGED stringVars
        PROVE  PlaceInv' /\ InPlaceStep
    BY <1>1, <2>1, FailsInPlace
  <2>2. ASSUME NEW name \in Literals, Literal(name, p), UNCHANGED stringVars
        PROVE  PlaceInv' /\ InPlaceStep
    BY <1>1, <2>2, LiteralsInPlace
  <2>3. CASE StartNumber /\ UNCHANGED stringVars
    BY <1>1, <2>3, NumbersInPlace
  <2>4. CASE StartString
    BY <2>4, ScanInPlace
  <2> QED
    BY <1>5, <2>1, <2>2, <2>3, <2>4 DEF Switch
<1>6. CASE UNCHANGED vars
  <2>1. UNCHANGED <<document, input_end, input, p, pc, start, end>>
    BY <1>6 DEF vars, textVars, stringVars
  <2> QED
    BY <1>6, <2>1 DEF PlaceInv, Unread, original
<1> QED
  BY <1>2, <1>3, <1>4, <1>5, <1>6 DEF Next

\* What is still to be read is as it was written, in every behaviour.
THEOREM ReadingStaysAhead == Spec => []InPlace
<1>1. PlaceInv /\ [Next]_vars => PlaceInv'
  BY PlaceStep
<1>2. PlaceInv => InPlace
  BY DEF PlaceInv, InPlace
<1> QED
  BY <1>1, <1>2, PlaceInitial, PTL DEF Spec

\* What was decoded is never written to again, in any behaviour.
THEOREM DecodedStays == Spec => DecodesInsideToken
<1>1. PlaceInv /\ [Next]_vars => PlaceInv'
  BY PlaceStep
<1>2. PlaceInv /\ [Next]_vars =>
          [\A i \in DOMAIN input :
              input'[i] # input[i] => start <= i /\ i < p']_vars
  BY PlaceStep
<1> QED
  BY <1>1, <1>2, PlaceInitial, PTL DEF Spec, DecodesInsideToken
=============================================================================
