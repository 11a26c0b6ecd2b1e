------------------------- MODULE ValueMeaningProofs -------------------------
(***************************************************************************)
(* For every text: what is parsed is what the text says.  The parser is    *)
(* followed through the reading of the text by JsonText: at every place in *)
(* it the text has been read to a place of the grammar that belongs to it, *)
(* with the same values, the same bytes of the string and the same digits  *)
(* of the number that is being parsed.                                     *)
(***************************************************************************)
EXTENDS ValueParserProofs, JsonTextProofs, FunctionTheorems, FiniteSetTheorems

-----------------------------------------------------------------------------
(***************************************************************************)
(* Where the parser is in the reading of the text.                         *)
(***************************************************************************)
\* What may be read of a text.
Reading_(k) == Readings(original, input_end)[k]

\* The places of the parser, and the places of the grammar it is at.
Agrees(place) ==
    \/ pc = "root" /\ place = "text"
    \/ pc = "array_close_or_element" /\ place = "first"
    \/ pc \in {"next_element", "switch"} /\ place \in {"first", "value"}
    \/ pc = "structure_close_or_comma" /\ place = "more"
    \/ pc = "pop_array" /\ place \in {"first", "more"}
    \/ pc = "done" /\ place = "end"
    \/ pc \in StringPlaces /\ place = "string"
    \/ pc = "first_digit" /\ place = "integer"
    \/ pc = "digits" /\ place \in {"integer", "digits"}
    \/ pc = "point" /\ place \in {"zero", "digits"}
    \/ pc = "first_fraction_digit" /\ place = "point"
    \/ pc = "fraction" /\ place \in {"point", "fraction"}
    \/ pc = "exponent" /\ place \in {"zero", "digits", "fraction"}
    \/ pc = "exponent_sign" /\ place = "mark"
    \/ pc = "first_exponent_digit" /\ place \in {"mark", "sign"}
    \/ pc = "exponent_digits" /\ place \in {"mark", "sign", "exponent"}
    \/ pc = "store" /\ place \in {"zero", "digits", "fraction", "exponent"}
    \/ pc = "failed" /\ place \in Places

\* The values that were parsed are those that were read.
\* What the digits of a number make: itself up to Int53Max, and what rounding
\* leaves of it beyond.
Collected(mantissa, x) ==
    /\ mantissa <= Int53Max => x = mantissa
    /\ mantissa > Int53Max => x = Infinity \/ (x \in Nat /\ x >= Int53Max)
    /\ mantissa > Int53Max + 1 => x = Infinity \/ x >= Int53Max + 2

DoubleMeans(v, w) ==
    /\ v.negative = w.negative
    /\ FewFractionDigits(w) =>
          \E x \in Int : /\ Collected(w.mantissa, x)
                        /\ v.units = Scaled(x, w.power)

ValueMeans(text, bound, v, w) ==
    \/ /\ v.type = "string"
       /\ w = [type |-> "string", bytes |-> Slice(text, v.start, v.end)]
       /\ v.start \in Nat /\ v.end \in Nat /\ v.start <= v.end /\ v.end <= bound
    \/ /\ v.type = "integer" /\ w.type = "number"
       /\ FitsInt(w) /\ w.mantissa \in Nat /\ w.power = 0
       /\ v.number = IF w.negative THEN -w.mantissa ELSE w.mantissa
    \/ /\ v.type = "double" /\ w.type = "number"
       /\ w.mantissa \in Nat /\ w.power \in Int
       /\ v = Double(v.negative, v.units)
       /\ ~FitsInt(w)
       /\ DoubleMeans(v, w)
    \/ v.type \in Literals /\ w = [type |-> v.type]

ValuesMean(text, bound, vals, says) ==
    /\ IsList(vals) /\ IsList(says) /\ Len(vals) = Len(says)
    /\ \A k \in 1 .. Len(says) : ValueMeans(text, bound, vals[k], says[k])

\* Values end before the string that is being decoded.
Bound == IF pc \in StringPlaces THEN start ELSE p

SameBreaks ==
    \A i \in 0 .. input_end - 1 :
        /\ (input[i] = LineFeed) = (original[i] = LineFeed)
        /\ (input[i] = CarriageReturn) = (original[i] = CarriageReturn)

\* Only blanks are from one offset to another.
Gap(from, to) ==
    from \in Nat /\ from <= to /\ \A i \in from .. to - 1 : original[i] \in Blank

TokenMatches(s) ==
    /\ pc \in {"root", "array_close_or_element", "structure_close_or_comma"} =>
          s.at = p
    /\ pc \in {"next_element", "switch", "pop_array", "done"} => Gap(s.at, p)
    /\ pc = "next_element" /\ s.place = "first" => p < input_end
    /\ pc = "next_element" /\ s.place = "first" =>
          original[p] \notin Blank \cup {CloseBracket}
    /\ pc = "switch" => p < input_end /\ original[p] \notin Blank
    /\ pc = "switch" /\ s.place = "first" => original[p] # CloseBracket
    /\ pc = "pop_array" => p < input_end /\ original[p] = CloseBracket
    /\ pc = "done" => p = input_end

StringMatches(s) ==
    pc \in StringPlaces =>
        /\ s.at = p
        /\ s.bytes = IF pc = "slow" THEN Slice(input, start, end)
                     ELSE Slice(original, start, p)
        /\ \A i \in start .. p - 1 :
              original[i] \notin {LineFeed, CarriageReturn}
        /\ pc \in {"scan", "found"} => \A i \in start .. p - 1 : Unread(i)
        /\ pc = "found" =>
              p < input_end /\ ~is_plain_string_character(original[p])

Limit == IntMax + (IF negative THEN 1 ELSE 0)

NumberRecords ==
    [negative : BOOLEAN, mantissa : Nat, fraction : Nat, down : BOOLEAN,
     exponent : Nat, whole : BOOLEAN]

NumberMeans(m) ==
    /\ m \in NumberRecords
    /\ m.negative = negative
    /\ m.whole => m.fraction = 0 /\ m.exponent = 0
    /\ ~try_double => m.whole /\ u = m.mantissa
    /\ try_double => d \in Int /\ Collected(m.mantissa, d)
    /\ try_double /\ m.whole => m.mantissa > Limit
    /\ negativeExponent = m.down
    /\ exp = IF m.exponent > IntMax THEN IntMax ELSE m.exponent
    /\ exponent = (IF pc # "store" THEN 0 ELSE IF m.down THEN -exp ELSE exp)
                  - m.fraction

NumberMatches(s) ==
    s.place \in NumberPlaces /\ pc # "failed" =>
        /\ s.at = p /\ p < input_end
        /\ NumberMeans(s.number)
        /\ s.place \notin {"integer", "zero", "digits"} => ~s.number.whole
        /\ s.place \notin {"sign", "exponent"} => ~s.number.down
        /\ s.place # "exponent" => s.number.exponent = 0
        /\ pc = "digits" /\ s.place = "integer" => original[p] \in Digits \ {Zero}
        /\ pc = "point" /\ s.place = "digits" => original[p] \notin Digits
        /\ pc = "fraction" /\ s.place = "point" => original[p] \in Digits
        /\ pc = "exponent" => original[p] \notin Following[s.place] \ ExponentMarks
        /\ pc = "first_exponent_digit" /\ s.place = "mark" =>
              original[p] \notin {Plus, Minus}
        /\ pc = "exponent_digits" /\ s.place # "exponent" =>
              original[p] \in Digits
        /\ pc = "store" => original[p] \notin Following[s.place]

FailureMatches(s) ==
    pc = "failed" =>
        /\ After(original, input_end, s) = s
        /\ ~IsArray(original, input_end, s)
        /\ \E at \in Offends(original, input_end, s) :
              /\ at \in 0 .. input_end
              /\ error.line = LineOf(input, at)
              /\ error.column = ColumnOf(input, at)

Matches(s) ==
    /\ p \in 0 .. input_end
    /\ Agrees(s.place)
    /\ ValuesMean(input, Bound, values, s.says)
    /\ ~s.breaks => SameBreaks
    /\ TokenMatches(s)
    /\ StringMatches(s)
    /\ NumberMatches(s)
    /\ FailureMatches(s)

MeaningInv == \E k \in Nat : \E s \in {Reading_(k)} : Matches(s)

\* The text and its length.
TextInv == document \in Documents /\ input_end = document.length

\* A step of the parser is one step of reading or none.
Keeps(s) ==
    \E r : (r = s \/ r = After(original, input_end, s)) /\ Matches(r)'

-----------------------------------------------------------------------------
(***************************************************************************)
(* Values.                                                                 *)
(***************************************************************************)
\* A string that was decoded stays what it is while nothing is written to it.
LEMMA ValuesKept ==
    ASSUME NEW old, NEW new, NEW from \in Nat, NEW to \in Nat, from <= to,
           NEW vals, NEW says, ValuesMean(old, from, vals, says),
           \A i \in 0 .. from - 1 : new[i] = old[i]
    PROVE  ValuesMean(new, to, vals, says)
<1>1. ASSUME NEW k \in 1 .. Len(says),
             ValueMeans(old, from, vals[k], says[k])
      PROVE  ValueMeans(new, to, vals[k], says[k])
  <2> DEFINE v == vals[k]
             w == says[k]
  <2>1. CASE v.type = "string" /\ w = [type |-> "string",
                                       bytes |-> Slice(old, v.start, v.end)]
             /\ v.start \in Nat /\ v.end \in Nat
             /\ v.start <= v.end /\ v.end <= from
    <3>1. Slice(new, v.start, v.end) = Slice(old, v.start, v.end)
      <4> HIDE DEF v
      <4>1. \A i \in 1 .. v.end - v.start :
                new[v.start + i - 1] = old[v.start + i - 1]
        BY <2>1
      <4> QED
        BY <4>1 DEF Slice
    <3> HIDE DEF v, w
    <3> QED
      BY <2>1, <3>1 DEF ValueMeans, v, w
  <2>2. CASE ~(v.type = "string" /\ w = [type |-> "string",
                                         bytes |-> Slice(old, v.start, v.end)]
               /\ v.start \in Nat /\ v.end \in Nat
               /\ v.start <= v.end /\ v.end <= from)
    BY <1>1, <2>2 DEF ValueMeans
  <2> QED
    BY <2>1, <2>2
<1> QED
  BY <1>1 DEF ValuesMean

\* A value more.
LEMMA ValuesPushed ==
    ASSUME NEW text, NEW bound, NEW vals, NEW says,
           ValuesMean(text, bound, vals, says),
           NEW v, NEW w, ValueMeans(text, bound, v, w)
    PROVE  ValuesMean(text, bound, Append(vals, v), Append(says, w))
<1>1. /\ IsList(vals) /\ IsList(says) /\ Len(vals) = Len(says)
      /\ Len(says) \in Nat
  BY DEF ValuesMean, IsList
<1>2. /\ IsList(Append(vals, v)) /\ Len(Append(vals, v)) = Len(says) + 1
      /\ \A i \in 1 .. Len(says) : Append(vals, v)[i] = vals[i]
      /\ Append(vals, v)[Len(says) + 1] = v
  BY <1>1, AppendToList
<1>3. /\ IsList(Append(says, w)) /\ Len(Append(says, w)) = Len(says) + 1
      /\ \A i \in 1 .. Len(says) : Append(says, w)[i] = says[i]
      /\ Append(says, w)[Len(says) + 1] = w
  BY <1>1, AppendToList
<1>4. ASSUME NEW k \in 1 .. Len(says) + 1
      PROVE  ValueMeans(text, bound, Append(vals, v)[k], Append(says, w)[k])
  <2>1. CASE k = Len(says) + 1
    BY <1>2, <1>3, <2>1
  <2>2. CASE k \in 1 .. Len(says)
    <3>1. Append(vals, v)[k] = vals[k] /\ Append(says, w)[k] = says[k]
      BY <1>2, <1>3, <2>2
    <3>2. ValueMeans(text, bound, vals[k], says[k])
      BY <2>2 DEF ValuesMean
    <3> QED
      BY <3>1, <3>2
  <2> QED
    BY <1>1, <2>1, <2>2
<1> QED
  BY <1>2, <1>3, <1>4 DEF ValuesMean

-----------------------------------------------------------------------------
(***************************************************************************)
(* What every step relies on.                                              *)
(***************************************************************************)
LEMMA TextIs ==
    ASSUME TextInv
    PROVE  /\ input_end \in Nat
           /\ original \in [0 .. input_end - 1 -> Bytes]
BY DocumentsAssumption DEF TextInv, original

\* What is still to be read is what it was.
LEMMA ByteIs ==
    ASSUME PlaceInv, NEW i, i \in p .. input_end - 1
    PROVE  /\ input[i] = original[i]
           /\ ByteAt(original, input_end, i) = original[i]
BY DEF PlaceInv, Unread, ByteAt

LEMMA NoByteAtEnd ==
    ASSUME PlaceInv, NEW i, i \in Nat, i >= input_end
    PROVE  ByteAt(original, input_end, i) = NoByte
BY DEF PlaceInv, ByteAt

\* Where values end.
LEMMA BoundIs ==
    ASSUME PlaceInv
    PROVE  Bound \in Nat /\ Bound <= p /\ p \in Nat
BY DEF PlaceInv, Bound, StringPlaces

LEMMA AgreesOnPlace ==
    ASSUME NEW place, Agrees(place)
    PROVE  place \in Places
BY DEF Agrees, Places, NumberPlaces

\* The values of a step that leaves them and the text alone.
LEMMA ValuesStay ==
    ASSUME PlaceInv, NEW s, Matches(s), UNCHANGED <<input, values>>,
           p' \in Nat, p' >= p,
           pc' \in StringPlaces => start' \in Nat /\ start' >= Bound
    PROVE  ValuesMean(input', Bound', values', s.says)
<1>1. ValuesMean(input, Bound, values, s.says)
  BY DEF Matches
<1>2. Bound \in Nat /\ Bound' \in Nat /\ Bound <= Bound'
  BY BoundIs DEF Bound, PlaceInv, StringPlaces
<1>3. \A i \in 0 .. Bound - 1 : input'[i] = input[i]
  OBVIOUS
<1>4. values' = values
  OBVIOUS
<1> HIDE DEF Bound
<1> QED
  BY <1>1, <1>2, <1>3, <1>4, ValuesKept

\* A failure, where the text can be read no further.
LEMMA FailsRight ==
    ASSUME PlaceInv, TextInv, NEW s, Matches(s),
           NEW r, r.says = s.says, r.breaks = s.breaks, r.place \in Places,
           After(original, input_end, r) = r,
           ~IsArray(original, input_end, r),
           NEW at, at \in Offends(original, input_end, r), at \in 0 .. input_end,
           NEW code, NEW arg, make_error(at, code, arg), pc' = "failed",
           UNCHANGED <<document, input_end, input, p, values>>
    PROVE  Matches(r)'
<1>1. ValuesMean(input', Bound', values', r.says)
  BY ValuesStay, BoundIs DEF StringPlaces
<1>2. Agrees(r.place)'
  BY DEF Agrees
<1>3. FailureMatches(r)'
  <2>1. error'.line = LineOf(input, at) /\ error'.column = ColumnOf(input, at)
    BY DEF make_error
  <2>2. original' = original
    BY DEF original
  <2> QED
    BY <2>1, <2>2 DEF FailureMatches
<1>4. ~r.breaks => SameBreaks'
  BY DEF Matches, SameBreaks, original
<1>5. TokenMatches(r)' /\ StringMatches(r)' /\ NumberMatches(r)'
  BY DEF TokenMatches, StringMatches, StringPlaces, NumberMatches
<1>6. p' \in 0 .. input_end'
  BY DEF Matches
<1> QED
  BY <1>1, <1>2, <1>3, <1>4, <1>5, <1>6 DEF Matches

\* A step that says nothing.
LEMMA GoesOnRight ==
    ASSUME PlaceInv, TextInv, NEW s, Matches(s),
           NEW r, r.says = s.says, ~r.breaks => ~s.breaks,
           UNCHANGED <<document, input_end, input, values>>,
           p' \in p .. input_end, pc' # "failed",
           pc' \in StringPlaces => start' \in Nat /\ start' >= Bound,
           Agrees(r.place)',
           TokenMatches(r)', StringMatches(r)', NumberMatches(r)'
    PROVE  Matches(r)'
<1>1. ValuesMean(input', Bound', values', r.says)
  <2>1. p' \in Nat /\ p' >= p
    BY TextIs, BoundIs
  <2> QED
    BY <2>1, ValuesStay
<1>2. FailureMatches(r)'
  BY DEF FailureMatches
<1>3. ~r.breaks => SameBreaks'
  BY DEF Matches, SameBreaks, original
<1>4. p' \in 0 .. input_end'
  BY BoundIs, TextIs
<1> QED
  BY <1>1, <1>2, <1>3, <1>4 DEF Matches

-----------------------------------------------------------------------------
(***************************************************************************)
(* Between the values.                                                     *)
(***************************************************************************)
TokenPlaces == {"text", "first", "value", "more", "end"}

\* The token a step of the parser comes to.
LEMMA TokenFrom ==
    ASSUME PlaceInv, TextInv, NEW s, NEW from, Gap(s.at, from), from >= p,
           from \in Nat,
           NEW q, q \in from .. input_end,
           \A i \in from .. q - 1 : is_whitespace(input[i]),
           q < input_end => ~is_whitespace(input[q])
    PROVE  /\ Token(original, input_end, s.at) = q
           /\ Gap(s.at, q)
<1>0. input_end \in Nat /\ p \in Nat
  BY TextIs, BoundIs
<1>1. \A i \in from .. q - 1 : original[i] \in Blank
  BY <1>0, ByteIs DEF is_whitespace, Blank
<1>2. q < input_end => original[q] \notin Blank
  BY <1>0, ByteIs DEF is_whitespace, Blank
<1>3. Gap(s.at, q)
  BY <1>0, <1>1 DEF Gap
<1>4. s.at \in Nat /\ q \in s.at .. input_end
  BY <1>0 DEF Gap
<1>5. \A i \in s.at .. q - 1 : original[i] \in Blank
  BY <1>3 DEF Gap
<1> QED
  BY <1>0, <1>2, <1>3, <1>4, <1>5, TokenIs

LEMMA TokenAtEnd ==
    ASSUME PlaceInv, TextInv, NEW s, NEW from, Gap(s.at, from), from >= p,
           from \in 0 .. input_end, OnlySpaceFrom(from)
    PROVE  /\ Token(original, input_end, s.at) = input_end
           /\ Gap(s.at, input_end)
           /\ ByteAt(original, input_end, input_end) = NoByte
<1>1. input_end \in Nat
  BY TextIs
<1>2. \A i \in from .. input_end - 1 : is_whitespace(input[i])
  BY DEF OnlySpaceFrom
<1>3. input_end \in from .. input_end /\ from \in Nat
      /\ ~(input_end < input_end) /\ input_end >= input_end
  BY <1>1
<1>4. Token(original, input_end, s.at) = input_end /\ Gap(s.at, input_end)
  BY <1>2, <1>3, TokenFrom
<1> QED
  BY <1>1, <1>3, <1>4, NoByteAtEnd

LEMMA TokenHere ==
    ASSUME PlaceInv, TextInv, NEW s, NEW from, Gap(s.at, from), from >= p,
           from \in Nat,
           NEW q, q \in from .. input_end - 1, SkipsTo(from, q)
    PROVE  /\ Token(original, input_end, s.at) = q
           /\ Gap(s.at, q)
           /\ q \in p .. input_end - 1 /\ q \in Nat /\ q \in 0 .. input_end
           /\ ByteAt(original, input_end, q) = input[q]
           /\ original[q] = input[q] /\ original[q] \notin Blank
<1>1. input_end \in Nat /\ p \in Nat
  BY TextIs, BoundIs
<1>2. \A i \in from .. q - 1 : is_whitespace(input[i])
  BY DEF SkipsTo
<1>3. ~is_whitespace(input[q])
  BY DEF SkipsTo
<1>4. Token(original, input_end, s.at) = q /\ Gap(s.at, q)
  <2>1. q \in from .. input_end
    BY <1>1
  <2> QED
    BY <1>2, <1>3, <2>1, TokenFrom
<1>5. q \in p .. input_end - 1 /\ q \in Nat /\ q \in 0 .. input_end
  BY <1>1
<1>6. ByteAt(original, input_end, q) = input[q] /\ original[q] = input[q]
  BY <1>5, ByteIs
<1>7. original[q] \notin Blank
  BY <1>3, <1>6 DEF is_whitespace, Blank
<1> QED
  BY <1>4, <1>5, <1>6, <1>7

LEMMA OffendsAtToken ==
    ASSUME NEW t, NEW n, NEW s, s.place \in TokenPlaces
    PROVE  Offends(t, n, s) = {Token(t, n, s.at)}
BY DEF Offends, TokenPlaces, NumberPlaces

\* A failure at the token.
LEMMA FailsAtToken ==
    ASSUME PlaceInv, TextInv, NEW s, Matches(s),
           NEW r, r.says = s.says, r.breaks = s.breaks,
           r = s \/ r = After(original, input_end, s),
           r.place \in TokenPlaces,
           NEW q, q \in 0 .. input_end,
           Token(original, input_end, r.at) = q,
           After(original, input_end, r) = r,
           r.place = "end" => q # input_end,
           NEW code, Fail(q, code)
    PROVE  Keeps(s)
<1>1. ~IsArray(original, input_end, r)
  BY DEF IsArray
<1>2. q \in Offends(original, input_end, r)
  BY OffendsAtToken
<1>3. /\ make_error(q, code, 0) /\ pc' = "failed"
      /\ UNCHANGED <<document, input_end, input, p, values>>
  BY DEF Fail
<1>4. r.place \in Places
  BY DEF TokenPlaces, Places
<1>5. Matches(r)'
  BY <1>1, <1>2, <1>3, <1>4, FailsRight
<1> QED
  BY <1>5 DEF Keeps

\* A step to a place between the values.
LEMMA GoesToToken ==
    ASSUME PlaceInv, TextInv, NEW s, Matches(s),
           NEW r, r.says = s.says, r.breaks = s.breaks,
           r = s \/ r = After(original, input_end, s),
           NEW q, q \in p .. input_end, NEW place, Goto(q, place),
           UNCHANGED input,
           place \notin StringPlaces \cup {"failed"},
           r.place \in TokenPlaces,
           Agrees(r.place)', TokenMatches(r)'
    PROVE  Keeps(s)
<1>1. /\ p' = q /\ pc' = place
      /\ UNCHANGED <<document, input_end, input, values>>
  BY DEF Goto
<1>2. StringMatches(r)' /\ NumberMatches(r)'
  BY <1>1 DEF StringMatches, StringPlaces, NumberMatches, NumberPlaces, TokenPlaces
<1>3. Matches(r)'
  BY <1>1, <1>2, GoesOnRight
<1> QED
  BY <1>3 DEF Keeps

LEMMA ParseRootKeeps ==
    ASSUME PlaceInv, TextInv, NEW s, Matches(s), ParseRoot
    PROVE  Keeps(s)
<1>1. /\ s.place = "text" /\ s.at = p /\ p \in 0 .. input_end
      /\ input_end \in Nat
  BY TextIs DEF ParseRoot, Matches, Agrees, StringPlaces, TokenMatches
<1>2. Gap(s.at, p) /\ p >= p /\ p \in Nat /\ s.place \in TokenPlaces
  BY <1>1 DEF Gap, TokenPlaces
<1>3. After(original, input_end, s) = AfterToken(original, input_end, s)
  BY <1>1, AfterIs
<1>4. CASE OnlySpaceFrom(p) /\ Fail(input_end, "MISSING_ROOT_ELEMENT")
  <2>1. AfterToken(original, input_end, s) = s
    BY <1>1, <1>2, <1>4, TokenAtEnd, StuckAtToken DEF NoByte, OpenBracket
  <2> QED
    BY <1>1, <1>2, <1>3, <1>4, <2>1, TokenAtEnd, FailsAtToken
<1>5. ASSUME NEW q \in p .. input_end - 1, SkipsTo(p, q),
             input[q] # OpenBracket, Fail(q, "BAD_ROOT")
      PROVE  Keeps(s)
  <2>1. AfterToken(original, input_end, s) = s
    BY <1>1, <1>2, <1>5, TokenHere, StuckAtToken
  <2> QED
    BY <1>1, <1>2, <1>3, <1>5, <2>1, TokenHere, FailsAtToken
<1>6. ASSUME NEW q \in p .. input_end - 1, SkipsTo(p, q),
             input[q] = OpenBracket, Goto(q + 1, "array_close_or_element"),
             UNCHANGED input
      PROVE  Keeps(s)
  <2>1. PICK r : r = To(s, q + 1, "first")
    OBVIOUS
  <2>2. After(original, input_end, s) = r
    <3>1. /\ Token(original, input_end, s.at) = q
          /\ ByteAt(original, input_end, q) = OpenBracket
      BY <1>1, <1>2, <1>6, TokenHere
    <3> QED
      BY <1>1, <1>3, <2>1, <3>1, OpensArray
  <2>3. /\ r.at = q + 1 /\ r.place = "first" /\ r.says = s.says
        /\ r.breaks = s.breaks
    BY <2>1 DEF To, Progress
  <2>4. q + 1 \in p .. input_end
    BY <1>1
  <2>5. p' = q + 1 /\ pc' = "array_close_or_element"
    BY <1>6 DEF Goto
  <2>6. Agrees(r.place)' /\ TokenMatches(r)' /\ r.place \in TokenPlaces
    BY <2>3, <2>5 DEF Agrees, TokenMatches, TokenPlaces
  <2> QED
    BY <1>6, <2>2, <2>3, <2>4, <2>6, GoesToToken DEF StringPlaces
<1> QED
  BY <1>4, <1>5, <1>6 DEF ParseRoot

\* There is no value at the end of the text.
LEMMA NoValueAtEnd ==
    ASSUME NEW t, NEW n \in Nat, NEW s, NEW q \in Nat,
           ByteAt(t, n, q) = NoByte,
           Token(t, n, s.at) = q, s.place \in {"first", "value"}
    PROVE  After(t, n, s) = s
<1>1. ByteAt(t, n, q) \notin {Quote, Minus, CloseBracket, 110, 102, 116} \cup Digits
  BY DEF NoByte, Quote, Minus, CloseBracket, Digits
<1>2. WordsAt(t, n, q) = {}
  BY <1>1, WordBegins
<1>3. BeginValue(t, n, s, q) = s
  BY <1>1, <1>2, IsNoValue
<1> QED
  BY <1>1, <1>3, AfterIs, BeginsValue

LEMMA ArrayCloseOrElementKeeps ==
    ASSUME PlaceInv, TextInv, NEW s, Matches(s), ArrayCloseOrElement
    PROVE  Keeps(s)
<1>1. /\ s.place = "first" /\ s.at = p /\ p \in 0 .. input_end
      /\ input_end \in Nat
  BY TextIs DEF ArrayCloseOrElement, Matches, Agrees, StringPlaces, TokenMatches
<1>2. Gap(s.at, p) /\ p >= p /\ p \in Nat /\ s.place \in TokenPlaces
  BY <1>1 DEF Gap, TokenPlaces
<1>3. CASE OnlySpaceFrom(p) /\ Fail(input_end, "UNEXPECTED_END")
  <2>1. /\ Token(original, input_end, s.at) = input_end
        /\ ByteAt(original, input_end, input_end) = NoByte
    BY <1>1, <1>2, <1>3, TokenAtEnd
  <2>2. After(original, input_end, s) = s
    BY <1>1, <2>1, NoValueAtEnd
  <2> QED
    BY <1>1, <1>2, <1>3, <2>1, <2>2, FailsAtToken
<1>4. ASSUME NEW q \in p .. input_end - 1, SkipsTo(p, q), UNCHANGED input,
             Goto(q, IF input[q] = CloseBracket THEN "pop_array"
                                                ELSE "next_element")
      PROVE  Keeps(s)
  <2>1. /\ q \in p .. input_end /\ Gap(s.at, q)
        /\ original[q] = input[q] /\ original[q] \notin Blank
    BY <1>1, <1>2, <1>4, TokenHere
  <2>2. PICK place : /\ place = IF input[q] = CloseBracket THEN "pop_array"
                                                           ELSE "next_element"
                     /\ place \notin StringPlaces \cup {"failed"}
    BY DEF StringPlaces
  <2>3. p' = q /\ pc' = place /\ Goto(q, place) /\ input_end' = input_end
        /\ original' = original
    BY <1>4, <2>2 DEF Goto, original
  <2>4. Agrees(s.place)'
    BY <1>1, <2>2, <2>3 DEF Agrees
  <2>5. q < input_end
    BY <1>1
  <2>6. TokenMatches(s)'
    BY <1>1, <2>1, <2>2, <2>3, <2>5 DEF TokenMatches, Gap
  <2> QED
    BY <1>2, <1>4, <2>1, <2>2, <2>3, <2>4, <2>6, GoesToToken
<1> QED
  BY <1>3, <1>4 DEF ArrayCloseOrElement

LEMMA NextElementKeeps ==
    ASSUME PlaceInv, TextInv, NEW s, Matches(s), NextElement
    PROVE  Keeps(s)
<1>1. /\ s.place \in {"first", "value"} /\ Gap(s.at, p) /\ p \in 0 .. input_end
      /\ input_end \in Nat /\ p >= p
      /\ s.place \in TokenPlaces
      /\ s.place = "first" =>
            p < input_end /\ original[p] \notin Blank \cup {CloseBracket}
  BY TextIs DEF NextElement, Matches, Agrees, StringPlaces, TokenMatches, TokenPlaces
<1>2. s.place = "first" => p \in p .. input_end - 1 /\ ~is_whitespace(input[p])
  <2>1. s.place = "first" => p \in p .. input_end - 1
    BY <1>1
  <2> QED
    BY <1>1, <2>1, ByteIs DEF is_whitespace, Blank
<1>3. CASE OnlySpaceFrom(p) /\ Fail(input_end, "UNEXPECTED_END")
  <2>1. /\ Token(original, input_end, s.at) = input_end
        /\ ByteAt(original, input_end, input_end) = NoByte
    BY <1>1, <1>3, TokenAtEnd
  <2>2. s.place = "value"
    BY <1>1, <1>2, <1>3 DEF OnlySpaceFrom
  <2>3. After(original, input_end, s) = s
    BY <1>1, <2>1, NoValueAtEnd
  <2> QED
    BY <1>1, <1>3, <2>1, <2>2, <2>3, FailsAtToken
<1>4. ASSUME NEW q \in p .. input_end - 1, SkipsTo(p, q), UNCHANGED input,
             Goto(q, "switch")
      PROVE  Keeps(s)
  <2>1. /\ q \in p .. input_end /\ Gap(s.at, q)
        /\ original[q] = input[q] /\ original[q] \notin Blank
    BY <1>1, <1>4, TokenHere
  <2>2. s.place = "first" => q = p
    BY <1>1, <1>2, <1>4 DEF SkipsTo
  <2>3. p' = q /\ pc' = "switch" /\ input_end' = input_end
        /\ original' = original
    BY <1>4 DEF Goto, original
  <2>4. Agrees(s.place)'
    BY <1>1, <2>3 DEF Agrees
  <2>5. q < input_end
    BY <1>1
  <2>6. TokenMatches(s)'
    BY <1>1, <2>1, <2>2, <2>3, <2>5 DEF TokenMatches, Gap
  <2> QED
    BY <1>1, <1>4, <2>1, <2>4, <2>6, GoesToToken DEF StringPlaces
<1> QED
  BY <1>3, <1>4 DEF NextElement

LEMMA StructureCloseOrCommaKeeps ==
    ASSUME PlaceInv, TextInv, NEW s, Matches(s), StructureCloseOrComma
    PROVE  Keeps(s)
<1>1. /\ s.place = "more" /\ s.at = p /\ p \in 0 .. input_end
      /\ input_end \in Nat
  BY TextIs DEF StructureCloseOrComma, Matches, Agrees, StringPlaces, TokenMatches
<1>2. Gap(s.at, p) /\ p >= p /\ p \in Nat /\ s.place \in TokenPlaces
  BY <1>1 DEF Gap, TokenPlaces
<1>3. After(original, input_end, s) = AfterToken(original, input_end, s)
  BY <1>1, AfterIs
<1>4. CASE OnlySpaceFrom(p) /\ Fail(input_end, "UNEXPECTED_END")
  <2>1. AfterToken(original, input_end, s) = s
    BY <1>1, <1>2, <1>4, TokenAtEnd, StuckAtToken DEF NoByte, CloseBracket, Comma
  <2> QED
    BY <1>1, <1>2, <1>3, <1>4, <2>1, TokenAtEnd, FailsAtToken
<1>5. ASSUME NEW q \in p .. input_end - 1, SkipsTo(p, q),
             input[q] \notin {CloseBracket, Comma}, Fail(q, "EXPECTED_COMMA")
      PROVE  Keeps(s)
  <2>1. AfterToken(original, input_end, s) = s
    BY <1>1, <1>2, <1>5, TokenHere, StuckAtToken
  <2>2. Token(original, input_end, s.at) = q /\ q \in 0 .. input_end
    BY <1>1, <1>2, <1>5, TokenHere
  <2>3. After(original, input_end, s) = s /\ s.place # "end"
    BY <1>1, <1>3, <2>1
  <2> QED
    BY <1>2, <1>5, <2>2, <2>3, FailsAtToken
<1>6. ASSUME NEW q \in p .. input_end - 1, SkipsTo(p, q),
             input[q] = CloseBracket, Goto(q, "pop_array"), UNCHANGED input
      PROVE  Keeps(s)
  <2>1. /\ q \in p .. input_end /\ Gap(s.at, q) /\ q < input_end
        /\ original[q] = CloseBracket
    BY <1>1, <1>2, <1>6, TokenHere
  <2>2. p' = q /\ pc' = "pop_array" /\ input_end' = input_end
        /\ original' = original
    BY <1>6 DEF Goto, original
  <2>3. Agrees(s.place)' /\ TokenMatches(s)'
    BY <1>1, <2>1, <2>2 DEF Agrees, TokenMatches, Gap
  <2> QED
    BY <1>2, <1>6, <2>1, <2>3, GoesToToken DEF StringPlaces
<1>7. ASSUME NEW q \in p .. input_end - 1, SkipsTo(p, q),
             input[q] = Comma, Goto(q + 1, "next_element"), UNCHANGED input
      PROVE  Keeps(s)
  <2>1. PICK r : r = To(s, q + 1, "value")
    OBVIOUS
  <2>2. After(original, input_end, s) = r
    <3>1. /\ Token(original, input_end, s.at) = q
          /\ ByteAt(original, input_end, q) = Comma
      BY <1>1, <1>2, <1>7, TokenHere
    <3> QED
      BY <1>1, <1>3, <2>1, <3>1, GoesToNextValue
  <2>3. /\ r.at = q + 1 /\ r.place = "value" /\ r.says = s.says
        /\ r.breaks = s.breaks
    BY <2>1 DEF To, Progress
  <2>4. q + 1 \in p .. input_end /\ q + 1 \in Nat
    BY <1>1
  <2>5. p' = q + 1 /\ pc' = "next_element"
    BY <1>7 DEF Goto
  <2>6. Agrees(r.place)' /\ TokenMatches(r)' /\ r.place \in TokenPlaces
    BY <2>3, <2>4, <2>5 DEF Agrees, TokenMatches, TokenPlaces, Gap
  <2> QED
    BY <1>7, <2>2, <2>3, <2>4, <2>6, GoesToToken DEF StringPlaces
<1> QED
  BY <1>4, <1>5, <1>6, <1>7 DEF StructureCloseOrComma

LEMMA PopArrayKeeps ==
    ASSUME PlaceInv, TextInv, NEW s, Matches(s), PopArray
    PROVE  Keeps(s)
<1>1. /\ s.place \in {"first", "more"} /\ Gap(s.at, p) /\ p \in 0 .. input_end
      /\ input_end \in Nat /\ p < input_end /\ original[p] = CloseBracket
  BY TextIs DEF PopArray, Matches, Agrees, StringPlaces, TokenMatches
<1>2. Token(original, input_end, s.at) = p
  <2>1. s.at \in Nat /\ p \in s.at .. input_end
    BY <1>1 DEF Gap
  <2>2. \A i \in s.at .. p - 1 : original[i] \in Blank
    BY <1>1 DEF Gap
  <2>3. original[p] \notin Blank
    BY <1>1 DEF Blank, CloseBracket, Tab, LineFeed, CarriageReturn, Space
  <2> QED
    BY <1>1, <2>1, <2>2, <2>3, TokenIs
<1>3. ByteAt(original, input_end, p) = CloseBracket
  <2>1. p \in p .. input_end - 1
    BY <1>1
  <2> QED
    BY <1>1, <2>1, ByteIs
<1>4. PICK r : r = To(s, p + 1, "end")
  OBVIOUS
<1>5. /\ r.at = p + 1 /\ r.place = "end" /\ r.says = s.says
      /\ r.breaks = s.breaks /\ r.place \in TokenPlaces
  BY <1>4 DEF To, Progress, TokenPlaces
<1>6. After(original, input_end, s) = r
  BY <1>1, <1>2, <1>3, <1>4, AfterIs, ClosesArray
<1>7. After(original, input_end, r) = r
  BY <1>5, AfterIs
<1>8. Gap(r.at, p + 1) /\ p + 1 >= p /\ p + 1 \in 0 .. input_end
  BY <1>1, <1>5 DEF Gap
<1>9. CASE OnlySpaceFrom(p + 1) /\ Goto(input_end, "done") /\ UNCHANGED input
  <2>1. Gap(r.at, input_end)
    BY <1>8, <1>9, TokenAtEnd
  <2>2. p' = input_end /\ pc' = "done" /\ input_end' = input_end
        /\ original' = original /\ input_end \in p .. input_end
    BY <1>1, <1>9 DEF Goto, original
  <2>3. Agrees(r.place)' /\ TokenMatches(r)'
    BY <1>5, <2>1, <2>2 DEF Agrees, TokenMatches, Gap
  <2> QED
    BY <1>5, <1>6, <1>9, <2>2, <2>3, GoesToToken DEF StringPlaces
<1>10. ASSUME NEW q \in p + 1 .. input_end - 1, SkipsTo(p + 1, q),
              Fail(q, "EXPECTED_END_OF_INPUT")
       PROVE  Keeps(s)
  <2>1. Token(original, input_end, r.at) = q /\ q \in 0 .. input_end
    BY <1>8, <1>10, TokenHere
  <2>2. q # input_end
    BY <1>1
  <2> QED
    BY <1>5, <1>6, <1>7, <1>10, <2>1, <2>2, FailsAtToken
<1> QED
  BY <1>9, <1>10 DEF PopArray

-----------------------------------------------------------------------------
(***************************************************************************)
(* The beginning and the end of a value.                                   *)
(***************************************************************************)
\* A value is complete, and reading is past it.
LEMMA PushesRight ==
    ASSUME PlaceInv, TextInv, NEW s, Matches(s),
           NEW q, q \in p .. input_end, NEW v, NEW w, Push(v, q),
           \A i \in 0 .. Bound - 1 : input'[i] = input[i],
           ValueMeans(input', q, v, w),
           ~s.breaks => SameBreaks',
           NEW r, r = Past(s, q, w), r = After(original, input_end, s)
    PROVE  Keeps(s)
<1>1. /\ p' = q /\ pc' = "structure_close_or_comma"
      /\ values' = Append(values, v) /\ UNCHANGED <<document, input_end>>
  BY DEF Push
<1>2. /\ r.at = q /\ r.place = "more" /\ r.says = Append(s.says, w)
      /\ r.breaks = s.breaks
  BY DEF Past, Progress
<1>3. q \in Nat /\ q \in 0 .. input_end /\ Bound \in Nat /\ Bound <= q
  BY BoundIs, TextIs
<1>4. ValuesMean(input, Bound, values, s.says)
  BY DEF Matches
<1>5. ValuesMean(input', q, values, s.says)
  <2> HIDE DEF Bound
  <2> QED
    BY <1>3, <1>4, ValuesKept
<1>6. ValuesMean(input', q, Append(values, v), Append(s.says, w))
  BY <1>5, ValuesPushed
<1>7. Bound' = q
  BY <1>1 DEF Bound, StringPlaces
<1>8. ValuesMean(input', Bound', values', r.says)
  BY <1>1, <1>2, <1>6, <1>7
<1>9. /\ Agrees(r.place)' /\ TokenMatches(r)' /\ StringMatches(r)'
      /\ NumberMatches(r)' /\ FailureMatches(r)'
  BY <1>1, <1>2
     DEF Agrees, TokenMatches, StringMatches, StringPlaces, NumberMatches,
         NumberPlaces, FailureMatches
<1>10. Matches(r)'
  BY <1>1, <1>2, <1>3, <1>8, <1>9 DEF Matches
<1> QED
  BY <1>10 DEF Keeps

\* The parser is at the first byte of a value.
LEMMA AtValue ==
    ASSUME PlaceInv, TextInv, NEW s, Matches(s), pc = "switch"
    PROVE  /\ s.place \in {"first", "value"} /\ s.place \in TokenPlaces
           /\ input_end \in Nat /\ p \in 0 .. input_end - 1
           /\ p \in p .. input_end - 1 /\ p \in p .. input_end
           /\ Token(original, input_end, s.at) = p
           /\ ByteAt(original, input_end, p) = input[p]
           /\ After(original, input_end, s) =
                  BeginValue(original, input_end, s, p)
<1>1. /\ s.place \in {"first", "value"} /\ s.place \in TokenPlaces
      /\ Gap(s.at, p) /\ p \in 0 .. input_end
      /\ input_end \in Nat /\ p < input_end /\ original[p] \notin Blank
      /\ s.place = "first" => original[p] # CloseBracket
  BY TextIs DEF Matches, Agrees, StringPlaces, TokenMatches, TokenPlaces
<1>2. p \in p .. input_end - 1 /\ p \in 0 .. input_end - 1
  BY <1>1
<1>3. Token(original, input_end, s.at) = p
  <2>1. s.at \in Nat /\ p \in s.at .. input_end
    BY <1>1 DEF Gap
  <2>2. \A i \in s.at .. p - 1 : original[i] \in Blank
    BY <1>1 DEF Gap
  <2> QED
    BY <1>1, <2>1, <2>2, TokenIs
<1>4. ByteAt(original, input_end, p) = input[p] /\ input[p] = original[p]
  BY <1>2, ByteIs
<1>5. After(original, input_end, s) = BeginValue(original, input_end, s, p)
  BY <1>1, <1>3, <1>4, AfterIs, BeginsValue
<1> QED
  BY <1>1, <1>2, <1>3, <1>4, <1>5

\* A literal by its first byte.
LEMMA WordSpelled ==
    ASSUME NEW t, NEW n \in Nat, NEW i \in Nat, NEW name \in Literals,
           ByteAt(t, n, i) = Spelling[name][1],
           NEW word \in WordsAt(t, n, i)
    PROVE  word.name = name /\ word.bytes = Spelling[name]
<1>1. word \in Words /\ 1 \in DOMAIN word.bytes
  BY DEF WordsAt, Words
<1>2. ByteAt(t, n, i + 1 - 1) = word.bytes[1]
  BY <1>1 DEF WordsAt
<1>3. word.bytes[1] = Spelling[name][1]
  BY <1>2
<1> QED
  BY <1>1, <1>3 DEF Words, Literals, Spelling

LEMMA LiteralKeeps ==
    ASSUME PlaceInv, TextInv, NEW s, Matches(s), pc = "switch",
           NEW name \in Literals, Literal(name, p)
    PROVE  Keeps(s)
<1>1. /\ s.place \in {"first", "value"} /\ s.place \in TokenPlaces
      /\ input_end \in Nat /\ p \in 0 .. input_end - 1
      /\ Token(original, input_end, s.at) = p
      /\ ByteAt(original, input_end, p) = input[p]
      /\ After(original, input_end, s) = BeginValue(original, input_end, s, p)
  BY AtValue
<1>2. /\ p \in Nat /\ p \in 0 .. input_end /\ s.place # "end"
      /\ input_end \in Nat
  BY <1>1
<1> DEFINE spelling == Spelling[name]
           n == Len(spelling)
<1>3. /\ n \in 4 .. 5 /\ DOMAIN spelling = 1 .. n
      /\ spelling[1] \in {110, 102, 116}
      /\ [name |-> name, bytes |-> spelling] \in Words
  <2>1. CASE name = "null"
    BY <2>1 DEF Spelling, Words
  <2>2. CASE name = "false"
    BY <2>2 DEF Spelling, Words
  <2>3. CASE name = "true"
    BY <2>3 DEF Spelling, Words
  <2> QED
    BY <2>1, <2>2, <2>3 DEF Literals
<1>4. ByteAt(original, input_end, p) = spelling[1]
  BY <1>1 DEF Literal
<1>10. ASSUME NEW word \in WordsAt(original, input_end, p)
       PROVE  word.bytes = spelling
  <2> HIDE DEF n
  <2>1. /\ p \in Nat /\ name \in Literals
        /\ ByteAt(original, input_end, p) = Spelling[name][1]
    BY <1>2, <1>4 DEF spelling
  <2>2. word \in WordsAt(original, input_end, p) /\ input_end \in Nat
    BY <1>2, <1>10
  <2>3. word.bytes = Spelling[name]
    BY ONLY <2>1, <2>2, WordSpelled
  <2> QED
    BY <2>3 DEF spelling
<1>11. Literal(name, p)
  OBVIOUS
<1> HIDE DEF spelling, n
<1>5. ASSUME WordsAt(original, input_end, p) = {}, NEW code, Fail(p, code)
      PROVE  Keeps(s)
  <2>1. ByteAt(original, input_end, p) \notin {Quote, Minus} \cup Digits
    BY <1>3, <1>4 DEF Quote, Minus, Digits
  <2>2. After(original, input_end, s) = s
    BY <1>1, <1>5, <2>1, IsNoValue
  <2> QED
    BY <1>1, <1>2, <1>5, <2>2, FailsAtToken
<1>6. ASSUME WordsAt(original, input_end, p) # {}
      PROVE  /\ p + n <= input_end
             /\ \A i \in 2 .. n : input[p + i - 1] = spelling[i]
  <2>1. PICK word \in WordsAt(original, input_end, p) : TRUE
    BY <1>6
  <2>2. word.bytes = spelling
    BY <1>10, <2>1
  <2>3. p + n \in 0 .. input_end
    BY <1>1, <1>2, <2>1, <2>2, WordLength DEF n
  <2>4. ASSUME NEW i \in 2 .. n PROVE input[p + i - 1] = spelling[i]
    <3>1. i \in DOMAIN word.bytes /\ p + i - 1 \in p .. input_end - 1
      BY <1>2, <1>3, <2>2, <2>3
    <3>2. ByteAt(original, input_end, p + i - 1) = spelling[i]
      BY <2>1, <2>2, <3>1 DEF WordsAt
    <3> QED
      BY <3>1, <3>2, ByteIs
  <2> QED
    BY <2>3, <2>4
<1>7. CASE ~has_remaining_characters(p, n) /\ Fail(p, "UNEXPECTED_END")
  BY <1>1, <1>2, <1>3, <1>5, <1>6, <1>7 DEF has_remaining_characters
<1>8. CASE /\ \E i \in 2 .. n : input[p + i - 1] # spelling[i]
           /\ Fail(p, Misspelled[name])
  BY <1>5, <1>6, <1>8
<1>9. CASE /\ has_remaining_characters(p, n)
           /\ \A i \in 2 .. n : input[p + i - 1] = spelling[i]
           /\ Push([type |-> name], p + n)
           /\ UNCHANGED input
  <2> DEFINE word == [name |-> name, bytes |-> spelling]
  <2>1. p + n \in p .. input_end
    BY <1>1, <1>3, <1>9 DEF has_remaining_characters
  <2>2. ASSUME NEW i \in 1 .. n
        PROVE  ByteAt(original, input_end, p + i - 1) = spelling[i]
    <3>1. p + i - 1 \in p .. input_end - 1
      BY <1>2, <1>3, <2>1
    <3>2. CASE i = 1
      BY <1>2, <1>4, <3>2
    <3>3. CASE i \in 2 .. n
      BY <1>9, <3>1, <3>3, ByteIs
    <3> QED
      BY <1>3, <3>2, <3>3
  <2>3. word \in WordsAt(original, input_end, p)
    BY <1>3, <2>2 DEF WordsAt
  <2>4. PICK r : r = Past(s, p + n, [type |-> name])
    OBVIOUS
  <2>5. r = After(original, input_end, s)
    <3>1. word.name = name /\ word.bytes = spelling
      OBVIOUS
    <3> HIDE DEF word
    <3> QED
      BY <1>1, <1>2, <2>3, <2>4, <3>1, IsWord DEF n
  <2>6. ValueMeans(input', p + n, [type |-> name], [type |-> name])
    BY DEF ValueMeans
  <2>7. \A i \in 0 .. Bound - 1 : input'[i] = input[i]
    BY <1>9
  <2>8. ~s.breaks => SameBreaks'
    BY <1>9 DEF Push, Matches, SameBreaks, original
  <2> HIDE DEF Bound
  <2> QED
    BY <1>9, <2>1, <2>4, <2>5, <2>6, <2>7, <2>8, PushesRight
<1> QED
  BY <1>7, <1>8, <1>9, <1>11 DEF Literal, n, spelling

-----------------------------------------------------------------------------
(***************************************************************************)
(* Numbers.                                                                *)
(***************************************************************************)
\* In a number there is neither a token nor a string.
LEMMA NumberPlace ==
    ASSUME NEW place, place \in NumberPlaces, Agrees(place), pc # "failed"
    PROVE  /\ pc \notin StringPlaces
           /\ pc \notin {"root", "array_close_or_element", "next_element",
                         "switch", "structure_close_or_comma", "pop_array",
                         "done"}
BY DEF Agrees, NumberPlaces, StringPlaces

\* A step to another place of the number.
LEMMA GoesOnInNumber ==
    ASSUME PlaceInv, TextInv, NEW s, Matches(s),
           NEW r, r.says = s.says, r.breaks = s.breaks,
           r = s \/ r = After(original, input_end, s),
           r.place \in NumberPlaces,
           NEW q, q \in p .. input_end, NEW place, Goto(q, place),
           UNCHANGED input, place # "failed",
           Agrees(r.place)', NumberMatches(r)'
    PROVE  Keeps(s)
<1>1. /\ p' = q /\ pc' = place
      /\ UNCHANGED <<document, input_end, input, values>>
  BY DEF Goto
<1>2. /\ pc' \notin StringPlaces
      /\ pc' \notin {"root", "array_close_or_element", "next_element",
                     "switch", "structure_close_or_comma", "pop_array",
                     "done"}
  BY <1>1 DEF Agrees, NumberPlaces, StringPlaces
<1>3. TokenMatches(r)' /\ StringMatches(r)'
  BY <1>2 DEF TokenMatches, StringMatches
<1>4. Matches(r)'
  BY <1>1, <1>2, <1>3, GoesOnRight
<1> QED
  BY <1>4 DEF Keeps

LEMMA StaysInNumber ==
    ASSUME PlaceInv, TextInv, NEW s, Matches(s), s.place \in NumberPlaces,
           NEW place, Stay(place), place # "failed",
           Agrees(s.place)', NumberMatches(s)'
    PROVE  Keeps(s)
<1>1. p \in p .. input_end
  BY BoundIs, TextIs DEF Matches
<1> QED
  BY <1>1, GoesOnInNumber DEF Stay

\* A failure at what is read next of a number.
LEMMA FailsInNumber ==
    ASSUME PlaceInv, TextInv, NEW s, Matches(s),
           NEW r, r.says = s.says, r.breaks = s.breaks,
           r = s \/ r = After(original, input_end, s),
           r.place \in NumberPlaces, r.at \in 0 .. input_end,
           AfterDigit(original, input_end, r) = r,
           NEW code, Fail(r.at, code)
    PROVE  Keeps(s)
<1>1. /\ make_error(r.at, code, 0) /\ pc' = "failed"
      /\ UNCHANGED <<document, input_end, input, p, values>>
  BY DEF Fail
<1>2. After(original, input_end, r) = r
  BY AfterIs
<1>3. ~IsArray(original, input_end, r)
  BY DEF IsArray, NumberPlaces
<1>4. r.at \in Offends(original, input_end, r)
  BY DEF Offends, NumberPlaces
<1>5. r.place \in Places
  BY DEF Places
<1>6. Matches(r)'
  BY <1>1, <1>2, <1>3, <1>4, <1>5, FailsRight
<1> QED
  BY <1>6 DEF Keeps

\* A byte of a number is read, and the text ends there or goes on.
LEMMA AdvancesInNumber ==
    ASSUME PlaceInv, TextInv, NEW s, Matches(s),
           p \in 0 .. input_end - 1,
           NEW r, r.says = s.says, r.breaks = s.breaks,
           r = s \/ r = After(original, input_end, s),
           r.place \in NumberPlaces, r.at = p + 1,
           NEW place, Advance(place), place # "failed",
           ~at_eof(p + 1) /\ Goto(p + 1, place) =>
               Agrees(r.place)' /\ NumberMatches(r)'
    PROVE  Keeps(s)
<1>1. input_end \in Nat /\ p + 1 \in p .. input_end /\ p + 1 \in 0 .. input_end
  BY TextIs
<1>2. CASE at_eof(p + 1) /\ Fail(p + 1, "UNEXPECTED_END")
  <2>1. p + 1 \in Nat /\ p + 1 >= input_end
    BY <1>1, <1>2 DEF at_eof
  <2>2. ByteAt(original, input_end, r.at) = NoByte
    BY <2>1, NoByteAtEnd
  <2>3. AfterDigit(original, input_end, r) = r
    BY <2>2, StuckInNumber
  <2> QED
    BY <1>1, <1>2, <2>3, FailsInNumber
<1>3. CASE ~at_eof(p + 1) /\ Goto(p + 1, place) /\ UNCHANGED input
  BY <1>1, <1>3, GoesOnInNumber
<1> QED
  BY <1>2, <1>3 DEF Advance

\* No digits yet.
LEMMA NoDigitsMean ==
    ASSUME NEW m, m = NoDigits(negative'), negative' \in BOOLEAN,
           try_double' = FALSE, u' = 0, exponent' = 0,
           negativeExponent' = FALSE, exp' = 0, pc' = "first_digit"
    PROVE  NumberMeans(m)'
<1>1. /\ m.negative = negative' /\ m.mantissa = 0 /\ m.fraction = 0
      /\ m.down = FALSE /\ m.exponent = 0 /\ m.whole = TRUE
      /\ m \in NumberRecords
  BY DEF NoDigits, NumberRecords
<1>2. exp' = IF m.exponent > IntMax THEN IntMax ELSE m.exponent
  BY <1>1, IntAssumption
<1>3. exponent' = (IF pc' # "store" THEN 0 ELSE IF m.down THEN -exp' ELSE exp')
                  - m.fraction
  BY <1>1
<1>4. m.negative = negative' /\ negativeExponent' = m.down
  BY <1>1
<1>5. ~try_double' => m.whole /\ u' = m.mantissa
  BY <1>1
<1> QED
  BY <1>1, <1>2, <1>3, <1>4, <1>5 DEF NumberMeans

LEMMA StartNumberKeeps ==
    ASSUME PlaceInv, TextInv, NEW s, Matches(s), pc = "switch",
           input[p] \in Digits \cup {Minus}, StartNumber
    PROVE  Keeps(s)
<1>1. /\ input_end \in Nat /\ p \in 0 .. input_end - 1
      /\ ByteAt(original, input_end, p) = input[p]
      /\ After(original, input_end, s) = BeginValue(original, input_end, s, p)
      /\ p \in p .. input_end
  BY AtValue
<1>2. /\ negative' \in BOOLEAN /\ negative' = (input[p] = Minus)
      /\ try_double' = FALSE /\ u' = 0 /\ exponent' = 0
      /\ negativeExponent' = FALSE /\ exp' = 0
  BY DEF StartNumber
<1>3. CASE input[p] = Minus /\ Advance("first_digit")
  <2>1. PICK r : r = Progress(p + 1, "integer", s.says, <<>>, NoDigits(TRUE),
                              s.breaks, s.lax)
    OBVIOUS
  <2>2. r = After(original, input_end, s)
    <3>1. p \in Nat /\ ByteAt(original, input_end, p) = Minus
      BY <1>1, <1>3
    <3>2. BeginValue(original, input_end, s, p) = r
      BY <1>1, <2>1, <3>1, BeginsMinus
    <3> QED
      BY <1>1, <3>2
  <2>3. /\ r.at = p + 1 /\ r.place = "integer" /\ r.says = s.says
        /\ r.breaks = s.breaks /\ r.number = NoDigits(TRUE)
        /\ r.place \in NumberPlaces
        /\ ~r.number.down /\ r.number.exponent = 0
    BY <2>1 DEF Progress, NumberPlaces, NoDigits
  <2>4. ASSUME ~at_eof(p + 1), Goto(p + 1, "first_digit")
        PROVE  Agrees(r.place)' /\ NumberMatches(r)'
    <3>1. p' = p + 1 /\ pc' = "first_digit" /\ input_end' = input_end
      BY <2>4 DEF Goto
    <3>2. p' < input_end'
      BY <1>1, <2>4, <3>1 DEF at_eof
    <3>3. NumberMeans(r.number)'
      BY <1>2, <1>3, <2>3, <3>1, NoDigitsMean
    <3> QED
      BY <2>3, <3>1, <3>2, <3>3 DEF Agrees, NumberMatches
  <2> QED
    BY <1>1, <1>3, <2>2, <2>3, <2>4, AdvancesInNumber
<1>4. CASE input[p] # Minus /\ Stay("first_digit")
  <2>1. PICK r : r = To(s, p, "integer")
    OBVIOUS
  <2>2. r = After(original, input_end, s)
    BY <1>1, <1>4, <2>1, BeginsNumber
  <2>3. /\ r.at = p /\ r.place = "integer" /\ r.says = s.says
        /\ r.breaks = s.breaks /\ r.number = NoDigits(FALSE)
        /\ r.place \in NumberPlaces
        /\ ~r.number.down /\ r.number.exponent = 0
    BY <2>1 DEF To, Progress, NumberPlaces, NoDigits
  <2>4. /\ p' = p /\ pc' = "first_digit" /\ input_end' = input_end
        /\ Goto(p, "first_digit") /\ UNCHANGED input
    BY <1>4 DEF Stay, Goto
  <2>5. NumberMeans(r.number)'
    <3>1. negative' = FALSE
      BY <1>2, <1>4
    <3> QED
      BY <1>2, <2>3, <2>4, <3>1, NoDigitsMean
  <2>6. Agrees(r.place)' /\ NumberMatches(r)'
    <3>1. p' < input_end'
      BY <1>1, <2>4
    <3> QED
      BY <2>3, <2>4, <2>5, <3>1 DEF Agrees, NumberMatches
  <2> QED
    BY <1>1, <2>2, <2>3, <2>4, <2>6, GoesOnInNumber
<1> QED
  BY <1>3, <1>4 DEF StartNumber

\* Where the parser is in a number.
LEMMA InNumber ==
    ASSUME PlaceInv, TextInv, NEW s, Matches(s), s.place \in NumberPlaces,
           pc # "failed"
    PROVE  /\ input_end \in Nat /\ p \in 0 .. input_end - 1
           /\ p \in 0 .. input_end /\ p + 1 \in 0 .. input_end
           /\ s.at = p
           /\ ByteAt(original, input_end, p) = input[p]
           /\ input[p] = original[p] /\ input[p] # NoByte
           /\ After(original, input_end, s) = AfterDigit(original, input_end, s)
           /\ NumberMeans(s.number) /\ s.number \in NumberRecords
           /\ s.place \notin {"integer", "zero", "digits"} => ~s.number.whole
           /\ s.place \notin {"sign", "exponent"} => ~s.number.down
           /\ s.place # "exponent" => s.number.exponent = 0
<1>1. /\ s.at = p /\ p < input_end /\ p \in 0 .. input_end
      /\ NumberMeans(s.number) /\ s.number \in NumberRecords
      /\ s.place \notin {"integer", "zero", "digits"} => ~s.number.whole
      /\ s.place \notin {"sign", "exponent"} => ~s.number.down
      /\ s.place # "exponent" => s.number.exponent = 0
  BY DEF Matches, NumberMatches, NumberMeans
<1>2. input_end \in Nat /\ original \in [0 .. input_end - 1 -> Bytes]
  BY TextIs
<1>3. p \in 0 .. input_end - 1 /\ p \in p .. input_end - 1 /\ p + 1 \in 0 .. input_end
  BY <1>1, <1>2
<1>4. ByteAt(original, input_end, p) = input[p] /\ input[p] = original[p]
  BY <1>3, ByteIs
<1>5. input[p] # NoByte
  <2>1. original[p] \in Bytes
    BY <1>2, <1>3
  <2>2. NoByte \notin Bytes
    BY DEF Bytes, NoByte
  <2> QED
    BY <1>4, <2>1, <2>2
<1> QED
  BY <1>1, <1>2, <1>3, <1>4, <1>5, AfterIs

\* The numbers stay what they are in a step that leaves them alone.
LEMMA NumberStays ==
    ASSUME NEW m, NumberMeans(m), UNCHANGED numberVars,
           pc # "store", pc' # "store"
    PROVE  NumberMeans(m)'
<1>1. UNCHANGED <<negative, try_double, u, d, exponent, negativeExponent, exp>>
  BY DEF numberVars
<1> QED
  BY <1>1 DEF NumberMeans, Limit

LEMMA OntoIs ==
    ASSUME NEW s, NEW place, NEW number, NEW r, r = Onto(s, place, number)
    PROVE  /\ r.at = s.at + 1 /\ r.place = place /\ r.says = s.says
           /\ r.breaks = s.breaks /\ r.number = number
BY DEF Onto, Progress

LEMMA FirstDigitKeeps ==
    ASSUME PlaceInv, TextInv, NEW s, Matches(s), FirstDigit
    PROVE  Keeps(s)
<1>1. s.place = "integer" /\ s.place \in NumberPlaces /\ pc = "first_digit"
  BY DEF Matches, Agrees, FirstDigit, StringPlaces, NumberPlaces
<1>2. /\ input_end \in Nat /\ p \in 0 .. input_end - 1 /\ p \in 0 .. input_end
      /\ s.at = p
      /\ ByteAt(original, input_end, p) = input[p] /\ input[p] = original[p]
      /\ After(original, input_end, s) = AfterDigit(original, input_end, s)
      /\ NumberMeans(s.number)
      /\ ~s.number.down /\ s.number.exponent = 0
  BY <1>1, InNumber
<1>3. pc' # "store" => NumberMeans(s.number)'
  BY <1>1, <1>2, NumberStays DEF FirstDigit
<1>4. CASE input[p] = Zero /\ Advance("point")
  <2>1. PICK r : r = Onto(s, "zero", s.number)
    OBVIOUS
  <2>2. r = After(original, input_end, s)
    BY <1>1, <1>2, <1>4, <2>1, ReadsZero
  <2>3. /\ r.at = p + 1 /\ r.place = "zero" /\ r.says = s.says
        /\ r.breaks = s.breaks /\ r.number = s.number
        /\ r.place \in NumberPlaces
    BY <1>2, <2>1, OntoIs DEF NumberPlaces
  <2>4. ASSUME ~at_eof(p + 1), Goto(p + 1, "point")
        PROVE  Agrees(r.place)' /\ NumberMatches(r)'
    <3>1. p' = p + 1 /\ pc' = "point" /\ input_end' = input_end
      BY <2>4 DEF Goto
    <3>2. p' < input_end'
      BY <1>2, <2>4, <3>1 DEF at_eof
    <3> QED
      BY <1>2, <1>3, <2>3, <3>1, <3>2 DEF Agrees, NumberMatches
  <2> QED
    BY <1>2, <1>4, <2>2, <2>3, <2>4, AdvancesInNumber
<1>5. CASE input[p] \notin Digits /\ Fail(p, "INVALID_NUMBER")
  <2>1. AfterDigit(original, input_end, s) = s
    BY <1>1, <1>2, <1>5, StuckInNumber
  <2> QED
    BY <1>1, <1>2, <1>5, <2>1, FailsInNumber
<1>6. CASE input[p] \in Digits \ {Zero} /\ Stay("digits")
  <2>1. p' = p /\ pc' = "digits" /\ input_end' = input_end /\ original' = original
    BY <1>6 DEF Stay, Goto, original
  <2>2. p' < input_end'
    BY <1>2, <2>1
  <2>3. Agrees(s.place)' /\ NumberMatches(s)'
    BY <1>1, <1>2, <1>3, <1>6, <2>1, <2>2 DEF Agrees, NumberMatches
  <2> QED
    BY <1>1, <1>6, <2>3, StaysInNumber
<1> QED
  BY <1>4, <1>5, <1>6 DEF FirstDigit

-----------------------------------------------------------------------------
(***************************************************************************)
(* Digits.                                                                 *)
(***************************************************************************)
\* A digit that overflows makes a number beyond an int: the last digit of
\* IntMax is no 9.
LEMMA OverflowsBeyond ==
    ASSUME DigitsInv, NEW digit \in 0 .. 9, Overflows(digit)
    PROVE  10 * u + digit > Limit
<1>1. /\ IntMax \in Nat /\ IntMax > 9
      /\ IntMax = 10 * (IntMax \div 10) + (IntMax % 10)
      /\ IntMax \div 10 \in Nat /\ (IntMax % 10) \in 0 .. 8
  <2>1. /\ IntMax \in Nat /\ IntMax > 9 /\ (IntMax % 10) # 9
        /\ IntMax = 10 * (IntMax \div 10) + (IntMax % 10)
        /\ IntMax \div 10 \in Nat /\ (IntMax % 10) \in 0 .. 9
    BY IntAssumption
  <2> QED
    BY <2>1
<1> DEFINE q == IntMax \div 10
           r == IntMax % 10
<1>2. \/ u > q
      \/ u = q /\ digit > r + (IF negative THEN 1 ELSE 0)
  BY <1>1 DEF Overflows, RISKY, max_digit_after_risky
<1>3. u \in Nat /\ negative \in BOOLEAN
  BY DEF DigitsInv
<1> HIDE DEF q, r
<1> QED
  BY <1>1, <1>2, <1>3 DEF q, r, Limit

-----------------------------------------------------------------------------
(***************************************************************************)
(* Rounding: the whole numbers up to Int53Max are doubles, and what is     *)
(* beyond stays beyond, but for the first one.                             *)
(***************************************************************************)
LEMMA SpacingIsOne == 1 \in Spacings
BY PowersAssumption

LEMMA SpacingsAre ==
    ASSUME NEW s \in Spacings
    PROVE  /\ s \in Nat /\ s > 0
           /\ s > 1 => /\ (s % 2) = 0 /\ (s \div 2) \in Spacings
                       /\ s = 2 * (s \div 2) /\ s \div 2 \in Nat
                       /\ s \div 2 > 0 /\ s \div 2 < s
<1>1. /\ s \in Nat /\ s > 0
      /\ s > 1 => (s % 2) = 0 /\ (s \div 2) \in Spacings
  <2>1. /\ s \in Nat \ {0}
        /\ s > 1 => (s % 2) = 0 /\ (s \div 2) \in Spacings
    BY PowersAssumption, Zenon
  <2> QED
    BY <2>1
<1>2. s = 2 * (s \div 2) + (s % 2) /\ s \div 2 \in Nat
  BY <1>1
<1> QED
  BY <1>1, <1>2

LEMMA ProductInNat ==
    ASSUME NEW a \in Nat, NEW b \in Nat
    PROVE  a * b \in Nat /\ (a > 0 /\ b > 0 => a * b >= a /\ a * b >= b)
OBVIOUS

\* Int53Max is an even number.
LEMMA Int53MaxIs ==
    /\ Int53Max \in Nat /\ Int53Max > 9 /\ IntMax < Int53Max /\ IntMax \in Nat
    /\ DoubleMax \in Nat /\ DoubleMax > Int53Max
    /\ \E k \in Nat : Int53Max = 2 * k
<1>1. /\ Int53Max \in Nat /\ Int53Max > IntMax /\ Int53Max % 4 = 0
      /\ DoubleMax \in Nat /\ DoubleMax > Int53Max
      /\ IntMax \in Nat /\ IntMax > 9
  BY IntAssumption, DoubleAssumption
<1>2. Int53Max = 4 * (Int53Max \div 4) + (Int53Max % 4) /\ Int53Max \div 4 \in Nat
  BY <1>1
<1>3. PICK k : k = 2 * (Int53Max \div 4)
  OBVIOUS
<1>4. Int53Max = 2 * k /\ k \in Nat
  BY <1>1, <1>2, <1>3
<1>5. Int53Max > 9 /\ IntMax < Int53Max
  BY <1>1
<1> QED
  BY ONLY <1>1, <1>4, <1>5

\* The spacing is the least that leaves no more than Int53Max steps.
LEMMA SpacingIs ==
    ASSUME NEW n \in Nat, NEW s0 \in Spacings, n <= Int53Max * s0
    PROVE  /\ Spacing(n, 1) \in Spacings
           /\ Spacing(n, 1) = 1 <=> n <= Int53Max
           /\ Spacing(n, 1) > 1 => n > Int53Max * (Spacing(n, 1) \div 2) * 1
<1>1. Int53Max \in Nat
  BY Int53MaxIs
<1> DEFINE T == {s \in Spacings : n <= Int53Max * s}
<1>2. T \in SUBSET Nat /\ s0 \in T
  BY SpacingsAre
<1> HIDE DEF T
<1>3. PICK l \in T : \A s \in T : l <= s
  BY <1>2, LeastElement
<1>4. l \in Spacings /\ n <= Int53Max * l
  BY <1>3 DEF T
<1>5. ASSUME NEW h \in Spacings, h \notin T
      PROVE  n > Int53Max * h
  <2>1. ~(n <= Int53Max * h)
    BY <1>5 DEF T
  <2>2. Int53Max * h \in Nat
    BY <1>1, SpacingsAre, ProductInNat
  <2> QED
    BY <2>1, <2>2
<1>6. l > 1 => n > Int53Max * (l \div 2)
  <2>1. ASSUME l > 1
        PROVE  l \div 2 \in Spacings /\ l \div 2 \notin T
    BY <1>2, <1>3, <1>4, <2>1, SpacingsAre
  <2> QED
    BY <1>5, <2>1
<1> DEFINE Is(s) == /\ n <= Int53Max * s * 1
                    /\ s > 1 => n > Int53Max * (s \div 2) * 1
<1>7. Is(l)
  <2>1. Int53Max * l * 1 = Int53Max * l
    <3>1. Int53Max * l \in Nat
      BY <1>1, <1>4, SpacingsAre, ProductInNat
    <3> QED
      BY <3>1
  <2>2. l > 1 => Int53Max * (l \div 2) * 1 = Int53Max * (l \div 2)
    BY <1>1, <1>4, SpacingsAre, ProductInNat
  <2> QED
    BY <1>4, <1>6, <2>1, <2>2
<1>8. PICK s : s = Spacing(n, 1)
  OBVIOUS
<1>9. s = CHOOSE r \in Spacings : Is(r)
  BY <1>8 DEF Spacing
<1> HIDE DEF Is
<1>10. s \in Spacings /\ Is(s)
  BY <1>4, <1>7, <1>9
<1>11. s \in Nat /\ s > 0
  BY <1>10, SpacingsAre
<1>12. s = 1 => n <= Int53Max
  BY <1>1, <1>10 DEF Is
<1>13. ASSUME s # 1 PROVE ~(n <= Int53Max)
  <2>1. s > 1
    BY <1>11, <1>13
  <2>2. PICK h : h = s \div 2
    OBVIOUS
  <2>3. h \in Nat /\ h > 0
    BY <1>10, <2>1, <2>2, SpacingsAre
  <2>4. n > Int53Max * h * 1
    BY <1>10, <2>1, <2>2 DEF Is
  <2>5. PICK a : a = Int53Max * h
    OBVIOUS
  <2>6. a \in Nat /\ a >= Int53Max
    BY <1>1, <2>3, <2>5, Int53MaxIs, ProductInNat
  <2>7. n > a
    BY <2>4, <2>5, <2>6
  <2> QED
    BY <1>1, <2>6, <2>7
<1>14. s > 1 => n > Int53Max * (s \div 2) * 1
  BY <1>10 DEF Is
<1> QED
  BY <1>8, <1>10, <1>12, <1>13, <1>14

\* Beyond Int53Max a spacing takes at least half as many steps.
LEMMA SpacingIsWide ==
    ASSUME NEW n \in Nat, NEW s0 \in Spacings, n <= Int53Max * s0,
           n > Int53Max, NEW k \in Nat, Int53Max = 2 * k
    PROVE  n >= k * Spacing(n, 1)
<1>1. PICK s : s = Spacing(n, 1)
  OBVIOUS
<1>2. s \in Spacings /\ s # 1
  BY <1>1, Int53MaxIs, SpacingIs
<1>3. s \in Nat /\ s > 1
  BY <1>2, SpacingsAre
<1>4. PICK h : h = s \div 2
  OBVIOUS
<1>5. h \in Nat /\ s = 2 * h
  BY <1>2, <1>3, <1>4, SpacingsAre
<1>6. n > Int53Max * h * 1
  BY <1>1, <1>3, <1>4, SpacingIs
<1>7. k * s = Int53Max * h
  BY <1>5
<1>8. Int53Max * h * 1 = Int53Max * h /\ Int53Max * h \in Nat
  BY <1>5, Int53MaxIs, ProductInNat
<1> QED
  BY <1>1, <1>6, <1>7, <1>8

\* The nearest double is one of the two around a number.
LEMMA NearestIs ==
    ASSUME NEW n \in Nat, NEW s \in Nat, s = Spacing(n, 1), s > 0,
           NEW low, low = n \div s
    PROVE  /\ Nearest(n, 1) \in {s * low, s * (low + 1)}
           /\ s = 1 => Nearest(n, 1) = n
<1>1. s * 1 = s
  OBVIOUS
<1>2. PICK rest : rest = n % s
  OBVIOUS
<1>3. Nearest(n, 1) = s * (IF \/ 2 * rest > s
                              \/ 2 * rest = s /\ low % 2 = 1
                           THEN low + 1 ELSE low)
  BY <1>1, <1>2 DEF Nearest
<1>4. s = 1 => rest = 0 /\ low = n
  BY <1>2
<1>5. s = 1 => Nearest(n, 1) = 1 * low
  BY <1>3, <1>4
<1> QED
  BY <1>3, <1>4, <1>5

\* Division.
LEMMA DividesAtLeast ==
    ASSUME NEW n \in Nat, NEW s \in Nat, s > 0, NEW k \in Nat, n >= k * s
    PROVE  n \div s \in Nat /\ n \div s >= k
<1>1. PICK q : q = n \div s
  OBVIOUS
<1>2. PICK r : r = n % s
  OBVIOUS
<1>3. q \in Nat /\ r \in Nat /\ r < s /\ n = s * q + r
  BY <1>1, <1>2
<1>4. CASE q < k
  <2>1. PICK e \in Nat : k = q + 1 + e
    <3>1. k - q - 1 \in Nat /\ k = q + 1 + (k - q - 1)
      BY <1>3, <1>4
    <3> QED
      BY <3>1
  <2>2. k * s = s * q + s + e * s
    BY <1>3, <2>1
  <2>3. e * s \in Nat /\ s * q \in Nat
    BY <1>3, ProductInNat
  <2>4. FALSE
    BY <1>3, <2>2, <2>3
  <2> QED
    BY <2>4
<1> QED
  BY <1>1, <1>3, <1>4

LEMMA NearestFar ==
    ASSUME NEW n \in Nat, NEW s0 \in Spacings, n <= Int53Max * s0, n > Int53Max
    PROVE  /\ Nearest(n, 1) \in Nat /\ Nearest(n, 1) >= Int53Max
           /\ n >= Int53Max + 2 => Nearest(n, 1) >= Int53Max + 2
<1>1. PICK k \in Nat : Int53Max = 2 * k
  BY Int53MaxIs
<1>2. k > 4
  BY <1>1, Int53MaxIs
<1>3. PICK s : s = Spacing(n, 1)
  OBVIOUS
<1>4. s \in Spacings /\ s # 1
  BY <1>3, Int53MaxIs, SpacingIs
<1>5. s \in Nat /\ s > 1
  BY <1>4, SpacingsAre
<1>6. PICK h \in Nat : s = 2 * h /\ h > 0
  BY <1>4, <1>5, SpacingsAre
<1>7. PICK low : low = n \div s
  OBVIOUS
<1>8. n >= k * s
  BY <1>1, <1>3, SpacingIsWide
<1>9. low \in Nat /\ low >= k
  BY <1>5, <1>7, <1>8, DividesAtLeast
<1>10. Nearest(n, 1) \in {s * low, s * (low + 1)}
  BY <1>3, <1>5, <1>7, NearestIs
<1>11. s * low \in Nat /\ s * (low + 1) \in Nat /\ s * (low + 1) >= s * low
  <2>1. s * (low + 1) = s * low + s
    BY <1>5, <1>9
  <2> QED
    BY <1>5, <1>9, <2>1, ProductInNat
<1>12. CASE h = 1
  <2>1. s = 2
    BY <1>6, <1>12
  <2>2. s * low = 2 * low
    BY <2>1
  <2>3. n >= Int53Max + 2 => low >= k + 1
    <3>1. ASSUME n >= Int53Max + 2 PROVE n >= (k + 1) * s
      BY <1>1, <2>1, <3>1
    <3> QED
      BY <1>5, <1>7, <3>1, DividesAtLeast
  <2> QED
    BY <1>1, <1>9, <1>10, <1>11, <2>2, <2>3
<1>13. CASE h > 1
  <2>1. PICK e \in Nat : s = 4 + e
    <3>1. s - 4 \in Nat /\ s = 4 + (s - 4)
      BY <1>6, <1>13
    <3> QED
      BY <3>1
  <2>2. s * low = 4 * low + e * low /\ e * low \in Nat
    BY <1>9, <2>1, ProductInNat
  <2>3. s * low >= Int53Max + 2
    BY <1>1, <1>2, <1>9, <2>2
  <2> QED
    BY <1>10, <1>11, <2>3, Int53MaxIs
<1> QED
  BY <1>6, <1>12, <1>13

LEMMA NearestSmall ==
    ASSUME NEW n \in Nat, n <= Int53Max
    PROVE  /\ Nearest(n, 1) = n
           /\ \E s \in Spacings : n <= Int53Max * s
<1>1. n <= Int53Max * 1
  BY Int53MaxIs
<1>2. Spacing(n, 1) = 1
  BY <1>1, SpacingIsOne, SpacingIs
<1> QED
  BY <1>1, <1>2, SpacingIsOne, NearestIs

LEMMA SmallCollected ==
    ASSUME NEW n \in Nat, n <= Int53Max
    PROVE  Collected(n, n)
BY Int53MaxIs DEF Collected

\* A whole number is rounded to itself or to a double beyond Int53Max.
LEMMA WholeIs ==
    ASSUME NEW n \in Nat
    PROVE  /\ Collected(n, Whole(n))
           /\ Whole(n) = Infinity \/ Whole(n) \in Nat
<1>1. CASE n <= Int53Max
  <2>1. Whole(n) = n
    BY <1>1, NearestSmall, Int53MaxIs DEF Whole
  <2> QED
    BY <1>1, <2>1, SmallCollected
<1>2. CASE Whole(n) = Infinity /\ n > Int53Max
  BY <1>2, Int53MaxIs DEF Collected
<1>3. CASE Whole(n) # Infinity /\ n > Int53Max
  <2>1. PICK s \in Spacings : n <= Int53Max * s
    BY <1>3 DEF Whole
  <2>2. Whole(n) = Nearest(n, 1)
    BY <1>3 DEF Whole
  <2>3. /\ Nearest(n, 1) \in Nat /\ Nearest(n, 1) >= Int53Max
        /\ n >= Int53Max + 2 => Nearest(n, 1) >= Int53Max + 2
    BY <1>3, <2>1, NearestFar
  <2> QED
    BY <1>3, <2>2, <2>3, Int53MaxIs DEF Collected
<1> QED
  BY <1>1, <1>2, <1>3, Int53MaxIs

\* A digit more is rounded twice, and collected all the same.
LEMMA ShiftMeans ==
    ASSUME NEW a \in Nat, NEW digit \in 0 .. 9, NEW x \in Int, Collected(a, x)
    PROVE  /\ Shift(x, digit) \in Int
           /\ Collected(10 * a + digit, Shift(x, digit))
<1>1. PICK k \in Nat : Int53Max = 2 * k
  BY Int53MaxIs
<1>2. Int53Max \in Nat /\ Int53Max > 9
  BY Int53MaxIs
<1>3. PICK n : n = 10 * a + digit
  OBVIOUS
<1>4. n \in Nat
  BY <1>3
<1>5. PICK tens : tens = Whole(10 * x)
  OBVIOUS
<1>6. PICK y : y = Shift(x, digit)
  OBVIOUS
<1>7. y = IF Infinity \in {x, tens} THEN Infinity ELSE Whole(tens + digit)
  BY <1>5, <1>6 DEF Shift
<1>8. Infinity \in Int /\ Infinity < 0
  BY DEF Infinity
<1>9. CASE x = Infinity
  <2>1. a > Int53Max
    BY <1>2, <1>8, <1>9 DEF Collected
  <2>2. n > Int53Max + 1 /\ y = Infinity
    BY <1>2, <1>3, <1>7, <1>9, <2>1
  <2> QED
    BY <1>2, <1>3, <1>4, <1>6, <1>8, <2>2 DEF Collected
<1>10. CASE x # Infinity
  <2>1. /\ x \in Nat
        /\ x = a \/ (a > Int53Max /\ x >= Int53Max)
    BY <1>2, <1>10 DEF Collected
  <2>2. 10 * x \in Nat
    BY <2>1
  <2>3. Collected(10 * x, tens) /\ (tens = Infinity \/ tens \in Nat)
    BY <1>5, <2>2, WholeIs
  <2>4. CASE 10 * x <= Int53Max
    <3>1. tens = 10 * x
      BY <2>3, <2>4 DEF Collected
    <3>2. x = a
      BY <1>2, <2>1, <2>4
    <3>3. tens + digit = n /\ tens # Infinity
      BY <1>3, <1>8, <2>1, <3>1, <3>2
    <3>4. y = Whole(n)
      BY <1>7, <1>10, <3>3
    <3> QED
      BY <1>3, <1>4, <1>6, <1>8, <3>4, WholeIs
  <2>5. CASE 10 * x > Int53Max
    <3>1. 10 * x >= Int53Max + 2
      BY <1>1, <2>1, <2>5
    <3>2. n > Int53Max + 1
      BY <1>2, <1>3, <2>1, <3>1
    <3>3. CASE tens = Infinity
      BY <1>2, <1>3, <1>4, <1>6, <1>7, <1>8, <3>2, <3>3 DEF Collected
    <3>4. CASE tens # Infinity
      <4>1. tens \in Nat /\ tens >= Int53Max + 2
        BY <1>2, <2>3, <3>1, <3>4 DEF Collected
      <4>2. tens + digit \in Nat /\ tens + digit >= Int53Max + 2
        BY <1>2, <4>1
      <4>3. y = Whole(tens + digit)
        BY <1>7, <1>10, <3>4
      <4>4. Collected(tens + digit, y) /\ (y = Infinity \/ y \in Nat)
        BY <4>2, <4>3, WholeIs
      <4>5. y = Infinity \/ (y \in Nat /\ y >= Int53Max + 2)
        BY <1>2, <4>2, <4>4 DEF Collected
      <4> QED
        BY <1>2, <1>3, <1>4, <1>6, <1>8, <3>2, <4>5 DEF Collected
    <3> QED
      BY <3>3, <3>4
  <2> QED
    BY <1>2, <2>1, <2>4, <2>5
<1> QED
  BY <1>9, <1>10

LEMMA WithDigitIs ==
    ASSUME NEW m \in NumberRecords, NEW c \in Digits,
           NEW digit, digit = DigitOf(c), NEW r, r = WithDigit(m, c)
    PROVE  /\ digit \in 0 .. 9 /\ r \in NumberRecords
           /\ r.mantissa = 10 * m.mantissa + digit /\ r.mantissa \in Nat
           /\ r.negative = m.negative /\ r.fraction = m.fraction
           /\ r.down = m.down /\ r.exponent = m.exponent /\ r.whole = m.whole
<1>1. digit \in 0 .. 9
  BY DEF Digits, DigitOf
<1> QED
  BY <1>1 DEF WithDigit, NumberRecords

LEMMA WithFractionDigitIs ==
    ASSUME NEW m \in NumberRecords, NEW c \in Digits,
           NEW digit, digit = DigitOf(c), NEW r, r = WithFractionDigit(m, c)
    PROVE  /\ digit \in 0 .. 9 /\ r \in NumberRecords
           /\ r.mantissa = 10 * m.mantissa + digit
           /\ r.fraction = m.fraction + 1
           /\ r.negative = m.negative
           /\ r.down = m.down /\ r.exponent = m.exponent /\ r.whole = m.whole
<1>1. digit \in 0 .. 9
  BY DEF Digits, DigitOf
<1> DEFINE onto == [m EXCEPT !.mantissa = 10 * m.mantissa + digit]
<1>2. /\ onto \in NumberRecords
      /\ onto.mantissa = 10 * m.mantissa + digit
      /\ onto.fraction = m.fraction
      /\ onto.negative = m.negative
      /\ onto.down = m.down /\ onto.exponent = m.exponent
      /\ onto.whole = m.whole
  BY <1>1 DEF NumberRecords
<1>3. r = [onto EXCEPT !.fraction = onto.fraction + 1]
  BY DEF WithFractionDigit
<1> HIDE DEF onto
<1> QED
  BY <1>1, <1>2, <1>3 DEF NumberRecords

LEMMA WithExponentDigitIs ==
    ASSUME NEW m \in NumberRecords, NEW c \in Digits,
           NEW digit, digit = DigitOf(c), NEW r, r = WithExponentDigit(m, c)
    PROVE  /\ digit \in 0 .. 9 /\ r \in NumberRecords
           /\ r.exponent = 10 * m.exponent + digit
           /\ r.mantissa = m.mantissa
           /\ r.negative = m.negative /\ r.fraction = m.fraction
           /\ r.down = m.down /\ r.whole = m.whole
<1>1. digit \in 0 .. 9
  BY DEF Digits, DigitOf
<1> QED
  BY <1>1 DEF WithExponentDigit, NumberRecords

LEMMA NotWholeIs ==
    ASSUME NEW m \in NumberRecords, NEW r, r = NotWhole(m)
    PROVE  /\ r \in NumberRecords /\ r.whole = FALSE
           /\ r.mantissa = m.mantissa /\ r.exponent = m.exponent
           /\ r.negative = m.negative /\ r.fraction = m.fraction
           /\ r.down = m.down
BY DEF NotWhole, NumberRecords

LEMMA WithSignIs ==
    ASSUME NEW m \in NumberRecords, NEW c, NEW r, r = WithSign(m, c)
    PROVE  /\ r \in NumberRecords /\ r.down = (c = Minus)
           /\ r.mantissa = m.mantissa /\ r.exponent = m.exponent
           /\ r.negative = m.negative /\ r.fraction = m.fraction
           /\ r.whole = m.whole
BY DEF WithSign, NumberRecords

\* Another digit, of an int or of a double.
LEMMA CollectMeans ==
    ASSUME DigitsInv, NEW m, NumberMeans(m), NEW c \in Digits,
           Collect(DigitOf(c)),
           UNCHANGED <<negative, exponent, negativeExponent, exp>>,
           pc # "store", pc' # "store",
           NEW r, r = WithDigit(m, c)
    PROVE  NumberMeans(r)'
<1>1. m \in NumberRecords /\ m.mantissa \in Nat /\ m.whole \in BOOLEAN
  BY DEF NumberMeans, NumberRecords
<1>2. PICK digit : digit = DigitOf(c)
  OBVIOUS
<1>3. /\ digit \in 0 .. 9 /\ r \in NumberRecords
      /\ r.mantissa = 10 * m.mantissa + digit
      /\ r.negative = m.negative /\ r.fraction = m.fraction
      /\ r.down = m.down /\ r.exponent = m.exponent /\ r.whole = m.whole
  BY <1>1, <1>2, WithDigitIs
<1>4. /\ r.negative = negative' /\ negativeExponent' = r.down
      /\ exp' = IF r.exponent > IntMax THEN IntMax ELSE r.exponent
      /\ exponent' = (IF pc' # "store" THEN 0 ELSE IF r.down THEN -exp' ELSE exp')
                     - r.fraction
  BY <1>3 DEF NumberMeans
<1>5. /\ Limit' = Limit /\ Limit \in Nat /\ u \in Nat /\ u <= Limit
      /\ u <= Int53Max
  <2>1. /\ IntMax \in Nat /\ IntMax > 9 /\ Int53Max \in Nat /\ Int53Max > IntMax
        /\ Limit' = Limit /\ Limit \in Nat /\ Limit <= IntMax + 1
    BY IntAssumption, DoubleAssumption DEF Limit
  <2>2. u \in Nat /\ u <= Limit
    BY DEF Limit, DigitsInv
  <2> QED
    BY <2>1, <2>2
<1>6. Collect(digit)
  BY <1>2
<1>7. CASE ~try_double /\ ~Overflows(digit)
  <2>1. /\ try_double' = try_double /\ u' = (10 * u + digit) % UnsignedRange
    BY <1>6, <1>7 DEF Collect
  <2>2. 10 * u + digit \in Nat /\ 10 * u + digit <= Limit
    BY <1>3, <1>7, CollectFits DEF Limit
  <2>3. UnsignedRange \in Nat /\ 10 * u + digit < UnsignedRange
    <3>1. IntMax \in Nat /\ IntMax > 9 /\ Limit <= IntMax + 1
      BY IntAssumption DEF Limit
    <3> QED
      BY <1>5, <2>2, <3>1 DEF UnsignedRange
  <2>4. u' = 10 * u + digit
    BY <2>1, <2>2, <2>3, UnsignedKeeps
  <2>5. m.whole /\ u = m.mantissa
    BY <1>7 DEF NumberMeans
  <2>6. ~try_double' /\ r.whole /\ u' = r.mantissa
    BY <1>3, <1>7, <2>1, <2>4, <2>5
  <2> QED
    BY <1>3, <1>4, <2>6 DEF NumberMeans
<1>8. CASE ~try_double /\ Overflows(digit)
  <2>1. try_double' = TRUE /\ d' = Shift(u, digit)
    BY <1>6, <1>8 DEF Collect
  <2>2. m.whole /\ u = m.mantissa
    BY <1>8 DEF NumberMeans
  <2>3. r.mantissa > Limit'
    BY <1>3, <1>5, <1>8, <2>2, OverflowsBeyond
  <2>4. d' \in Int /\ Collected(r.mantissa, d')
    <3>1. Collected(m.mantissa, u)
      BY ONLY <1>5, <2>2, SmallCollected
    <3>2. u \in Int
      BY <1>5
    <3> QED
      BY ONLY <1>1, <1>3, <2>1, <3>1, <3>2, ShiftMeans
  <2> QED
    BY <1>3, <1>4, <2>1, <2>3, <2>4 DEF NumberMeans, Collected
<1>9. CASE try_double
  <2>1. try_double' = TRUE /\ d' = Shift(d, digit)
    BY <1>6, <1>9 DEF Collect
  <2>2. d \in Int /\ Collected(m.mantissa, d)
    BY <1>9 DEF NumberMeans
  <2>3. d' \in Int /\ Collected(r.mantissa, d')
    BY <1>1, <1>3, <2>1, <2>2, ShiftMeans
  <2>4. r.whole => r.mantissa > Limit'
    <3>1. r.whole => m.mantissa > Limit
      BY <1>3, <1>9 DEF NumberMeans
    <3> QED
      BY <1>1, <1>3, <1>5, <3>1
  <2> QED
    BY <1>3, <1>4, <2>1, <2>3, <2>4 DEF NumberMeans, Collected
<1> QED
  BY <1>7, <1>8, <1>9

-----------------------------------------------------------------------------
(***************************************************************************)
(* The steps of parse_number.                                              *)
(***************************************************************************)
LEMMA DigitKeeps ==
    ASSUME PlaceInv, TextInv, DigitsInv, NEW s, Matches(s), Digit
    PROVE  Keeps(s)
<1>1. /\ s.place \in {"integer", "digits"} /\ s.place \in NumberPlaces
      /\ pc = "digits"
  BY DEF Matches, Agrees, Digit, StringPlaces, NumberPlaces
<1>2. /\ input_end \in Nat /\ p \in 0 .. input_end - 1 /\ p \in 0 .. input_end
      /\ s.at = p
      /\ ByteAt(original, input_end, p) = input[p] /\ input[p] = original[p]
      /\ After(original, input_end, s) = AfterDigit(original, input_end, s)
      /\ NumberMeans(s.number) /\ s.number \in NumberRecords
      /\ ~s.number.down /\ s.number.exponent = 0
  BY <1>1, InNumber
<1>3. s.place = "integer" => original[p] \in Digits \ {Zero}
  BY <1>1 DEF Matches, NumberMatches
<1>4. CASE input[p] \in Digits /\ Advance("digits")
  <2>0. PICK c : c = input[p]
    OBVIOUS
  <2>1. PICK r : r = Onto(s, "digits", WithDigit(s.number, c))
    OBVIOUS
  <2>2. r = After(original, input_end, s)
    BY <1>1, <1>2, <1>3, <1>4, <2>0, <2>1, ReadsDigit
  <2>3. /\ r.at = p + 1 /\ r.place = "digits" /\ r.says = s.says
        /\ r.breaks = s.breaks /\ r.number = WithDigit(s.number, c)
        /\ r.place \in NumberPlaces
    BY <1>2, <2>1, OntoIs DEF NumberPlaces
  <2>4. ~r.number.down /\ r.number.exponent = 0
    BY <1>2, <1>4, <2>0, <2>3, WithDigitIs
  <2>5. ASSUME ~at_eof(p + 1), Goto(p + 1, "digits")
        PROVE  Agrees(r.place)' /\ NumberMatches(r)'
    <3>1. p' = p + 1 /\ pc' = "digits" /\ input_end' = input_end
      BY <2>5 DEF Goto
    <3>2. p' < input_end'
      BY <1>2, <2>5, <3>1 DEF at_eof
    <3>3. Collect(DigitOf(c)) /\ UNCHANGED <<negative, exponent, negativeExponent, exp>>
      BY <1>4, <2>0, <2>5 DEF Digit
    <3>4. NumberMeans(r.number)'
      BY <1>1, <1>2, <1>4, <2>0, <2>3, <3>1, <3>3, CollectMeans
    <3> QED
      BY <2>3, <2>4, <3>1, <3>2, <3>4 DEF Agrees, NumberMatches
  <2> QED
    BY <1>2, <1>4, <2>2, <2>3, <2>5, AdvancesInNumber
<1>5. CASE input[p] \notin Digits /\ Stay("point")
  <2>1. p' = p /\ pc' = "point" /\ input_end' = input_end /\ original' = original
    BY <1>5 DEF Stay, Goto, original
  <2>2. p' < input_end'
    BY <1>2, <2>1
  <2>3. s.place = "digits"
    BY <1>1, <1>2, <1>3, <1>5
  <2>4. NumberMeans(s.number)'
    <3>1. UNCHANGED numberVars
      BY <1>5 DEF Digit, numberVars
    <3> QED
      BY <1>1, <1>2, <2>1, <3>1, NumberStays
  <2>5. Agrees(s.place)' /\ NumberMatches(s)'
    BY <1>2, <1>5, <2>1, <2>2, <2>3, <2>4 DEF Agrees, NumberMatches
  <2> QED
    BY <1>1, <1>5, <2>5, StaysInNumber
<1> QED
  BY <1>4, <1>5 DEF Digit

\* A point or an exponent makes a double of the digits.
LEMMA BecomesDouble ==
    ASSUME DigitsInv, NEW m, NumberMeans(m), BecomeDouble,
           UNCHANGED <<negative, exponent, negativeExponent, exp>>,
           pc # "store", pc' # "store",
           NEW r, r = NotWhole(m)
    PROVE  NumberMeans(r)'
<1>1. m \in NumberRecords /\ m.mantissa \in Nat /\ m.whole \in BOOLEAN
  BY DEF NumberMeans, NumberRecords
<1>2. /\ r \in NumberRecords /\ r.whole = FALSE
      /\ r.mantissa = m.mantissa /\ r.exponent = m.exponent
      /\ r.negative = m.negative /\ r.fraction = m.fraction
      /\ r.down = m.down
  BY <1>1, NotWholeIs
<1>3. /\ r.negative = negative' /\ negativeExponent' = r.down
      /\ exp' = IF r.exponent > IntMax THEN IntMax ELSE r.exponent
      /\ exponent' = (IF pc' # "store" THEN 0 ELSE IF r.down THEN -exp' ELSE exp')
                     - r.fraction
  BY <1>2 DEF NumberMeans
<1>4. u \in Nat /\ u <= Int53Max
  <2>1. /\ IntMax \in Nat /\ Int53Max \in Nat /\ Int53Max > IntMax
    BY IntAssumption, DoubleAssumption
  <2>2. u \in Nat /\ u <= IntMax + 1
    BY <2>1 DEF DigitsInv
  <2> QED
    BY <2>1, <2>2
<1>5. try_double' = TRUE /\ d' = IF try_double THEN d ELSE u
  BY DEF BecomeDouble
<1>6. d' \in Int /\ Collected(r.mantissa, d')
  <2>1. CASE try_double
    BY <1>2, <1>5, <2>1 DEF NumberMeans
  <2>2. CASE ~try_double
    <3>1. u = m.mantissa
      BY <2>2 DEF NumberMeans
    <3> QED
      BY <1>2, <1>4, <1>5, <2>2, <3>1, SmallCollected
  <2> QED
    BY <2>1, <2>2
<1> QED
  BY <1>2, <1>3, <1>5, <1>6 DEF NumberMeans, Collected

LEMMA PointKeeps ==
    ASSUME PlaceInv, TextInv, DigitsInv, NEW s, Matches(s), Point
    PROVE  Keeps(s)
<1>1. /\ s.place \in {"zero", "digits"} /\ s.place \in NumberPlaces
      /\ pc = "point"
  BY DEF Matches, Agrees, Point, StringPlaces, NumberPlaces
<1>2. /\ input_end \in Nat /\ p \in 0 .. input_end - 1 /\ p \in 0 .. input_end
      /\ s.at = p
      /\ ByteAt(original, input_end, p) = input[p] /\ input[p] = original[p]
      /\ After(original, input_end, s) = AfterDigit(original, input_end, s)
      /\ NumberMeans(s.number) /\ s.number \in NumberRecords
      /\ ~s.number.down /\ s.number.exponent = 0
  BY <1>1, InNumber
<1>3. s.place = "digits" => original[p] \notin Digits
  BY <1>1 DEF Matches, NumberMatches
<1>4. CASE input[p] = Dot /\ Advance("first_fraction_digit") /\ BecomeDouble
  <2>1. PICK r : r = Onto(s, "point", NotWhole(s.number))
    OBVIOUS
  <2>2. r = After(original, input_end, s)
    BY <1>1, <1>2, <1>4, <2>1, ReadsPoint
  <2>3. /\ r.at = p + 1 /\ r.place = "point" /\ r.says = s.says
        /\ r.breaks = s.breaks /\ r.number = NotWhole(s.number)
        /\ r.place \in NumberPlaces
    BY <1>2, <2>1, OntoIs DEF NumberPlaces
  <2>4. ~r.number.whole /\ ~r.number.down /\ r.number.exponent = 0
    BY <1>2, <2>3, NotWholeIs
  <2>5. ASSUME ~at_eof(p + 1), Goto(p + 1, "first_fraction_digit")
        PROVE  Agrees(r.place)' /\ NumberMatches(r)'
    <3>1. p' = p + 1 /\ pc' = "first_fraction_digit" /\ input_end' = input_end
      BY <2>5 DEF Goto
    <3>2. p' < input_end'
      BY <1>2, <2>5, <3>1 DEF at_eof
    <3>3. NumberMeans(r.number)'
      BY <1>1, <1>2, <1>4, <2>3, <3>1, BecomesDouble DEF Point
    <3> QED
      BY <2>3, <2>4, <3>1, <3>2, <3>3 DEF Agrees, NumberMatches
  <2> QED
    BY <1>2, <1>4, <2>2, <2>3, <2>5, AdvancesInNumber
<1>5. CASE input[p] # Dot /\ Stay("exponent") /\ UNCHANGED <<try_double, d>>
  <2>1. p' = p /\ pc' = "exponent" /\ input_end' = input_end /\ original' = original
    BY <1>5 DEF Stay, Goto, original
  <2>2. p' < input_end'
    BY <1>2, <2>1
  <2>3. original[p] \notin Following[s.place] \ ExponentMarks
    BY <1>1, <1>2, <1>3, <1>5, FollowingIs
  <2>4. NumberMeans(s.number)'
    <3>1. UNCHANGED numberVars
      BY <1>5 DEF Point, numberVars
    <3> QED
      BY <1>1, <1>2, <2>1, <3>1, NumberStays
  <2>5. Agrees(s.place)' /\ NumberMatches(s)'
    BY <1>1, <1>2, <2>1, <2>2, <2>3, <2>4 DEF Agrees, NumberMatches
  <2> QED
    BY <1>1, <1>5, <2>5, StaysInNumber
<1> QED
  BY <1>4, <1>5 DEF Point

LEMMA FirstFractionDigitKeeps ==
    ASSUME PlaceInv, TextInv, NEW s, Matches(s), FirstFractionDigit
    PROVE  Keeps(s)
<1>1. s.place = "point" /\ s.place \in NumberPlaces /\ pc = "first_fraction_digit"
  BY DEF Matches, Agrees, FirstFractionDigit, StringPlaces, NumberPlaces
<1>2. /\ input_end \in Nat /\ p \in 0 .. input_end - 1 /\ p \in 0 .. input_end
      /\ s.at = p
      /\ ByteAt(original, input_end, p) = input[p] /\ input[p] = original[p]
      /\ NumberMeans(s.number) /\ ~s.number.whole
      /\ ~s.number.down /\ s.number.exponent = 0
  BY <1>1, InNumber
<1>3. CASE input[p] \notin Digits /\ Fail(p, "INVALID_NUMBER")
  <2>1. AfterDigit(original, input_end, s) = s
    BY <1>1, <1>2, <1>3, StuckInNumber
  <2> QED
    BY <1>1, <1>2, <1>3, <2>1, FailsInNumber
<1>4. CASE input[p] \in Digits /\ Stay("fraction")
  <2>1. p' = p /\ pc' = "fraction" /\ input_end' = input_end /\ original' = original
    BY <1>4 DEF Stay, Goto, original
  <2>2. p' < input_end'
    BY <1>2, <2>1
  <2>3. NumberMeans(s.number)'
    BY <1>1, <1>2, <2>1, NumberStays DEF FirstFractionDigit
  <2>4. Agrees(s.place)' /\ NumberMatches(s)'
    BY <1>1, <1>2, <1>4, <2>1, <2>2, <2>3 DEF Agrees, NumberMatches
  <2> QED
    BY <1>1, <1>4, <2>4, StaysInNumber
<1> QED
  BY <1>3, <1>4 DEF FirstFractionDigit

\* Another digit behind the point.
LEMMA FractionMeans ==
    ASSUME NEW m, NumberMeans(m), ~m.whole, NEW c \in Digits,
           d' = Shift(d, DigitOf(c)), exponent' = exponent - 1,
           UNCHANGED <<negative, try_double, u, negativeExponent, exp>>,
           pc # "store", pc' # "store",
           NEW r, r = WithFractionDigit(m, c)
    PROVE  NumberMeans(r)'
<1>1. m \in NumberRecords /\ m.mantissa \in Nat /\ m.fraction \in Nat
  BY DEF NumberMeans, NumberRecords
<1>2. PICK digit : digit = DigitOf(c)
  OBVIOUS
<1>3. /\ digit \in 0 .. 9 /\ r \in NumberRecords
      /\ r.mantissa = 10 * m.mantissa + digit
      /\ r.fraction = m.fraction + 1
      /\ r.negative = m.negative
      /\ r.down = m.down /\ r.exponent = m.exponent /\ r.whole = m.whole
  BY <1>1, <1>2, WithFractionDigitIs
<1>4. /\ r.negative = negative' /\ negativeExponent' = r.down
      /\ exp' = IF r.exponent > IntMax THEN IntMax ELSE r.exponent
  BY <1>3 DEF NumberMeans
<1>5. exponent' = 0 - r.fraction
  BY <1>1, <1>3 DEF NumberMeans
<1>6. try_double /\ d \in Int /\ Collected(m.mantissa, d)
  BY DEF NumberMeans
<1>7. d' \in Int /\ Collected(r.mantissa, d')
  BY <1>1, <1>2, <1>3, <1>6, ShiftMeans
<1> QED
  BY <1>3, <1>4, <1>5, <1>6, <1>7 DEF NumberMeans, Collected

LEMMA FractionDigitKeeps ==
    ASSUME PlaceInv, TextInv, NEW s, Matches(s), FractionDigit
    PROVE  Keeps(s)
<1>1. /\ s.place \in {"point", "fraction"} /\ s.place \in NumberPlaces
      /\ pc = "fraction"
  BY DEF Matches, Agrees, FractionDigit, StringPlaces, NumberPlaces
<1>2. /\ input_end \in Nat /\ p \in 0 .. input_end - 1 /\ p \in 0 .. input_end
      /\ s.at = p
      /\ ByteAt(original, input_end, p) = input[p] /\ input[p] = original[p]
      /\ After(original, input_end, s) = AfterDigit(original, input_end, s)
      /\ NumberMeans(s.number) /\ s.number \in NumberRecords
      /\ ~s.number.whole /\ ~s.number.down /\ s.number.exponent = 0
  BY <1>1, InNumber
<1>3. s.place = "point" => original[p] \in Digits
  BY <1>1 DEF Matches, NumberMatches
<1>4. CASE input[p] \in Digits /\ Advance("fraction")
  <2>0. PICK c : c = input[p]
    OBVIOUS
  <2>1. PICK r : r = Onto(s, "fraction", WithFractionDigit(s.number, c))
    OBVIOUS
  <2>2. r = After(original, input_end, s)
    BY <1>1, <1>2, <1>4, <2>0, <2>1, ReadsFractionDigit
  <2>3. /\ r.at = p + 1 /\ r.place = "fraction" /\ r.says = s.says
        /\ r.breaks = s.breaks /\ r.number = WithFractionDigit(s.number, c)
        /\ r.place \in NumberPlaces
    BY <1>2, <2>1, OntoIs DEF NumberPlaces
  <2>4. ~r.number.whole /\ ~r.number.down /\ r.number.exponent = 0
    BY <1>2, <1>4, <2>0, <2>3, WithFractionDigitIs
  <2>5. ASSUME ~at_eof(p + 1), Goto(p + 1, "fraction")
        PROVE  Agrees(r.place)' /\ NumberMatches(r)'
    <3>1. p' = p + 1 /\ pc' = "fraction" /\ input_end' = input_end
      BY <2>5 DEF Goto
    <3>2. p' < input_end'
      BY <1>2, <2>5, <3>1 DEF at_eof
    <3>3. /\ d' = Shift(d, DigitOf(c)) /\ exponent' = exponent - 1
          /\ UNCHANGED <<negative, try_double, u, negativeExponent, exp>>
      BY <1>4, <2>0, <2>5 DEF FractionDigit
    <3>4. NumberMeans(r.number)'
      BY <1>1, <1>2, <1>4, <2>0, <2>3, <3>1, <3>3, FractionMeans
    <3> QED
      BY <2>3, <2>4, <3>1, <3>2, <3>4 DEF Agrees, NumberMatches
  <2> QED
    BY <1>2, <1>4, <2>2, <2>3, <2>5, AdvancesInNumber
<1>5. CASE input[p] \notin Digits /\ Stay("exponent")
  <2>1. p' = p /\ pc' = "exponent" /\ input_end' = input_end /\ original' = original
    BY <1>5 DEF Stay, Goto, original
  <2>2. p' < input_end' /\ s.place = "fraction"
    BY <1>1, <1>2, <1>3, <1>5, <2>1
  <2>3. original[p] \notin Following[s.place] \ ExponentMarks
    BY <1>2, <1>5, <2>2, FollowingIs
  <2>4. NumberMeans(s.number)'
    <3>1. UNCHANGED numberVars
      BY <1>5 DEF FractionDigit, numberVars
    <3> QED
      BY <1>1, <1>2, <2>1, <3>1, NumberStays
  <2>5. Agrees(s.place)' /\ NumberMatches(s)'
    BY <1>1, <1>2, <2>1, <2>2, <2>3, <2>4 DEF Agrees, NumberMatches
  <2> QED
    BY <1>1, <1>5, <2>5, StaysInNumber
<1> QED
  BY <1>4, <1>5 DEF FractionDigit

LEMMA ExponentKeeps ==
    ASSUME PlaceInv, TextInv, DigitsInv, NEW s, Matches(s), Exponent
    PROVE  Keeps(s)
<1>1. /\ s.place \in {"zero", "digits", "fraction"} /\ s.place \in NumberPlaces
      /\ pc = "exponent"
  BY DEF Matches, Agrees, Exponent, StringPlaces, NumberPlaces
<1>2. /\ input_end \in Nat /\ p \in 0 .. input_end - 1 /\ p \in 0 .. input_end
      /\ s.at = p
      /\ ByteAt(original, input_end, p) = input[p] /\ input[p] = original[p]
      /\ After(original, input_end, s) = AfterDigit(original, input_end, s)
      /\ NumberMeans(s.number) /\ s.number \in NumberRecords
      /\ s.place \notin {"integer", "zero", "digits"} => ~s.number.whole
      /\ ~s.number.down /\ s.number.exponent = 0
  BY <1>1, InNumber
<1>3. original[p] \notin Following[s.place] \ ExponentMarks
  BY <1>1 DEF Matches, NumberMatches
<1>4. CASE input[p] \in ExponentMarks /\ Advance("exponent_sign") /\ BecomeDouble
  <2>1. PICK r : r = Onto(s, "mark", NotWhole(s.number))
    OBVIOUS
  <2>2. r = After(original, input_end, s)
    BY <1>1, <1>2, <1>4, <2>1, ReadsMark
  <2>3. /\ r.at = p + 1 /\ r.place = "mark" /\ r.says = s.says
        /\ r.breaks = s.breaks /\ r.number = NotWhole(s.number)
        /\ r.place \in NumberPlaces
    BY <1>2, <2>1, OntoIs DEF NumberPlaces
  <2>4. ~r.number.whole /\ ~r.number.down /\ r.number.exponent = 0
    BY <1>2, <2>3, NotWholeIs
  <2>5. ASSUME ~at_eof(p + 1), Goto(p + 1, "exponent_sign")
        PROVE  Agrees(r.place)' /\ NumberMatches(r)'
    <3>1. p' = p + 1 /\ pc' = "exponent_sign" /\ input_end' = input_end
      BY <2>5 DEF Goto
    <3>2. p' < input_end'
      BY <1>2, <2>5, <3>1 DEF at_eof
    <3>3. NumberMeans(r.number)'
      BY <1>1, <1>2, <1>4, <2>3, <3>1, BecomesDouble DEF Exponent
    <3> QED
      BY <2>3, <2>4, <3>1, <3>2, <3>3 DEF Agrees, NumberMatches
  <2> QED
    BY <1>2, <1>4, <2>2, <2>3, <2>5, AdvancesInNumber
<1>5. CASE input[p] \notin ExponentMarks /\ Stay("store") /\ UNCHANGED <<try_double, d>>
  <2>1. p' = p /\ pc' = "store" /\ input_end' = input_end /\ original' = original
    BY <1>5 DEF Stay, Goto, original
  <2>2. p' < input_end'
    BY <1>2, <2>1
  <2>3. original[p] \notin Following[s.place]
    BY <1>2, <1>3, <1>5
  <2>4. NumberMeans(s.number)'
    <3>1. UNCHANGED <<negative, try_double, u, d, exponent, negativeExponent, exp>>
      BY <1>5 DEF Exponent
    <3>2. exp = 0
      BY <1>2, IntAssumption DEF NumberMeans
    <3>3. exponent = 0 - s.number.fraction
      BY <1>1, <1>2 DEF NumberMeans
    <3>4. exponent' = (IF s.number.down THEN -exp' ELSE exp') - s.number.fraction
      BY <1>2, <3>1, <3>2, <3>3
    <3> QED
      BY <1>2, <2>1, <3>1, <3>4 DEF NumberMeans, Limit
  <2>5. Agrees(s.place)' /\ NumberMatches(s)'
    BY <1>1, <1>2, <2>1, <2>2, <2>3, <2>4 DEF Agrees, NumberMatches
  <2> QED
    BY <1>1, <1>5, <2>5, StaysInNumber
<1> QED
  BY <1>4, <1>5 DEF Exponent

\* The sign of an exponent, or none.
LEMMA SignMeans ==
    ASSUME NEW m, NumberMeans(m), NEW r \in NumberRecords,
           r.mantissa = m.mantissa, r.exponent = m.exponent,
           r.negative = m.negative, r.fraction = m.fraction,
           r.whole = m.whole,
           negativeExponent' = r.down,
           UNCHANGED <<negative, try_double, u, d, exponent, exp>>,
           pc # "store", pc' # "store"
    PROVE  NumberMeans(r)'
BY DEF NumberMeans, Limit

LEMMA ExponentSignKeeps ==
    ASSUME PlaceInv, TextInv, NEW s, Matches(s), ExponentSign
    PROVE  Keeps(s)
<1>1. s.place = "mark" /\ s.place \in NumberPlaces /\ pc = "exponent_sign"
  BY DEF Matches, Agrees, ExponentSign, StringPlaces, NumberPlaces
<1>2. /\ input_end \in Nat /\ p \in 0 .. input_end - 1 /\ p \in 0 .. input_end
      /\ s.at = p
      /\ ByteAt(original, input_end, p) = input[p] /\ input[p] = original[p]
      /\ After(original, input_end, s) = AfterDigit(original, input_end, s)
      /\ NumberMeans(s.number) /\ s.number \in NumberRecords
      /\ ~s.number.whole /\ ~s.number.down /\ s.number.exponent = 0
  BY <1>1, InNumber
<1>3. /\ UNCHANGED <<negative, try_double, u, d, exponent, exp>>
      /\ negativeExponent' = (input[p] = Minus)
  BY DEF ExponentSign
<1>4. CASE input[p] \in {Plus, Minus} /\ Advance("first_exponent_digit")
  <2>0. PICK c : c = input[p]
    OBVIOUS
  <2>1. PICK r : r = Onto(s, "sign", WithSign(s.number, c))
    OBVIOUS
  <2>2. r = After(original, input_end, s)
    BY <1>1, <1>2, <1>4, <2>0, <2>1, ReadsSign
  <2>3. /\ r.at = p + 1 /\ r.place = "sign" /\ r.says = s.says
        /\ r.breaks = s.breaks /\ r.number = WithSign(s.number, c)
        /\ r.place \in NumberPlaces
    BY <1>2, <2>1, OntoIs DEF NumberPlaces
  <2>4. /\ r.number \in NumberRecords /\ r.number.down = (c = Minus)
        /\ r.number.mantissa = s.number.mantissa
        /\ r.number.exponent = s.number.exponent
        /\ r.number.negative = s.number.negative
        /\ r.number.fraction = s.number.fraction
        /\ r.number.whole = s.number.whole
    BY <1>2, <2>3, WithSignIs
  <2>5. ASSUME ~at_eof(p + 1), Goto(p + 1, "first_exponent_digit")
        PROVE  Agrees(r.place)' /\ NumberMatches(r)'
    <3>1. p' = p + 1 /\ pc' = "first_exponent_digit" /\ input_end' = input_end
      BY <2>5 DEF Goto
    <3>2. p' < input_end'
      BY <1>2, <2>5, <3>1 DEF at_eof
    <3>3. NumberMeans(r.number)'
      <4>1. negativeExponent' = r.number.down
        BY <1>3, <2>0, <2>4
      <4> QED
        BY <1>1, <1>2, <1>3, <2>4, <3>1, <4>1, SignMeans
    <3> QED
      BY <1>2, <2>3, <2>4, <3>1, <3>2, <3>3 DEF Agrees, NumberMatches
  <2> QED
    BY <1>2, <1>4, <2>2, <2>3, <2>5, AdvancesInNumber
<1>5. CASE input[p] \notin {Plus, Minus} /\ Stay("first_exponent_digit")
  <2>1. /\ p' = p /\ pc' = "first_exponent_digit" /\ input_end' = input_end
        /\ original' = original
    BY <1>5 DEF Stay, Goto, original
  <2>2. p' < input_end'
    BY <1>2, <2>1
  <2>3. NumberMeans(s.number)'
    <3>1. negativeExponent' = FALSE /\ s.number.down = FALSE
      BY <1>2, <1>3, <1>5 DEF NumberRecords
    <3> QED
      BY <1>1, <1>2, <1>3, <2>1, <3>1, SignMeans
  <2>4. Agrees(s.place)' /\ NumberMatches(s)'
    BY <1>1, <1>2, <1>5, <2>1, <2>2, <2>3 DEF Agrees, NumberMatches
  <2> QED
    BY <1>1, <1>5, <2>4, StaysInNumber
<1> QED
  BY <1>4, <1>5 DEF ExponentSign

LEMMA FirstExponentDigitKeeps ==
    ASSUME PlaceInv, TextInv, NEW s, Matches(s), FirstExponentDigit
    PROVE  Keeps(s)
<1>1. /\ s.place \in {"mark", "sign"} /\ s.place \in NumberPlaces
      /\ pc = "first_exponent_digit"
  BY DEF Matches, Agrees, FirstExponentDigit, StringPlaces, NumberPlaces
<1>2. /\ input_end \in Nat /\ p \in 0 .. input_end - 1 /\ p \in 0 .. input_end
      /\ s.at = p
      /\ ByteAt(original, input_end, p) = input[p] /\ input[p] = original[p]
      /\ NumberMeans(s.number) /\ ~s.number.whole
      /\ s.place \notin {"sign", "exponent"} => ~s.number.down
      /\ s.number.exponent = 0
  BY <1>1, InNumber
<1>3. s.place = "mark" => original[p] \notin {Plus, Minus}
  BY <1>1 DEF Matches, NumberMatches
<1>4. CASE input[p] \notin Digits /\ Fail(p, "MISSING_EXPONENT")
  <2>1. AfterDigit(original, input_end, s) = s
    BY <1>1, <1>2, <1>3, <1>4, StuckInNumber
  <2> QED
    BY <1>1, <1>2, <1>4, <2>1, FailsInNumber
<1>5. CASE input[p] \in Digits /\ Stay("exponent_digits")
  <2>1. /\ p' = p /\ pc' = "exponent_digits" /\ input_end' = input_end
        /\ original' = original
    BY <1>5 DEF Stay, Goto, original
  <2>2. p' < input_end'
    BY <1>2, <2>1
  <2>3. NumberMeans(s.number)'
    BY <1>1, <1>2, <2>1, NumberStays DEF FirstExponentDigit
  <2>4. Agrees(s.place)' /\ NumberMatches(s)'
    BY <1>1, <1>2, <1>5, <2>1, <2>2, <2>3 DEF Agrees, NumberMatches
  <2> QED
    BY <1>1, <1>5, <2>4, StaysInNumber
<1> QED
  BY <1>4, <1>5 DEF FirstExponentDigit

\* An exponent is IntMax as soon as its digits make more.
LEMMA ShiftExponentMeans ==
    ASSUME NEW e \in Nat, NEW digit \in 0 .. 9,
           exp = IF e > IntMax THEN IntMax ELSE e
    PROVE  ShiftExponent(digit) = IF 10 * e + digit > IntMax THEN IntMax
                                  ELSE 10 * e + digit
<1>1. IntMax \in Nat /\ IntMax > 9
  BY IntAssumption
<1>2. PICK q : q = (IntMax - digit) \div 10
  OBVIOUS
<1>3. /\ q \in Nat /\ 10 * q <= IntMax - digit /\ IntMax - digit < 10 * (q + 1)
  BY <1>1, <1>2
<1>4. ShiftExponent(digit) = IF exp > q THEN IntMax ELSE 10 * exp + digit
  BY <1>2 DEF ShiftExponent
<1>5. CASE e > IntMax
  BY <1>1, <1>3, <1>4, <1>5
<1>6. CASE ~(e > IntMax)
  BY <1>1, <1>3, <1>4, <1>6
<1> QED
  BY <1>5, <1>6

LEMMA ExponentMeans ==
    ASSUME NEW m, NumberMeans(m), ~m.whole, NEW c \in Digits,
           exp' = ShiftExponent(DigitOf(c)),
           UNCHANGED <<negative, try_double, u, d, exponent, negativeExponent>>,
           pc # "store", pc' # "store",
           NEW r, r = WithExponentDigit(m, c)
    PROVE  NumberMeans(r)'
<1>1. m \in NumberRecords /\ m.exponent \in Nat
  BY DEF NumberMeans, NumberRecords
<1>2. PICK digit : digit = DigitOf(c)
  OBVIOUS
<1>3. /\ digit \in 0 .. 9 /\ r \in NumberRecords
      /\ r.exponent = 10 * m.exponent + digit
      /\ r.mantissa = m.mantissa
      /\ r.negative = m.negative /\ r.fraction = m.fraction
      /\ r.down = m.down /\ r.whole = m.whole
  BY <1>1, <1>2, WithExponentDigitIs
<1>4. exp' = IF r.exponent > IntMax THEN IntMax ELSE r.exponent
  <2>1. exp = IF m.exponent > IntMax THEN IntMax ELSE m.exponent
    BY DEF NumberMeans
  <2> QED
    BY <1>1, <1>2, <1>3, <2>1, ShiftExponentMeans
<1> QED
  BY <1>3, <1>4 DEF NumberMeans, Limit

LEMMA ExponentDigitKeeps ==
    ASSUME PlaceInv, TextInv, NEW s, Matches(s), ExponentDigit
    PROVE  Keeps(s)
<1>1. /\ s.place \in {"mark", "sign", "exponent"} /\ s.place \in NumberPlaces
      /\ pc = "exponent_digits"
  BY DEF Matches, Agrees, ExponentDigit, StringPlaces, NumberPlaces
<1>2. /\ input_end \in Nat /\ p \in 0 .. input_end - 1 /\ p \in 0 .. input_end
      /\ s.at = p
      /\ ByteAt(original, input_end, p) = input[p] /\ input[p] = original[p]
      /\ After(original, input_end, s) = AfterDigit(original, input_end, s)
      /\ NumberMeans(s.number) /\ s.number \in NumberRecords
      /\ ~s.number.whole
  BY <1>1, InNumber
<1>3. s.place # "exponent" => original[p] \in Digits
  BY <1>1 DEF Matches, NumberMatches
<1>4. CASE /\ input[p] \in Digits /\ Advance("exponent_digits")
           /\ exp' = ShiftExponent(DigitOf(input[p])) /\ exponent' = exponent
  <2>0. PICK c : c = input[p]
    OBVIOUS
  <2>1. PICK r : r = Onto(s, "exponent", WithExponentDigit(s.number, c))
    OBVIOUS
  <2>2. r = After(original, input_end, s)
    BY <1>1, <1>2, <1>4, <2>0, <2>1, ReadsExponentDigit
  <2>3. /\ r.at = p + 1 /\ r.place = "exponent" /\ r.says = s.says
        /\ r.breaks = s.breaks /\ r.number = WithExponentDigit(s.number, c)
        /\ r.place \in NumberPlaces
    BY <1>2, <2>1, OntoIs DEF NumberPlaces
  <2>4. ~r.number.whole
    BY <1>2, <1>4, <2>0, <2>3, WithExponentDigitIs
  <2>5. ASSUME ~at_eof(p + 1), Goto(p + 1, "exponent_digits")
        PROVE  Agrees(r.place)' /\ NumberMatches(r)'
    <3>1. p' = p + 1 /\ pc' = "exponent_digits" /\ input_end' = input_end
      BY <2>5 DEF Goto
    <3>2. p' < input_end'
      BY <1>2, <2>5, <3>1 DEF at_eof
    <3>3. UNCHANGED <<negative, try_double, u, d, exponent, negativeExponent>>
      BY <1>4 DEF ExponentDigit
    <3>4. NumberMeans(r.number)'
      BY <1>1, <1>2, <1>4, <2>0, <2>3, <3>1, <3>3, ExponentMeans
    <3> QED
      BY <2>3, <2>4, <3>1, <3>2, <3>4 DEF Agrees, NumberMatches
  <2> QED
    BY <1>2, <1>4, <2>2, <2>3, <2>5, AdvancesInNumber
<1>5. CASE /\ input[p] \notin Digits /\ Stay("store") /\ exp' = exp
           /\ exponent' = exponent + (IF negativeExponent THEN -exp ELSE exp)
  <2>1. p' = p /\ pc' = "store" /\ input_end' = input_end /\ original' = original
    BY <1>5 DEF Stay, Goto, original
  <2>2. p' < input_end' /\ s.place = "exponent"
    BY <1>1, <1>2, <1>3, <1>5, <2>1
  <2>3. original[p] \notin Following[s.place]
    BY <1>2, <1>5, <2>2, FollowingIs
  <2>4. NumberMeans(s.number)'
    <3>1. UNCHANGED <<negative, try_double, u, d, negativeExponent, exp>>
      BY <1>5 DEF ExponentDigit
    <3>2. exp \in Int /\ s.number.fraction \in Int
      BY <1>2, IntAssumption DEF NumberMeans, NumberRecords
    <3>3. exponent = 0 - s.number.fraction /\ negativeExponent = s.number.down
      BY <1>1, <1>2 DEF NumberMeans
    <3>4. exponent' = (IF s.number.down THEN -exp' ELSE exp') - s.number.fraction
      BY <1>5, <3>1, <3>2, <3>3
    <3> QED
      BY <1>2, <2>1, <3>1, <3>4 DEF NumberMeans, Limit
  <2>5. Agrees(s.place)' /\ NumberMatches(s)'
    BY <1>1, <1>2, <2>1, <2>2, <2>3, <2>4 DEF Agrees, NumberMatches
  <2> QED
    BY <1>1, <1>5, <2>5, StaysInNumber
<1> QED
  BY <1>4, <1>5 DEF ExponentDigit

LEMMA NumberOfIs ==
    ASSUME NEW m \in NumberRecords, NEW w, w = NumberOf(m)
    PROVE  /\ w.type = "number" /\ w.negative = m.negative
           /\ w.mantissa = m.mantissa /\ w.fraction = m.fraction
           /\ w.power = (IF m.down THEN -m.exponent ELSE m.exponent) - m.fraction
           /\ w.whole = m.whole
BY DEF NumberOf

\* Beyond the table of pow10 one power of ten is as good as another.
LEMMA ScaledBeyond ==
    ASSUME NEW x \in Int, NEW k \in Int
    PROVE  /\ k > MaxExponent =>
                 Scaled(x, k) = IF x = 0 THEN Units(0) ELSE Infinity
           /\ k < MinExponent =>
                 Scaled(x, k) = IF x = 0 THEN Units(0)
                                ELSE IF x = Infinity THEN NaN ELSE 0
<1>1. MinExponent \in Int /\ MaxExponent \in Nat /\ MinExponent < 0
  BY DoubleAssumption
<1>2. CASE x = 0
  BY <1>1, <1>2 DEF Scaled
<1>3. CASE x # 0 /\ k > MaxExponent
  <2>1. /\ k # 0 /\ ~(k < MinExponent)
        /\ k \notin 1 .. MaxExponent /\ k \notin MinExponent .. -1
    BY <1>1, <1>3
  <2> QED
    BY <1>1, <1>3, <2>1 DEF Scaled
<1>4. CASE x # 0 /\ k < MinExponent
  <2>1. /\ k # 0 /\ ~(k > MaxExponent)
        /\ k \notin 1 .. MaxExponent /\ k \notin MinExponent .. -1
    BY <1>1, <1>4
  <2> QED
    BY <1>1, <1>4, <2>1 DEF Scaled
<1> QED
  BY <1>1, <1>2, <1>3, <1>4

\* What the digits and the exponent make is the double that is written.
LEMMA ScaledMeans ==
    ASSUME NEW m, NumberMeans(m), try_double, pc = "store",
           NEW w, w = NumberOf(m),
           NEW v, v = Double(negative, Scaled(d, exponent))
    PROVE  DoubleMeans(v, w)
<1>1. m \in NumberRecords
  BY DEF NumberMeans
<1>2. /\ m.mantissa \in Nat /\ m.fraction \in Nat /\ m.exponent \in Nat
      /\ m.down \in BOOLEAN
  BY <1>1 DEF NumberRecords
<1>3. /\ w.negative = m.negative
      /\ w.mantissa = m.mantissa /\ w.fraction = m.fraction
      /\ w.power = (IF m.down THEN -m.exponent ELSE m.exponent) - m.fraction
  BY <1>1, NumberOfIs
<1>4. v.negative = negative /\ v.units = Scaled(d, exponent)
  BY DEF Double
<1>5. /\ m.negative = negative
      /\ d \in Int /\ Collected(m.mantissa, d)
      /\ exp = IF m.exponent > IntMax THEN IntMax ELSE m.exponent
      /\ exponent = (IF m.down THEN -exp ELSE exp) - m.fraction
  BY DEF NumberMeans
<1>6. /\ MinExponent \in Int /\ MaxExponent \in Nat /\ MinExponent < 0
      /\ -MinExponent < IntMax /\ MaxExponent < IntMax /\ IntMax \in Nat
  BY IntAssumption, DoubleAssumption
<1> SUFFICES ASSUME m.fraction < IntMax - MaxExponent
             PROVE  Scaled(d, exponent) = Scaled(d, w.power)
  BY <1>3, <1>4, <1>5 DEF DoubleMeans, FewFractionDigits
<1>8. /\ exponent \in Int /\ w.power \in Int
      /\ \/ exponent = w.power
         \/ exponent > MaxExponent /\ w.power > MaxExponent
         \/ exponent < MinExponent /\ w.power < MinExponent
  <2>1. CASE m.exponent > IntMax /\ m.down
    BY <1>2, <1>3, <1>5, <1>6, <2>1
  <2>2. CASE m.exponent > IntMax /\ ~m.down
    BY <1>2, <1>3, <1>5, <1>6, <2>2
  <2>3. CASE ~(m.exponent > IntMax)
    BY <1>2, <1>3, <1>5, <1>6, <2>3
  <2> QED
    BY <2>1, <2>2, <2>3
<1>9. CASE exponent = w.power
  BY <1>9
<1>10. CASE exponent > MaxExponent /\ w.power > MaxExponent
  BY <1>5, <1>6, <1>8, <1>10, ScaledBeyond
<1>11. CASE exponent < MinExponent /\ w.power < MinExponent
  BY <1>5, <1>6, <1>8, <1>11, ScaledBeyond
<1> QED
  BY <1>8, <1>9, <1>10, <1>11

\* The int that a number is stored as, out of an unsigned one.
LEMMA NegatedInt ==
    ASSUME DigitsInv
    PROVE  AsInt(IF negative THEN (0 - u) % UnsignedRange ELSE u) =
               IF negative THEN -u ELSE u
<1>1. IntMax \in Nat /\ IntMax > 9 /\ u \in Nat /\ negative \in BOOLEAN
      /\ u <= IntMax + (IF negative THEN 1 ELSE 0)
  BY IntAssumption DEF DigitsInv
<1>2. UnsignedRange = 2 * (IntMax + 1) /\ UnsignedRange \in Nat
  BY <1>1 DEF UnsignedRange
<1>3. CASE ~negative
  BY <1>1, <1>3 DEF AsInt
<1>4. CASE negative /\ u = 0
  <2>1. (0 - u) % UnsignedRange = 0
    BY <1>1, <1>2, <1>4, UnsignedKeeps
  <2> QED
    BY <1>1, <1>4, <2>1 DEF AsInt
<1>5. CASE negative /\ u > 0
  <2>1. UnsignedRange - u \in Nat /\ UnsignedRange - u < UnsignedRange
        /\ UnsignedRange - u > IntMax
    BY <1>1, <1>2, <1>5
  <2>2. (UnsignedRange - u) % UnsignedRange = UnsignedRange - u
    BY <1>2, <2>1, UnsignedKeeps
  <2>3. (0 - u) % UnsignedRange = (UnsignedRange - u) % UnsignedRange
    <3> DEFINE n == UnsignedRange
    <3>1. n \in Nat /\ n > 0
      BY <1>1, <1>2
    <3> HIDE DEF n
    <3>2. (0 - u) = n * (-1) + (n - u)
      BY <1>1, <3>1
    <3>3. n - u \in 0 .. n - 1
      BY <1>5, <1>1, <2>1, <3>1 DEF n
    <3> QED
      BY <1>1, <3>1, <3>2, <3>3, SMTT(60) DEF n
  <2>4. AsInt(UnsignedRange - u) = -u
    BY <1>1, <1>2, <2>1 DEF AsInt
  <2> QED
    BY <1>5, <2>2, <2>3, <2>4
<1> QED
  BY <1>1, <1>3, <1>4, <1>5

LEMMA StoreKeeps ==
    ASSUME PlaceInv, TextInv, DigitsInv, NEW s, Matches(s), Store
    PROVE  Keeps(s)
<1>1. /\ s.place \in {"zero", "digits", "fraction", "exponent"}
      /\ s.place \in NumberPlaces /\ pc = "store"
  BY DEF Matches, Agrees, Store, StringPlaces, NumberPlaces
<1>2. /\ input_end \in Nat /\ p \in 0 .. input_end - 1 /\ p \in 0 .. input_end
      /\ s.at = p
      /\ ByteAt(original, input_end, p) = input[p] /\ input[p] = original[p]
      /\ input[p] # NoByte
      /\ After(original, input_end, s) = AfterDigit(original, input_end, s)
      /\ NumberMeans(s.number) /\ s.number \in NumberRecords
  BY <1>1, InNumber
<1>3. original[p] \notin Following[s.place]
  BY <1>1 DEF Matches, NumberMatches
<1>4. PICK w : w = NumberOf(s.number)
  OBVIOUS
<1>5. PICK r : r = Past(s, p, w)
  OBVIOUS
<1>6. r = After(original, input_end, s)
  BY <1>1, <1>2, <1>3, <1>4, <1>5, EndsNumber
<1>7. /\ w.type = "number" /\ w.negative = s.number.negative
      /\ w.mantissa = s.number.mantissa /\ w.whole = s.number.whole
      /\ w.mantissa \in Nat /\ w.whole \in BOOLEAN /\ w.power \in Int
      /\ w.whole => w.power = 0
  <2>1. s.number.whole => s.number.fraction = 0 /\ s.number.exponent = 0
    BY <1>2 DEF NumberMeans
  <2>2. /\ s.number.exponent \in Nat /\ s.number.fraction \in Nat
        /\ s.number.mantissa \in Nat /\ s.number.whole \in BOOLEAN
    BY <1>2 DEF NumberRecords
  <2>3. w.power = (IF s.number.down THEN -s.number.exponent
                                    ELSE s.number.exponent) - s.number.fraction
    BY <1>2, <1>4, NumberOfIs
  <2>4. w.power \in Int /\ (w.whole => w.power = 0)
    BY <1>2, <1>4, <2>1, <2>2, <2>3, NumberOfIs
  <2> QED
    BY <1>2, <1>4, <2>2, <2>4, NumberOfIs
<1>8. FitsInt(w) <=> w.whole /\ w.mantissa <= Limit
  BY <1>2, <1>7 DEF FitsInt, NumberMeans, Limit
<1>9. ASSUME NEW v, Push(v, p), ValueMeans(input', p, v, w)
      PROVE  Keeps(s)
  <2>1. UNCHANGED input
    BY DEF Store
  <2>2. \A i \in 0 .. Bound - 1 : input'[i] = input[i]
    BY <2>1
  <2>3. ~s.breaks => SameBreaks'
    BY <1>9, <2>1 DEF Push, Matches, SameBreaks, original
  <2>4. p \in p .. input_end
    BY <1>2
  <2> HIDE DEF Bound
  <2> QED
    BY <1>5, <1>6, <1>9, <2>2, <2>3, <2>4, PushesRight
<1>10. CASE try_double
  <2>1. PICK v : v = Double(negative, Scaled(d, exponent))
    OBVIOUS
  <2>2. Push(v, p)
    BY <1>10, <2>1 DEF Store
  <2>3. v.type = "double" /\ v = Double(v.negative, v.units)
    BY <2>1 DEF Double
  <2>4. DoubleMeans(v, w)
    BY <1>1, <1>2, <1>4, <1>10, <2>1, ScaledMeans
  <2>5. ~FitsInt(w)
    <3>1. w.whole => w.mantissa > Limit
      BY <1>2, <1>7, <1>10 DEF NumberMeans
    <3>2. Limit \in Nat
      BY IntAssumption DEF Limit
    <3> QED
      BY <1>7, <1>8, <3>1, <3>2
  <2>6. ValueMeans(input', p, v, w)
    BY <1>7, <2>3, <2>4, <2>5 DEF ValueMeans
  <2> QED
    BY <1>9, <2>2, <2>6
<1>11. CASE ~try_double
  <2>1. PICK v : v = Integer(AsInt(IF negative THEN (0 - u) % UnsignedRange
                                              ELSE u))
    OBVIOUS
  <2>2. Push(v, p)
    BY <1>11, <2>1 DEF Store
  <2>3. v.type = "integer" /\ v.number = IF negative THEN -u ELSE u
    BY <2>1, NegatedInt DEF Integer
  <2>4. w.whole /\ u = w.mantissa /\ w.negative = negative /\ u <= Limit
    BY <1>2, <1>7, <1>11 DEF NumberMeans, DigitsInv, Limit
  <2>5. ValueMeans(input', p, v, w)
    BY <1>7, <1>8, <2>3, <2>4 DEF ValueMeans
  <2> QED
    BY <1>9, <2>2, <2>5
<1> QED
  BY <1>10, <1>11

-----------------------------------------------------------------------------
(***************************************************************************)
(* Strings.                                                                *)
(***************************************************************************)
LEMMA StartStringKeeps ==
    ASSUME PlaceInv, TextInv, NEW s, Matches(s), pc = "switch",
           input[p] = Quote, StartString
    PROVE  Keeps(s)
<1>1. /\ input_end \in Nat /\ p \in 0 .. input_end - 1
      /\ ByteAt(original, input_end, p) = input[p]
      /\ After(original, input_end, s) = BeginValue(original, input_end, s, p)
  BY AtValue
<1>2. p \in Nat /\ p + 1 \in Nat /\ p + 1 \in p .. input_end
  BY <1>1
<1>3. PICK r : r = To(s, p + 1, "string")
  OBVIOUS
<1>4. r = After(original, input_end, s)
  BY <1>1, <1>2, <1>3, BeginsString
<1>5. /\ r.at = p + 1 /\ r.place = "string" /\ r.says = s.says
      /\ r.breaks = s.breaks /\ r.bytes = <<>>
  BY <1>3 DEF To, Progress
<1>6. /\ p' = p + 1 /\ pc' = "scan" /\ start' = p + 1
      /\ UNCHANGED <<document, input_end, input, values>>
  BY DEF StartString, Goto
<1>7. StringMatches(r)'
  <2>1. \A i \in start' .. p' - 1 : FALSE
    BY <1>2, <1>6
  <2>2. r.bytes = Slice(original', start', p')
    BY <1>2, <1>5, <1>6, SliceOfNone
  <2> QED
    BY <1>5, <1>6, <2>1, <2>2 DEF StringMatches
<1>8. Agrees(r.place)' /\ TokenMatches(r)' /\ NumberMatches(r)'
  BY <1>5, <1>6 DEF Agrees, TokenMatches, NumberMatches, NumberPlaces, StringPlaces
<1>9. start' \in Nat /\ start' >= Bound
  BY <1>2, <1>6, BoundIs
<1>10. Matches(r)'
  BY <1>2, <1>5, <1>6, <1>7, <1>8, <1>9, GoesOnRight
<1> QED
  BY <1>4, <1>10 DEF Keeps

\* Where the parser is in a string.
LEMMA InString ==
    ASSUME PlaceInv, TextInv, NEW s, Matches(s), pc \in StringPlaces
    PROVE  /\ s.place = "string" /\ s.at = p
           /\ input_end \in Nat /\ p \in 0 .. input_end /\ p \in Nat
           /\ start \in Nat /\ start <= p /\ end \in Nat
           /\ After(original, input_end, s) =
                  AfterCharacter(original, input_end, s)
           /\ DOMAIN input = 0 .. input_end - 1
           /\ \A i \in start .. p - 1 :
                 original[i] \notin {LineFeed, CarriageReturn}
           /\ p < input_end =>
                 /\ ByteAt(original, input_end, p) = original[p]
                 /\ input[p] = original[p] /\ original[p] \in 0 .. 255
<1>1. s.place = "string"
  BY DEF Matches, Agrees, StringPlaces
<1>2. /\ s.at = p /\ p \in 0 .. input_end
      /\ \A i \in start .. p - 1 :
            original[i] \notin {LineFeed, CarriageReturn}
  BY DEF Matches, StringMatches
<1>3. /\ start \in Nat /\ start <= p /\ end \in Nat
      /\ DOMAIN input = 0 .. input_end - 1
  BY DEF PlaceInv, StringPlaces
<1>4. input_end \in Nat /\ original \in [0 .. input_end - 1 -> Bytes]
  BY TextIs
<1>5. ASSUME p < input_end
      PROVE  /\ ByteAt(original, input_end, p) = original[p]
             /\ input[p] = original[p] /\ original[p] \in 0 .. 255
  <2>1. p \in p .. input_end - 1 /\ p \in 0 .. input_end - 1
    BY <1>2, <1>4, <1>5
  <2> QED
    BY <1>4, <2>1, ByteIs DEF Bytes
<1>6. p \in Nat
  BY <1>2, <1>4
<1> QED
  BY <1>1, <1>2, <1>3, <1>4, <1>5, <1>6, AfterIs

\* A failure in a string, where no character begins.
LEMMA FailsInString ==
    ASSUME PlaceInv, TextInv, NEW s, Matches(s), pc \in StringPlaces,
           Character(original, input_end, p) = NoChar,
           ByteAt(original, input_end, p) # Quote,
           NEW at, at \in NoCharacterAt(original, input_end, p),
           at \in 0 .. input_end,
           NEW code, NEW arg, make_error(at, code, arg), pc' = "failed",
           UNCHANGED <<document, input_end, input, p, values>>
    PROVE  Keeps(s)
<1>1. /\ s.place = "string" /\ s.at = p
      /\ After(original, input_end, s) = AfterCharacter(original, input_end, s)
  BY InString
<1>2. After(original, input_end, s) = s
  BY <1>1 DEF AfterCharacter
<1>3. ~IsArray(original, input_end, s)
  BY <1>1 DEF IsArray
<1>4. at \in Offends(original, input_end, s)
  BY <1>1 DEF Offends, NumberPlaces
<1>5. s.place \in Places
  BY <1>1 DEF Places
<1>6. Matches(s)'
  BY <1>2, <1>3, <1>4, <1>5, FailsRight
<1> QED
  BY <1>6 DEF Keeps

\* There may always be said to be no character where none begins.
LEMMA OffendsAtByte ==
    ASSUME NEW t, NEW n, NEW i \in Nat
    PROVE  i \in NoCharacterAt(t, n, i)
<1>1. \A l \in 0 .. 0 - 1 : Fits(t, n, i, l)
  OBVIOUS
<1>2. 0 \in 0 .. 12 /\ i = i + 0
  OBVIOUS
<1> QED
  BY <1>1, <1>2 DEF NoCharacterAt

\* The end of the text and a control character are no character.
LEMMA NoCharacterHere ==
    ASSUME NEW t, NEW n \in Nat, NEW i \in Nat, NEW c, c = ByteAt(t, n, i),
           c = NoByte \/ c \in 0 .. 31 \/ c \in 248 .. 255
    PROVE  Character(t, n, i) = NoChar /\ c # Quote
<1>1. c \notin (32 .. 127) \ {Quote, Backslash} /\ c \notin 128 .. 247
      /\ c # Backslash /\ c # Quote
  BY DEF NoByte, Quote, Backslash
<1>2. ~Escaped(t, n, i)
  BY <1>1, EscapeBegins
<1> QED
  BY <1>1, <1>2, NoCharacter

LEMMA StringUnended ==
    ASSUME PlaceInv, TextInv, NEW s, Matches(s), pc \in StringPlaces,
           p >= input_end, NEW code, Fail(p, code)
    PROVE  Keeps(s)
<1>1. p \in Nat /\ input_end \in Nat /\ p \in 0 .. input_end
  BY InString
<1>2. ByteAt(original, input_end, p) = NoByte
  BY <1>1, NoByteAtEnd
<1>3. Character(original, input_end, p) = NoChar
      /\ ByteAt(original, input_end, p) # Quote
  BY <1>1, <1>2, NoCharacterHere
<1>4. p \in NoCharacterAt(original, input_end, p)
  BY <1>1, OffendsAtByte
<1>5. /\ make_error(p, code, 0) /\ pc' = "failed"
      /\ UNCHANGED <<document, input_end, input, p, values>>
  BY DEF Fail
<1> QED
  BY <1>1, <1>3, <1>4, <1>5, FailsInString

LEMMA StringIllegal ==
    ASSUME PlaceInv, TextInv, NEW s, Matches(s), pc \in StringPlaces,
           p < input_end, IllegalCodepoint
    PROVE  Keeps(s)
<1>1. /\ p \in Nat /\ input_end \in Nat /\ p \in 0 .. input_end
      /\ ByteAt(original, input_end, p) = original[p]
      /\ input[p] = original[p] /\ original[p] \in 0 .. 255
  BY InString
<1>2. /\ make_error(p, "ILLEGAL_CODEPOINT", input[p]) /\ pc' = "failed"
      /\ UNCHANGED <<document, input_end, input, p, values>>
      /\ input[p] < 32
  BY DEF IllegalCodepoint
<1>3. ByteAt(original, input_end, p) \in 0 .. 31
  BY <1>1, <1>2
<1>4. Character(original, input_end, p) = NoChar
      /\ ByteAt(original, input_end, p) # Quote
  BY <1>1, <1>3, NoCharacterHere
<1>5. p \in NoCharacterAt(original, input_end, p)
  BY <1>1, OffendsAtByte
<1> QED
  BY <1>1, <1>2, <1>4, <1>5, FailsInString

\* A plain byte stands for itself.
LEMMA ReadsPlain ==
    ASSUME PlaceInv, TextInv, NEW s, NEW r, r = After(original, input_end, s),
           s.place = "string", NEW i \in Nat, s.at = i, i < input_end,
           NEW from \in Nat, from <= i, s.bytes = Slice(original, from, i),
           is_plain_string_character(original[i])
    PROVE  /\ r.at = i + 1 /\ r.place = "string" /\ r.says = s.says
           /\ r.bytes = Slice(original, from, i + 1)
           /\ (~r.breaks => ~s.breaks)
           /\ (~s.breaks => ~r.breaks)
           /\ original[i] \notin {LineFeed, CarriageReturn}
<1>1. i \in 0 .. input_end - 1
  BY TextIs
<1>2. PICK c : c = original[i]
  OBVIOUS
<1>3. ByteAt(original, input_end, i) = c
  BY <1>1, <1>2 DEF ByteAt
<1>4. c \in (32 .. 127) \ {Quote, Backslash}
  BY <1>2 DEF is_plain_string_character
<1>5. c # Quote /\ c \notin {LineFeed, CarriageReturn}
  BY <1>4 DEF LineFeed, CarriageReturn
<1>6. PICK char : char = Character(original, input_end, i)
  OBVIOUS
<1>7. char = Char(1, <<c>>)
  <2>1. input_end \in Nat
    BY TextIs
  <2> QED
    BY <1>3, <1>4, <1>6, <2>1, PlainCharacter
<1>8. char.width = 1 /\ char.bytes = <<c>>
  BY <1>7 DEF Char
<1>9. char # NoChar
  <2>1. NoChar.width = 0
    BY DEF NoChar, Char
  <2> QED
    BY <1>8, <2>1
<1>10. r = Progress(s.at + char.width, "string", s.says, s.bytes \o char.bytes,
                    s.number,
                    s.breaks \/ \E k \in DOMAIN char.bytes :
                                    char.bytes[k] \in {LineFeed, CarriageReturn},
                    s.lax \/ (ByteAt(original, input_end, s.at) > 127
                                 /\ ~IsUtf8(char.bytes)))
  <2>1. r = AfterCharacter(original, input_end, s)
    BY AfterIs
  <2>2. /\ ByteAt(original, input_end, s.at) # Quote
        /\ Character(original, input_end, s.at) = char
    BY <1>3, <1>5, <1>6
  <2> QED
    BY <1>9, <2>1, <2>2 DEF AfterCharacter
<1>11. /\ r.at = s.at + char.width /\ r.place = "string" /\ r.says = s.says
       /\ r.bytes = s.bytes \o char.bytes
       /\ r.breaks = (s.breaks \/ \E k \in DOMAIN char.bytes :
                                    char.bytes[k] \in {LineFeed, CarriageReturn})
  BY <1>10 DEF Progress
<1>12. ~\E k \in DOMAIN char.bytes :
          char.bytes[k] \in {LineFeed, CarriageReturn}
  <2>1. DOMAIN <<c>> = {1} /\ <<c>>[1] = c
    OBVIOUS
  <2> QED
    BY <1>5, <1>8, <2>1
<1>13. (~r.breaks => ~s.breaks) /\ (~s.breaks => ~r.breaks)
  BY <1>11, <1>12
<1>14. r.bytes = Slice(original, from, i + 1)
  <2>1. <<c>> = Slice(original, i, i + 1)
    BY <1>2, SliceOfOne
  <2>2. i + 1 \in Nat /\ i <= i + 1
    OBVIOUS
  <2>3. Slice(original, from, i) \o Slice(original, i, i + 1) =
            Slice(original, from, i + 1)
    <3>1. from \in Nat /\ i \in Nat /\ i + 1 \in Nat /\ from <= i /\ i <= i + 1
      BY <2>2
    <3> QED
      BY ONLY <3>1, SlicesJoin
  <2>4. r.bytes = Slice(original, from, i) \o <<c>>
    BY <1>8, <1>11
  <2> QED
    BY <2>1, <2>3, <2>4
<1>15. r.at = i + 1
  BY <1>8, <1>11
<1> QED
  BY <1>2, <1>5, <1>11, <1>13, <1>14, <1>15

\* Plain bytes are read one by one.
LEMMA ReadsPlainBytes ==
    ASSUME PlaceInv, TextInv, NEW k \in Nat, NEW s, s = Reading_(k), Matches(s),
           pc = "scan",
           NEW q, q \in p .. input_end,
           \A i \in p .. q - 1 : is_plain_string_character(input[i])
    PROVE  \E l \in Nat : \E r :
              /\ r = Reading_(l)
              /\ r.at = q /\ r.place = "string" /\ r.says = s.says
              /\ r.bytes = Slice(original, start, q)
              /\ (~r.breaks => ~s.breaks)
              /\ \A i \in start .. q - 1 :
                    original[i] \notin {LineFeed, CarriageReturn}
<1> DEFINE PlainTo(l, e) ==
              \E r : /\ r = Reading_(l)
                     /\ r.at = e /\ r.place = "string" /\ r.says = s.says
                     /\ r.bytes = Slice(original, start, e)
                     /\ (~r.breaks => ~s.breaks)
                     /\ \A i \in start .. e - 1 :
                           original[i] \notin {LineFeed, CarriageReturn}
           Plain(j) == j <= q - p => PlainTo(k + j, p + j)
           T == {j \in Nat : Plain(j)}
<1>1. /\ s.place = "string" /\ s.at = p /\ input_end \in Nat /\ p \in Nat
      /\ start \in Nat /\ start <= p
      /\ \A i \in start .. p - 1 :
            original[i] \notin {LineFeed, CarriageReturn}
  BY InString DEF StringPlaces
<1>2. s.bytes = Slice(original, start, p)
  BY DEF Matches, StringMatches, StringPlaces
<1>3. 0 \in T
  <2>1. k + 0 = k /\ p + 0 = p
    BY <1>1
  <2>2. Plain(0)
    BY <1>1, <1>2, <2>1
  <2> HIDE DEF Plain
  <2> QED
    BY <2>2
<1>4. ASSUME NEW j \in Nat, j \in T PROVE j + 1 \in T
  <2> SUFFICES ASSUME j + 1 <= q - p PROVE Plain(j + 1)
    OBVIOUS
  <2>1. q \in Nat /\ j <= q - p /\ p + j \in p .. q - 1 /\ p + j \in Nat
        /\ p + j < input_end /\ start <= p + j
    BY <1>1
  <2>2. PICK r : /\ r = Reading_(k + j)
                 /\ r.at = p + j /\ r.place = "string" /\ r.says = s.says
                 /\ r.bytes = Slice(original, start, p + j)
                 /\ (~r.breaks => ~s.breaks)
                 /\ \A i \in start .. (p + j) - 1 :
                       original[i] \notin {LineFeed, CarriageReturn}
    <3>1. PlainTo(k + j, p + j)
      <4> HIDE DEF PlainTo
      <4> QED
        BY <1>4, <2>1
    <3> QED
      BY <3>1
  <2>3. PICK v : v = After(original, input_end, r)
    OBVIOUS
  <2>4. v = Reading_(k + (j + 1))
    <3>1. k + j \in Nat /\ k + (j + 1) = (k + j) + 1
      OBVIOUS
    <3> QED
      BY <2>2, <2>3, <3>1, ReadingsStep DEF Reading_
  <2>5. is_plain_string_character(original[p + j])
    <3>1. p + j \in p .. input_end - 1
      BY <1>1, <2>1
    <3>2. input[p + j] = original[p + j]
      BY <3>1, ByteIs
    <3> QED
      BY <2>1, <3>2
  <2>6. /\ v.at = p + j + 1 /\ v.place = "string" /\ v.says = r.says
        /\ v.bytes = Slice(original, start, p + j + 1)
        /\ (~v.breaks => ~r.breaks)
        /\ original[p + j] \notin {LineFeed, CarriageReturn}
    BY <1>1, <2>1, <2>2, <2>3, <2>5, ReadsPlain
  <2>7. p + (j + 1) = p + j + 1
    BY <1>1
  <2>8. \A i \in start .. (p + (j + 1)) - 1 :
            original[i] \notin {LineFeed, CarriageReturn}
    <3>1. \A i \in start .. (p + (j + 1)) - 1 :
             i = p + j \/ i \in start .. (p + j) - 1
      BY <1>1
    <3> QED
      BY <2>2, <2>6, <3>1
  <2>9. /\ v.at = p + (j + 1) /\ v.says = s.says
        /\ v.bytes = Slice(original, start, p + (j + 1))
        /\ (~v.breaks => ~s.breaks)
    BY <2>2, <2>6, <2>7
  <2>10. PlainTo(k + (j + 1), p + (j + 1))
    BY <2>4, <2>6, <2>8, <2>9
  <2> QED
    BY <2>10
<1> HIDE DEF T
<1>5. Nat \subseteq T
  BY <1>3, <1>4, SetInduction
<1>6. PICK j : j = q - p
  OBVIOUS
<1>7. j \in Nat /\ j <= q - p /\ p + j = q /\ k + j \in Nat
  BY <1>1, <1>6
<1>8. Plain(j)
  BY <1>5, <1>7 DEF T
<1>9. PlainTo(k + j, q)
  <2> HIDE DEF PlainTo
  <2> QED
    BY <1>7, <1>8
<1> HIDE DEF Plain
<1> QED
  BY <1>7, <1>9

\* The invariant holds, whatever has been read.
LEMMA MeaningKept ==
    ASSUME NEW l \in Nat, NEW r, r = Reading_(l), Matches(r)',
           UNCHANGED <<document, input_end>>
    PROVE  MeaningInv'
<1>1. r = Reading_(l)'
  BY DEF Reading_, original
<1> QED
  BY <1>1 DEF MeaningInv

LEMMA KeepsMeaning ==
    ASSUME NEW k \in Nat, NEW s, s = Reading_(k), Keeps(s),
           UNCHANGED <<document, input_end>>
    PROVE  MeaningInv'
<1>1. PICK r : /\ r = s \/ r = After(original, input_end, s)
               /\ Matches(r)'
  BY DEF Keeps
<1>2. CASE r = s
  BY <1>1, <1>2, MeaningKept
<1>3. CASE r = After(original, input_end, s)
  <2>1. r = Reading_(k + 1) /\ k + 1 \in Nat
    BY <1>3, ReadingsStep DEF Reading_
  <2> QED
    BY <1>1, <2>1, MeaningKept
<1> QED
  BY <1>1, <1>2, <1>3

LEMMA ScanKeeps ==
    ASSUME PlaceInv, TextInv, NEW k \in Nat, NEW s, s = Reading_(k), Matches(s),
           Scan
    PROVE  MeaningInv'
<1>1. /\ s.place = "string" /\ s.at = p /\ input_end \in Nat /\ p \in Nat
      /\ p \in 0 .. input_end /\ pc = "scan" /\ pc \in StringPlaces
      /\ start \in Nat /\ start <= p
  BY InString DEF StringPlaces, Scan
<1>2. \A i \in start .. p - 1 : Unread(i)
  BY <1>1 DEF Matches, StringMatches
<1>3. CASE p >= input_end /\ Fail(p, "UNEXPECTED_END")
  <2>1. Keeps(s) /\ UNCHANGED <<document, input_end>>
    BY <1>1, <1>3, StringUnended DEF Fail
  <2> QED
    BY <2>1, KeepsMeaning
<1>4. ASSUME NEW q, q \in p .. input_end, NEW place \in {"scan", "found"},
             Goto(q, place), UNCHANGED <<input, start>>,
             \A i \in p .. q - 1 : is_plain_string_character(input[i]),
             place = "found" =>
                 q < input_end /\ ~is_plain_string_character(input[q])
      PROVE  MeaningInv'
  <2>1. PICK l \in Nat : \E r :
              /\ r = Reading_(l)
              /\ r.at = q /\ r.place = "string" /\ r.says = s.says
              /\ r.bytes = Slice(original, start, q)
              /\ (~r.breaks => ~s.breaks)
              /\ \A i \in start .. q - 1 :
                    original[i] \notin {LineFeed, CarriageReturn}
    BY <1>1, <1>4, ReadsPlainBytes
  <2>2. PICK r :
              /\ r = Reading_(l)
              /\ r.at = q /\ r.place = "string" /\ r.says = s.says
              /\ r.bytes = Slice(original, start, q)
              /\ (~r.breaks => ~s.breaks)
              /\ \A i \in start .. q - 1 :
                    original[i] \notin {LineFeed, CarriageReturn}
    BY <2>1
  <2>3. /\ p' = q /\ pc' = place /\ start' = start /\ original' = original
        /\ UNCHANGED <<document, input_end, input, values>>
    BY <1>4 DEF Goto, original
  <2>4. Agrees(r.place)' /\ TokenMatches(r)' /\ NumberMatches(r)'
    BY <1>4, <2>2, <2>3
       DEF Agrees, TokenMatches, NumberMatches, NumberPlaces, StringPlaces
  <2>5. ASSUME NEW i \in start .. q - 1 PROVE input'[i] = original'[i]
    <3>1. CASE i \in start .. p - 1
      BY <1>2, <2>3, <3>1 DEF Unread
    <3>2. CASE i \in p .. input_end - 1
      BY <2>3, <3>2, ByteIs
    <3>3. i \in start .. p - 1 \/ i \in p .. input_end - 1
      BY <1>1, <1>4
    <3> QED
      BY <3>1, <3>2, <3>3
  <2>6. place = "found" =>
            p' < input_end' /\ ~is_plain_string_character(original'[p'])
    <3>1. place = "found" => q \in p .. input_end - 1
      BY <1>1, <1>4
    <3> QED
      BY <1>4, <2>3, <3>1, ByteIs
  <2>7. StringMatches(r)'
    BY <1>4, <2>2, <2>3, <2>5, <2>6 DEF StringMatches, Unread
  <2>8. start' \in Nat /\ start' >= Bound
    BY <1>1, <2>3 DEF Bound
  <2>9. p' \in p .. input_end /\ pc' # "failed"
    BY <1>4, <2>3
  <2>10. Matches(r)'
    BY <2>2, <2>3, <2>4, <2>7, <2>8, <2>9, GoesOnRight
  <2> QED
    BY <2>2, <2>3, <2>10, MeaningKept
<1>5. CASE p < input_end /\ UNCHANGED input
  <2>1. ScanWidth \in Nat /\ ScanWidth > 0 /\ p + ScanWidth \in p .. input_end
    BY <1>1, <1>5 DEF ScanWidth, has_remaining_characters
  <2>2. PICK width : width = ScanWidth
    OBVIOUS
  <2>3. p + width \in p .. input_end /\ width \in Nat
    BY <2>1, <2>2
  <2> DEFINE special == {i \in p .. p + width - 1 :
                             ~is_plain_string_character(input[i])}
  <2>4. UNCHANGED <<input, start>>
    BY <1>5 DEF Scan, stringVars
  <2>5. CASE special = {} /\ Goto(p + width, "scan")
    <3>1. PICK to : to = p + width
      OBVIOUS
    <3>2. PICK place \in {"scan", "found"} : place = "scan"
      OBVIOUS
    <3>3. to \in p .. input_end
      BY <2>3, <3>1
    <3>4. \A i \in p .. to - 1 : is_plain_string_character(input[i])
      BY <1>1, <2>3, <2>5, <3>1
    <3>5. Goto(to, place) /\ place # "found"
      <4> HIDE DEF special
      <4> QED
        BY <2>5, <3>1, <3>2
    <3> QED
      BY <1>4, <2>4, <3>3, <3>4, <3>5
  <2>6. ASSUME NEW q \in special, \A i \in special : q <= i, Goto(q, "found")
        PROVE  MeaningInv'
    <3>1. q \in p .. p + width - 1 /\ ~is_plain_string_character(input[q])
      BY <2>6
    <3>2. q \in p .. input_end /\ q < input_end
      BY <1>1, <2>3, <3>1
    <3>3. ASSUME NEW i \in p .. q - 1 PROVE is_plain_string_character(input[i])
      <4>1. i \in p .. p + width - 1 /\ ~(q <= i)
        BY <1>1, <2>3, <3>1
      <4> QED
        BY <2>6, <4>1
    <3> QED
      BY <1>4, <2>4, <2>6, <3>1, <3>2, <3>3
  <2>7. ~(p >= input_end)
    BY <1>1, <1>5
  <2>8. \/ special = {} /\ Goto(p + width, "scan")
        \/ \E q \in special : (\A i \in special : q <= i) /\ Goto(q, "found")
    BY <2>2, <2>7 DEF Scan
  <2> QED
    BY <2>5, <2>6, <2>8
<1> QED
  BY <1>3, <1>5 DEF Scan

\* The closing quote, and the NUL in its place or before it.
LEMMA StringCloses ==
    ASSUME PlaceInv, TextInv, NEW s, Matches(s), pc \in StringPlaces,
           p < input_end, input[p] = Quote,
           NEW to \in Nat, start <= to, to <= p, Close(to), start' = start,
           s.bytes = Slice(input, start, to)
    PROVE  Keeps(s)
<1>1. /\ s.place = "string" /\ s.at = p
      /\ input_end \in Nat /\ p \in 0 .. input_end /\ p \in Nat
      /\ start \in Nat /\ start <= p
      /\ After(original, input_end, s) = AfterCharacter(original, input_end, s)
      /\ DOMAIN input = 0 .. input_end - 1
      /\ \A i \in start .. p - 1 :
            original[i] \notin {LineFeed, CarriageReturn}
      /\ ByteAt(original, input_end, p) = original[p]
      /\ input[p] = original[p]
  BY InString
<1>2. PICK w : w = [type |-> "string", bytes |-> s.bytes]
  OBVIOUS
<1>3. PICK r : r = Past(s, p + 1, w)
  OBVIOUS
<1>4. r = After(original, input_end, s)
  BY <1>1, <1>2, <1>3 DEF AfterCharacter
<1>5. PICK q : q = p + 1
  OBVIOUS
<1>6. q \in p .. input_end /\ q \in Nat /\ to <= q
  BY <1>1, <1>5
<1>7. /\ Push(String(start, to), q)
      /\ \A i \in 0 .. input_end - 1 :
            input'[i] = IF i = to THEN 0 ELSE input[i]
  BY <1>1, <1>5 DEF Close
<1>8. \A i \in 0 .. start - 1 : input'[i] = input[i]
  BY <1>1, <1>7
<1>9. Bound = start
  BY DEF Bound
<1>10. ValueMeans(input', q, String(start, to), w)
  <2>1. PICK v : v = String(start, to)
    OBVIOUS
  <2>2. v.type = "string" /\ v.start = start /\ v.end = to
    BY <2>1 DEF String
  <2>3. \A i \in start .. to - 1 : input[i] = input'[i]
    BY <1>1, <1>7
  <2>4. Slice(input, start, to) = Slice(input', start, to)
    <3>1. start \in Nat /\ to \in Nat /\ start <= to
      BY <1>1
    <3> QED
      BY ONLY <2>3, <3>1, SameSlices
  <2>5. w = [type |-> "string", bytes |-> Slice(input', v.start, v.end)]
    BY <1>2, <2>2, <2>4
  <2> QED
    BY <1>1, <1>6, <2>1, <2>2, <2>5 DEF ValueMeans
<1>11. ~s.breaks => SameBreaks'
  <2>1. original[to] \notin {LineFeed, CarriageReturn}
    <3>1. CASE to = p
      BY <1>1, <3>1 DEF Quote, LineFeed, CarriageReturn
    <3>2. CASE to \in start .. p - 1
      BY <1>1, <3>2
    <3> QED
      BY <1>1, <3>1, <3>2
  <2>2. 0 \notin {LineFeed, CarriageReturn}
    BY DEF LineFeed, CarriageReturn
  <2>3. original' = original /\ input_end' = input_end
    BY <1>7 DEF Push, original
  <2>4. ~s.breaks => SameBreaks
    BY DEF Matches
  <2>5. ASSUME ~s.breaks, NEW i \in 0 .. input_end - 1
        PROVE  /\ (input'[i] = LineFeed) = (original[i] = LineFeed)
               /\ (input'[i] = CarriageReturn) = (original[i] = CarriageReturn)
    <3>1. CASE i = to
      BY <1>7, <2>1, <2>2, <3>1
    <3>2. CASE i # to
      BY <1>7, <2>4, <2>5, <3>2 DEF SameBreaks
    <3> QED
      BY <3>1, <3>2
  <2> QED
    BY <2>3, <2>5 DEF SameBreaks
<1> HIDE DEF Push, Past
<1>12. \A i \in 0 .. Bound - 1 : input'[i] = input[i]
  BY <1>8, <1>9
<1> QED
  BY <1>3, <1>4, <1>5, <1>6, <1>7, <1>10, <1>11, <1>12, PushesRight

LEMMA FoundKeeps ==
    ASSUME PlaceInv, TextInv, NEW s, Matches(s), Found
    PROVE  Keeps(s)
<1>1. pc = "found" /\ start' = start /\ pc \in StringPlaces
  BY DEF Found, StringPlaces
<1>2. /\ s.place = "string" /\ s.at = p
      /\ input_end \in Nat /\ p \in 0 .. input_end /\ p \in Nat
      /\ start \in Nat /\ start <= p
  BY <1>1, InString
<1>3. p < input_end /\ s.bytes = Slice(original, start, p)
      /\ \A i \in start .. p - 1 : input[i] = original[i]
  BY <1>1 DEF Matches, StringMatches, Unread
<1>4. s.bytes = Slice(input, start, p)
  BY <1>2, <1>3, SameSlices
<1>5. CASE input[p] = Quote /\ Close(p)
  <2>1. p <= p
    BY <1>2
  <2> QED
    BY <1>1, <1>2, <1>3, <1>4, <1>5, <2>1, StringCloses
<1>6. CASE IllegalCodepoint
  BY <1>1, <1>3, <1>6, StringIllegal
<1>7. CASE end' = p /\ Goto(p, "slow") /\ UNCHANGED input
  <2>1. /\ p' = p /\ pc' = "slow" /\ start' = start /\ end' = p
        /\ UNCHANGED <<document, input_end, input, values>>
    BY <1>1, <1>7 DEF Goto
  <2>2. Agrees(s.place)' /\ TokenMatches(s)' /\ NumberMatches(s)'
    BY <1>2, <2>1
       DEF Agrees, TokenMatches, NumberMatches, NumberPlaces, StringPlaces
  <2>3. \A i \in start .. p - 1 : original[i] \notin {LineFeed, CarriageReturn}
    BY <1>1, InString
  <2>4. StringMatches(s)'
    BY <1>2, <1>4, <2>1, <2>3 DEF StringMatches, original
  <2>5. start' >= Bound /\ start' \in Nat /\ p' \in p .. input_end
    BY <1>1, <1>2, <2>1 DEF Bound
  <2>6. Matches(s)'
    BY <2>1, <2>2, <2>4, <2>5, GoesOnRight
  <2> QED
    BY <2>6 DEF Keeps
<1> QED
  BY <1>5, <1>6, <1>7 DEF Found

\* A character is written, and reading goes on after it.
LEMMA WritesRight ==
    ASSUME PlaceInv, TextInv, NEW s, Matches(s), pc = "slow", p < input_end,
           original[p] # Quote,
           NEW char, char = Character(original, input_end, p), char # NoChar,
           Len(char.bytes) <= char.width,
           \A i \in p .. p + char.width - 1 :
               original[i] \notin {LineFeed, CarriageReturn},
           Write(char.bytes, p + char.width), start' = start
    PROVE  Keeps(s)
<1>1. /\ s.place = "string" /\ s.at = p
      /\ input_end \in Nat /\ p \in 0 .. input_end /\ p \in Nat
      /\ start \in Nat /\ start <= p /\ end \in Nat
      /\ After(original, input_end, s) = AfterCharacter(original, input_end, s)
      /\ DOMAIN input = 0 .. input_end - 1
      /\ \A i \in start .. p - 1 :
            original[i] \notin {LineFeed, CarriageReturn}
      /\ ByteAt(original, input_end, p) = original[p]
  BY InString DEF StringPlaces
<1>2. start <= end /\ end <= p /\ s.bytes = Slice(input, start, end)
  BY DEF PlaceInv, Matches, StringMatches, StringPlaces
<1>3. /\ char.width \in Nat /\ char.width > 0 /\ p + char.width <= input_end
      /\ IsList(char.bytes)
  BY <1>1, CharacterShape
<1>4. PICK bytes : bytes = char.bytes
  OBVIOUS
<1>5. PICK n : n = Len(bytes)
  OBVIOUS
<1>6. PICK q : q = p + char.width
  OBVIOUS
<1>7. /\ IsList(bytes) /\ n \in Nat /\ q \in Nat /\ q \in p .. input_end
      /\ end + n <= q /\ end + n \in Nat
      /\ \A i \in p .. q - 1 : original[i] \notin {LineFeed, CarriageReturn}
  <2>1. IsList(bytes) /\ n \in Nat /\ n <= char.width
    BY <1>3, <1>4, <1>5 DEF IsList
  <2> QED
    BY <1>1, <1>2, <1>3, <1>6, <2>1
<1>8. PICK r : r = Progress(q, "string", s.says, s.bytes \o bytes, s.number,
                    s.breaks \/ \E k \in DOMAIN bytes :
                                    bytes[k] \in {LineFeed, CarriageReturn},
                    s.lax \/ (ByteAt(original, input_end, p) > 127
                                 /\ ~IsUtf8(bytes)))
  OBVIOUS
<1>9. r = After(original, input_end, s)
  BY <1>1, <1>4, <1>6, <1>8 DEF AfterCharacter
<1>10. /\ r.at = q /\ r.place = "string" /\ r.says = s.says
       /\ r.bytes = s.bytes \o bytes
       /\ ~r.breaks => ~s.breaks
       /\ ~r.breaks => \A k \in DOMAIN bytes :
                          bytes[k] \notin {LineFeed, CarriageReturn}
  BY <1>8 DEF Progress
<1>11. DOMAIN bytes = 1 .. n
  BY <1>5, <1>7 DEF IsList
<1>12. /\ p' = q /\ pc' = "slow" /\ start' = start /\ end' = end + n
       /\ UNCHANGED <<document, input_end, values>>
       /\ \A i \in 0 .. input_end - 1 :
             input'[i] = IF i \in end .. end + n - 1
                         THEN bytes[i - end + 1] ELSE input[i]
  <2>1. Write(bytes, q)
    BY <1>4, <1>6
  <2> QED
    BY <1>1, <1>5, <2>1 DEF Write, Goto
<1>13. original' = original /\ input_end' = input_end
  BY <1>12 DEF original
<1>14. \A j \in 1 .. n : input'[end + j - 1] = bytes[j]
  <2> TAKE j \in 1 .. n
  <2>1. PICK i : i = end + j - 1
    OBVIOUS
  <2>2. i \in 0 .. input_end - 1 /\ i \in end .. end + n - 1 /\ i - end + 1 = j
    BY <1>1, <1>7, <2>1
  <2> QED
    BY <1>12, <2>1, <2>2
<1>15. \A i \in 0 .. end - 1 : input'[i] = input[i]
  <2> TAKE i \in 0 .. end - 1
  <2>1. i \in 0 .. input_end - 1 /\ i \notin end .. end + n - 1
    BY <1>1, <1>2
  <2> QED
    BY <1>12, <2>1
<1>16. r.bytes = Slice(input', start, end + n)
  <2>1. PICK new : new = input'
    OBVIOUS
  <2>2. PICK a : a = Slice(input, start, end)
    OBVIOUS
  <2>3. PICK b : b = Slice(new, start, end + n)
    OBVIOUS
  <2>4. /\ IsList(a) /\ Len(a) = end - start
        /\ \A k \in 1 .. end - start : a[k] = input[start + k - 1]
    <3>1. start \in Nat /\ end \in Nat /\ start <= end
      BY <1>1, <1>2
    <3> QED
      BY ONLY <2>2, <3>1, SliceIsList
  <2>5. start <= end + n
    BY <1>1, <1>2, <1>7
  <2>6. /\ IsList(b) /\ Len(b) = (end + n) - start
        /\ \A k \in 1 .. (end + n) - start : b[k] = new[start + k - 1]
    <3>1. start \in Nat /\ end + n \in Nat
      BY <1>1, <1>7
    <3>2. PICK e : e = end + n
      OBVIOUS
    <3>3. /\ IsList(b) /\ Len(b) = e - start
          /\ \A k \in 1 .. e - start : b[k] = new[start + k - 1]
      <4>1. e \in Nat /\ start \in Nat /\ start <= e /\ b = Slice(new, start, e)
        BY ONLY <2>3, <2>5, <3>1, <3>2
      <4> QED
        BY ONLY <4>1, SliceIsList
    <3> QED
      BY ONLY <3>2, <3>3
  <2>7. /\ IsList(a \o bytes) /\ Len(a \o bytes) = Len(a) + Len(bytes)
        /\ \A i \in 1 .. Len(a) : (a \o bytes)[i] = a[i]
        /\ \A i \in 1 .. Len(bytes) : (a \o bytes)[Len(a) + i] = bytes[i]
    <3>1. IsList(a) /\ IsList(bytes)
      BY <1>7, <2>4
    <3> QED
      BY ONLY <3>1, ConcatLists
  <2>8. PICK c : c = a \o bytes
    OBVIOUS
  <2>9. /\ IsList(c) /\ Len(c) = Len(b)
        /\ \A i \in 1 .. end - start : c[i] = a[i]
        /\ \A i \in 1 .. n : c[(end - start) + i] = bytes[i]
    <3>1. Len(a) = end - start /\ Len(bytes) = n /\ Len(b) = (end + n) - start
      BY <1>5, <2>4, <2>6
    <3>2. /\ IsList(c) /\ Len(c) = (end - start) + n
          /\ \A i \in 1 .. end - start : c[i] = a[i]
          /\ \A i \in 1 .. n : c[(end - start) + i] = bytes[i]
      BY ONLY <2>7, <2>8, <3>1
    <3> QED
      BY <1>1, <1>2, <1>7, <3>1, <3>2
  <2>10. ASSUME NEW k \in 1 .. Len(c) PROVE c[k] = b[k]
    <3>1. k \in 1 .. (end + n) - start /\ b[k] = new[start + k - 1]
      BY <2>6, <2>9, <2>10
    <3>2. CASE k \in 1 .. end - start
      <4>1. PICK i : i = start + k - 1
        OBVIOUS
      <4>2. i \in 0 .. end - 1
        BY <1>1, <1>2, <3>2, <4>1
      <4>3. new[i] = input[i]
        BY <1>15, <2>1, <4>2
      <4> QED
        BY <2>4, <2>9, <3>1, <3>2, <4>1, <4>3
    <3>3. CASE k \notin 1 .. end - start
      <4>1. PICK j : j = k - (end - start)
        OBVIOUS
      <4>2. j \in 1 .. n /\ k = (end - start) + j /\ start + k - 1 = end + j - 1
        BY <1>1, <1>2, <1>7, <3>1, <3>3, <4>1
      <4>3. c[(end - start) + j] = bytes[j] /\ new[end + j - 1] = bytes[j]
        BY <1>14, <2>1, <2>9, <4>2
      <4> QED
        BY <3>1, <4>2, <4>3
    <3> QED
      BY <3>2, <3>3
  <2>11. c = b
    BY <2>6, <2>9, <2>10, SameLists
  <2> QED
    BY <1>2, <1>10, <2>1, <2>2, <2>3, <2>8, <2>11
<1>17. ~r.breaks => SameBreaks'
  <2>1. ~s.breaks => SameBreaks
    BY DEF Matches
  <2>2. ASSUME ~r.breaks, NEW i \in 0 .. input_end - 1
        PROVE  /\ (input'[i] = LineFeed) = (original[i] = LineFeed)
               /\ (input'[i] = CarriageReturn) = (original[i] = CarriageReturn)
    <3>1. CASE i \in end .. end + n - 1
      <4>1. PICK j : j = i - end + 1
        OBVIOUS
      <4>2. j \in 1 .. n /\ i \in start .. q - 1
        BY <1>1, <1>2, <1>7, <3>1, <4>1
      <4>3. input'[i] = bytes[j]
        BY <1>12, <3>1, <4>1
      <4>4. original[i] \notin {LineFeed, CarriageReturn}
        <5>1. i \in start .. p - 1 \/ i \in p .. q - 1
          BY <1>1, <1>7, <4>2
        <5> QED
          BY <1>1, <1>7, <5>1
      <4>5. bytes[j] \notin {LineFeed, CarriageReturn}
        BY <1>10, <1>11, <2>2, <4>2
      <4> QED
        BY <4>3, <4>4, <4>5
    <3>2. CASE i \notin end .. end + n - 1
      <4>1. input'[i] = input[i]
        BY <1>12, <3>2
      <4> QED
        BY <1>10, <2>1, <2>2, <4>1 DEF SameBreaks
    <3> QED
      BY <3>1, <3>2
  <2> QED
    BY <1>13, <2>2 DEF SameBreaks
<1>18. ValuesMean(input', Bound', values', r.says)
  <2>1. Bound = start /\ Bound' = start
    BY <1>12 DEF Bound, StringPlaces
  <2>2. ValuesMean(input, start, values, s.says)
    BY <2>1 DEF Matches
  <2>3. \A i \in 0 .. start - 1 : input'[i] = input[i]
    BY <1>1, <1>2, <1>15
  <2>4. start <= start
    BY <1>1
  <2>5. ValuesMean(input', start, values, s.says)
    BY ONLY <1>1, <2>2, <2>3, <2>4, ValuesKept
  <2> QED
    BY <1>10, <1>12, <2>1, <2>5
<1>19. /\ Agrees(r.place)' /\ TokenMatches(r)' /\ NumberMatches(r)'
       /\ FailureMatches(r)'
  BY <1>10, <1>12
     DEF Agrees, TokenMatches, NumberMatches, NumberPlaces, StringPlaces,
         FailureMatches
<1>20. StringMatches(r)'
  <2>1. \A i \in start .. q - 1 : original[i] \notin {LineFeed, CarriageReturn}
    <3>1. \A i \in start .. q - 1 : i \in start .. p - 1 \/ i \in p .. q - 1
      BY <1>1, <1>7
    <3> QED
      BY <1>1, <1>7, <3>1
  <2> QED
    BY <1>10, <1>12, <1>13, <1>16, <2>1 DEF StringMatches
<1>21. p' \in 0 .. input_end'
  BY <1>1, <1>7, <1>12
<1>22. Matches(r)'
  BY <1>17, <1>18, <1>19, <1>20, <1>21 DEF Matches
<1> QED
  BY <1>9, <1>22 DEF Keeps

-----------------------------------------------------------------------------
(***************************************************************************)
(* Escapes.                                                                *)
(***************************************************************************)
LEMMA MinIs ==
    ASSUME NEW T, T \subseteq Nat, T # {}
    PROVE  Min(T) \in T /\ \A i \in T : Min(T) <= i
<1>1. \E m \in T : \A n \in T : m <= n
  <2>1. T \in SUBSET Nat
    OBVIOUS
  <2> QED
    BY <2>1, LeastElement
<1> QED
  BY <1>1 DEF Min

\* The digits of the code are those of a text.
LEMMA HexSame ==
    /\ DOMAIN HexDigit = DOMAIN HexValue
    /\ \A c \in DOMAIN HexValue :
          /\ HexDigit[c] = HexValue[c]
          /\ c \notin {LineFeed, CarriageReturn} /\ c \in Nat
<1>1. DOMAIN HexDigit = DOMAIN HexValue
  BY DEF HexDigit, HexValue, Digits
<1>2. ASSUME NEW c \in DOMAIN HexValue
      PROVE  /\ HexDigit[c] = HexValue[c]
             /\ c \notin {LineFeed, CarriageReturn} /\ c \in Nat
  <2>1. c \in (48 .. 57) \cup (65 .. 70) \cup (97 .. 102)
    BY DEF HexValue
  <2>2. CASE c \in 48 .. 57
    BY <2>2 DEF HexDigit, HexValue, Digits, DigitOf, LineFeed, CarriageReturn
  <2>3. CASE c \in 65 .. 70
    BY <2>3 DEF HexDigit, HexValue, Digits, DigitOf, LineFeed, CarriageReturn
  <2>4. CASE c \in 97 .. 102
    BY <2>4 DEF HexDigit, HexValue, Digits, DigitOf, LineFeed, CarriageReturn
  <2> QED
    BY <2>1, <2>2, <2>3, <2>4
<1> QED
  BY <1>1, <1>2

\* What fits where in an escape, and in the second of two.
LEMMA FitsIs ==
    ASSUME NEW t, NEW n, NEW i \in Nat, NEW j \in 0 .. 11
    PROVE  /\ j \in {0, 6} =>
                 (Fits(t, n, i, j) <=> ByteAt(t, n, i + j) = Backslash)
           /\ j \in {1, 7} =>
                 (Fits(t, n, i, j) <=> ByteAt(t, n, i + j) = LetterU)
           /\ j \in HexPlaces =>
                 (Fits(t, n, i, j) <=> ByteAt(t, n, i + j) \in DOMAIN HexValue)
BY DEF Fits, HexPlaces

LEMMA FitsLater ==
    ASSUME NEW t, NEW n, NEW i \in Nat, NEW j \in 0 .. 5
    PROVE  Fits(t, n, i, 6 + j) <=> Fits(t, n, i + 6, j)
<1>1. i + (6 + j) = (i + 6) + j
  OBVIOUS
<1>2. PICK c : c = ByteAt(t, n, i + (6 + j))
  OBVIOUS
<1>3. c = ByteAt(t, n, (i + 6) + j)
  BY <1>1, <1>2
<1>4. /\ (6 + j \in {0, 6}) = (j \in {0, 6})
      /\ (6 + j \in {1, 7}) = (j \in {1, 7})
      /\ (6 + j \in HexPlaces) = (j \in HexPlaces)
  BY DEF HexPlaces
<1> QED
  BY <1>2, <1>3, <1>4 DEF Fits

\* An escape is one that fits to its last digit.
LEMMA EscapedIs ==
    ASSUME NEW t, NEW n, NEW i \in Nat, ByteAt(t, n, i) = Backslash,
           ByteAt(t, n, i + 1) = LetterU
    PROVE  /\ Fits(t, n, i, 0) /\ Fits(t, n, i, 1)
           /\ Escaped(t, n, i) <=>
                 \A j \in 2 .. 5 : ByteAt(t, n, i + j) \in DOMAIN HexValue
<1>1. i + 0 = i
  OBVIOUS
<1>2. Fits(t, n, i, 0) /\ Fits(t, n, i, 1)
  BY <1>1, FitsIs
<1>3. ASSUME NEW j \in 2 .. 5
      PROVE  Fits(t, n, i, j) <=> ByteAt(t, n, i + j) \in DOMAIN HexValue
  BY FitsIs DEF HexPlaces
<1>4. \A j \in 0 .. 5 : j = 0 \/ j = 1 \/ j \in 2 .. 5
  OBVIOUS
<1>5. \A j \in 2 .. 5 : j \in 0 .. 5
  OBVIOUS
<1>6. Escaped(t, n, i) <=> \A j \in 2 .. 5 : Fits(t, n, i, j)
  BY <1>2, <1>4, <1>5 DEF Escaped
<1> QED
  BY <1>2, <1>3, <1>6

\* No character begins with a backslash and what is no escape.
LEMMA NoEscape ==
    ASSUME NEW t, NEW n \in Nat, NEW i \in Nat, ByteAt(t, n, i) = Backslash,
           NEW e, e = ByteAt(t, n, i + 1),
           e \notin DOMAIN Replacement,
           Escaped(t, n, i) =>
               /\ CodeUnit(t, i) \in Leads
               /\ ~(Escaped(t, n, i + 6) /\ CodeUnit(t, i + 6) \in Trails)
    PROVE  /\ Character(t, n, i) = NoChar /\ ByteAt(t, n, i) # Quote
           /\ i + 1 \in NoCharacterAt(t, n, i)
<1>1. /\ Backslash \notin (32 .. 127) \ {Quote, Backslash}
      /\ Backslash \notin 128 .. 247 /\ Backslash # Quote
  BY DEF Backslash, Quote
<1>2. ~\E pair \in ShortEscapes : pair[1] = e
  BY DEF ShortEscapes, Replacement
<1>3. Character(t, n, i) = NoChar
  BY <1>1, <1>2, NoCharacter
<1>4. i + 1 \in NoCharacterAt(t, n, i)
  <2>1. Fits(t, n, i, 0)
    <3>1. i + 0 = i
      OBVIOUS
    <3> QED
      BY <3>1, FitsIs
  <2>2. \A l \in 0 .. 1 - 1 : Fits(t, n, i, l)
    <3>1. \A l \in 0 .. 1 - 1 : l = 0
      OBVIOUS
    <3> QED
      BY <2>1, <3>1
  <2> QED
    BY <2>2 DEF NoCharacterAt
<1> QED
  BY <1>1, <1>3, <1>4

\* Where parse_string_slow is.
LEMMA InSlow ==
    ASSUME PlaceInv, TextInv, NEW s, Matches(s), Reading
    PROVE  /\ pc = "slow" /\ pc \in StringPlaces
           /\ s.place = "string" /\ s.at = p
           /\ input_end \in Nat /\ p \in Nat /\ p < input_end
           /\ original \in [0 .. input_end - 1 -> Bytes]
           /\ original[p] = input[p] /\ original[p] \in 0 .. 255
           /\ ByteAt(original, input_end, p) = original[p]
           /\ \A i \in p .. input_end - 1 :
                 /\ input[i] = original[i] /\ original[i] \in 0 .. 255
                 /\ ByteAt(original, input_end, i) = original[i]
<1>1. pc = "slow" /\ pc \in StringPlaces /\ p < input_end
  BY DEF Reading, StringPlaces
<1>2. /\ s.place = "string" /\ s.at = p
      /\ input_end \in Nat /\ p \in Nat
      /\ original[p] = input[p] /\ original[p] \in 0 .. 255
      /\ ByteAt(original, input_end, p) = original[p]
  BY <1>1, InString
<1>3. original \in [0 .. input_end - 1 -> Bytes]
  BY TextIs
<1>4. ASSUME NEW i \in p .. input_end - 1
      PROVE  /\ input[i] = original[i] /\ original[i] \in 0 .. 255
             /\ ByteAt(original, input_end, i) = original[i]
  <2>1. i \in 0 .. input_end - 1
    BY <1>2
  <2>2. original[i] \in Bytes
    BY <1>3, <2>1
  <2> QED
    BY <2>2, ByteIs DEF Bytes
<1> QED
  BY <1>1, <1>2, <1>3, <1>4

\* A refusal, where no character begins.
LEMMA Refuses ==
    ASSUME PlaceInv, TextInv, NEW s, Matches(s), Reading,
           Character(original, input_end, p) = NoChar,
           original[p] # Quote,
           NEW at, at \in NoCharacterAt(original, input_end, p),
           at \in 0 .. input_end, NEW code, Refuse(at, code)
    PROVE  Keeps(s)
<1>1. /\ make_error(at, code, 0) /\ pc' = "failed"
      /\ UNCHANGED <<document, input_end, input, p, values>>
  BY DEF Refuse, Fail
<1>2. pc \in StringPlaces /\ ByteAt(original, input_end, p) # Quote
  BY InSlow
<1> QED
  BY <1>1, <1>2, FailsInString

LEMMA SlowEscapeKeeps ==
    ASSUME PlaceInv, TextInv, NEW s, Matches(s), SlowEscape, start' = start
    PROVE  Keeps(s)
<1>1. Reading /\ input[p] = Backslash
  BY DEF SlowEscape
<1>2. /\ pc = "slow" /\ input_end \in Nat /\ p \in Nat /\ p < input_end
      /\ original[p] = Backslash
      /\ ByteAt(original, input_end, p) = Backslash
      /\ Backslash # Quote
  BY <1>1, InSlow DEF Backslash, Quote
<1>3. PICK e : e = ByteAt(original, input_end, p + 1)
  OBVIOUS
<1>4. ASSUME e \notin DOMAIN Replacement \cup {LetterU}, NEW code,
             Refuse(p + 1, code)
      PROVE  Keeps(s)
  <2>1. ~Escaped(original, input_end, p)
    BY <1>2, <1>3, <1>4, EscapeBegins
  <2>2. /\ Character(original, input_end, p) = NoChar
        /\ p + 1 \in NoCharacterAt(original, input_end, p)
    BY <1>2, <1>3, <1>4, <2>1, NoEscape
  <2>3. p + 1 \in 0 .. input_end
    BY <1>2
  <2> QED
    BY <1>1, <1>2, <1>4, <2>2, <2>3, Refuses
<1>5. CASE at_eof(p + 1) /\ Refuse(p + 1, "UNEXPECTED_END")
  <2>1. e = NoByte
    <3>1. p + 1 \in Nat /\ p + 1 >= input_end
      BY <1>2, <1>5 DEF at_eof
    <3> QED
      BY <1>3, <3>1, NoByteAtEnd
  <2>2. e \notin DOMAIN Replacement \cup {LetterU}
    BY <2>1 DEF NoByte, Replacement, LetterU
  <2> QED
    BY <1>4, <1>5, <2>2
<1>6. ASSUME ~at_eof(p + 1)
      PROVE  p + 1 \in p .. input_end - 1 /\ input[p + 1] = e /\ original[p + 1] = e
  <2>1. p + 1 \in p .. input_end - 1
    BY <1>2, <1>6 DEF at_eof
  <2> QED
    BY <1>1, <1>3, <2>1, InSlow
<1>7. CASE ~at_eof(p + 1) /\ input[p + 1] \in DOMAIN Replacement
           /\ Write(<<Replacement[input[p + 1]]>>, p + 2)
  <2>1. e \in DOMAIN Replacement /\ Write(<<Replacement[e]>>, p + 2)
    BY <1>6, <1>7
  <2>2. PICK pair : pair = <<e, Replacement[e]>>
    OBVIOUS
  <2>3. pair \in ShortEscapes /\ pair[1] = e /\ pair[2] = Replacement[e]
    BY <2>1, <2>2 DEF ShortEscapes, Replacement
  <2>4. PICK char : char = Character(original, input_end, p)
    OBVIOUS
  <2>5. char = Char(2, <<pair[2]>>)
    BY <1>2, <1>3, <2>3, <2>4, ShortCharacter
  <2>6. /\ char.width = 2 /\ char.bytes = <<Replacement[e]>> /\ char # NoChar
        /\ Len(char.bytes) <= char.width
    <3>1. char.width = 2 /\ char.bytes = <<Replacement[e]>>
      BY <2>3, <2>5 DEF Char
    <3>2. NoChar.width = 0
      BY DEF NoChar, Char
    <3>3. Len(<<Replacement[e]>>) = 1
      OBVIOUS
    <3> QED
      BY <3>1, <3>2, <3>3
  <2>7. \A i \in p .. p + char.width - 1 :
            original[i] \notin {LineFeed, CarriageReturn}
    <3>1. \A i \in p .. p + char.width - 1 : i = p \/ i = p + 1
      BY <1>2, <2>6
    <3>2. e \notin {LineFeed, CarriageReturn}
      BY <2>1 DEF Replacement, LineFeed, CarriageReturn
    <3>3. Backslash \notin {LineFeed, CarriageReturn}
      BY DEF Backslash, LineFeed, CarriageReturn
    <3> QED
      BY <1>2, <1>6, <1>7, <3>1, <3>2, <3>3
  <2>8. Write(char.bytes, p + char.width)
    BY <2>1, <2>6
  <2> QED
    BY <1>2, <2>4, <2>6, <2>7, <2>8, WritesRight
<1>8. CASE ~at_eof(p + 1) /\ input[p + 1] \notin DOMAIN Replacement \cup {LetterU}
           /\ Refuse(p + 1, "UNKNOWN_ESCAPE")
  BY <1>4, <1>6, <1>8
<1> QED
  BY <1>5, <1>7, <1>8 DEF SlowEscape

\* The four digits of an escape that is not cut off.
LEMMA HexRead ==
    ASSUME PlaceInv, TextInv, NEW i \in Nat, i >= p, i + 6 <= input_end,
           ByteAt(original, input_end, i) = Backslash,
           ByteAt(original, input_end, i + 1) = LetterU
    PROVE  /\ BadHex(i + 2) = {} =>
                 /\ Escaped(original, input_end, i)
                 /\ read_hex(i + 2) = CodeUnit(original, i)
                 /\ \A k \in i .. i + 5 :
                       original[k] \notin {LineFeed, CarriageReturn}
           /\ BadHex(i + 2) # {} =>
                 /\ ~Escaped(original, input_end, i)
                 /\ \E j \in 2 .. 5 :
                       /\ Min(BadHex(i + 2)) = i + j
                       /\ ByteAt(original, input_end, i + j) # NoByte
                       /\ \A l \in 0 .. j - 1 : Fits(original, input_end, i, l)
<1>1. input_end \in Nat /\ original \in [0 .. input_end - 1 -> Bytes]
      /\ p \in Nat
  BY TextIs DEF PlaceInv
<1>2. \A j \in 0 .. 5 : i + j \in p .. input_end - 1
  BY <1>1
<1>3. \A j \in 0 .. 5 : /\ input[i + j] = original[i + j]
                        /\ ByteAt(original, input_end, i + j) = original[i + j]
  BY <1>2, ByteIs
<1>4. Escaped(original, input_end, i) <=>
          \A j \in 2 .. 5 : ByteAt(original, input_end, i + j) \in DOMAIN HexValue
  BY EscapedIs
<1>5. BadHex(i + 2) = {k \in i + 2 .. i + 5 : input[k] \notin DOMAIN HexValue}
  <2>1. (i + 2) + 3 = i + 5
    OBVIOUS
  <2> QED
    BY <2>1, HexSame DEF BadHex
<1>6. ASSUME BadHex(i + 2) = {}
      PROVE  /\ Escaped(original, input_end, i)
             /\ read_hex(i + 2) = CodeUnit(original, i)
             /\ \A k \in i .. i + 5 :
                   original[k] \notin {LineFeed, CarriageReturn}
  <2>1. ASSUME NEW j \in 2 .. 5
        PROVE  /\ original[i + j] \in DOMAIN HexValue
               /\ input[i + j] = original[i + j]
               /\ ByteAt(original, input_end, i + j) = original[i + j]
    <3>1. j \in 0 .. 5 /\ i + j \in i + 2 .. i + 5
      OBVIOUS
    <3>2. input[i + j] \in DOMAIN HexValue
      BY <1>5, <1>6, <3>1
    <3> QED
      BY <1>3, <3>1, <3>2
  <2>2. Escaped(original, input_end, i)
    BY <1>4, <2>1
  <2>3. \A j \in 2 .. 5 : HexDigit[input[i + j]] = HexValue[original[i + j]]
    BY <2>1, HexSame
  <2>4. read_hex(i + 2) = CodeUnit(original, i)
    <3>1. (i + 2) + 1 = i + 3 /\ (i + 2) + 2 = i + 4 /\ (i + 2) + 3 = i + 5
      OBVIOUS
    <3>2. /\ HexDigit[input[i + 2]] = HexValue[original[i + 2]]
          /\ HexDigit[input[i + 3]] = HexValue[original[i + 3]]
          /\ HexDigit[input[i + 4]] = HexValue[original[i + 4]]
          /\ HexDigit[input[i + 5]] = HexValue[original[i + 5]]
      BY <2>3
    <3> QED
      BY <3>1, <3>2 DEF read_hex, CodeUnit
  <2>5. ASSUME NEW k \in i .. i + 5
        PROVE  original[k] \notin {LineFeed, CarriageReturn}
    <3>1. PICK j : j = k - i
      OBVIOUS
    <3>2. j \in 0 .. 5 /\ k = i + j /\ (j = 0 \/ j = 1 \/ j \in 2 .. 5)
      BY <3>1
    <3>3. CASE j = 0
      <4>1. i + 0 = i /\ 0 \in 0 .. 5
        OBVIOUS
      <4> QED
        BY <1>3, <3>2, <3>3, <4>1 DEF Backslash, LineFeed, CarriageReturn
    <3>4. CASE j = 1
      BY <1>3, <3>2, <3>4 DEF LetterU, LineFeed, CarriageReturn
    <3>5. CASE j \in 2 .. 5
      BY <2>1, <3>2, <3>5, HexSame
    <3> QED
      BY <3>2, <3>3, <3>4, <3>5
  <2> QED
    BY <2>2, <2>4, <2>5
<1>7. ASSUME BadHex(i + 2) # {}
      PROVE  /\ ~Escaped(original, input_end, i)
             /\ \E j \in 2 .. 5 :
                   /\ Min(BadHex(i + 2)) = i + j
                   /\ ByteAt(original, input_end, i + j) # NoByte
                   /\ \A l \in 0 .. j - 1 : Fits(original, input_end, i, l)
  <2>1. PICK bad : bad = BadHex(i + 2)
    OBVIOUS
  <2>2. bad \subseteq Nat /\ bad # {}
    BY <1>5, <1>7, <2>1
  <2>3. PICK m : m = Min(bad)
    OBVIOUS
  <2>4. m \in bad /\ \A k \in bad : m <= k
    BY <2>2, <2>3, MinIs
  <2>5. PICK j : j = m - i
    OBVIOUS
  <2>6. m \in i + 2 .. i + 5 /\ input[m] \notin DOMAIN HexValue
    BY <1>5, <2>1, <2>4
  <2>7. j \in 2 .. 5 /\ m = i + j /\ j \in 0 .. 5
    BY <2>5, <2>6
  <2>8. /\ input[i + j] = original[i + j]
        /\ ByteAt(original, input_end, i + j) = original[i + j]
    BY <1>3, <2>7
  <2>9. ByteAt(original, input_end, i + j) \notin DOMAIN HexValue
    BY <2>6, <2>7, <2>8
  <2>10. ByteAt(original, input_end, i + j) # NoByte
    <3>1. original[i + j] \in Bytes
      BY <1>1, <1>2, <2>7
    <3>2. NoByte \notin Bytes
      BY DEF NoByte, Bytes
    <3> QED
      BY <2>8, <3>1, <3>2
  <2>11. ASSUME NEW l \in 0 .. j - 1
         PROVE  Fits(original, input_end, i, l)
    <3>1. CASE l \in 0 .. 1
      BY <3>1, EscapedIs
    <3>2. CASE l \in 2 .. 5
      <4>1. i + l \in i + 2 .. i + 5 /\ ~(m <= i + l) /\ l \in 0 .. 5
            /\ l \in 0 .. 11 /\ l \in HexPlaces
        BY <2>7, <2>11, <3>2 DEF HexPlaces
      <4>2. i + l \notin bad
        BY <2>4, <4>1
      <4>3. input[i + l] \in DOMAIN HexValue
        BY <1>5, <2>1, <4>1, <4>2
      <4>4. ByteAt(original, input_end, i + l) \in DOMAIN HexValue
        BY <1>3, <4>1, <4>3
      <4> QED
        BY <4>1, <4>4, FitsIs
    <3> QED
      BY <2>7, <3>1, <3>2
  <2> QED
    BY <1>4, <2>1, <2>3, <2>7, <2>9, <2>10, <2>11
<1> QED
  BY <1>6, <1>7

\* The bytes of a code point are those of UTF-8.
LEMMA EncodesSame ==
    ASSUME NEW c
    PROVE  write_utf8(c) = Utf8Bytes(c)
BY DEF write_utf8, Utf8Bytes

\* After a digit that is none a text may be said to be wrong, and after what
\* fits.
LEMMA OffendsAfterDigit ==
    ASSUME NEW t, NEW n \in Nat, NEW i \in Nat, NEW j \in HexPlaces,
           ByteAt(t, n, i + j) # NoByte, \A l \in 0 .. j - 1 : Fits(t, n, i, l)
    PROVE  (i + j) + 1 \in NoCharacterAt(t, n, i)
<1>1. PICK m : m = j + 1
  OBVIOUS
<1>2. m \in 0 .. 12 /\ m - 1 = j /\ i + m - 1 = i + j /\ m - 2 = j - 1
      /\ i + m = (i + j) + 1
  BY <1>1 DEF HexPlaces
<1>3. /\ m - 1 \in HexPlaces /\ ByteAt(t, n, i + m - 1) # NoByte
      /\ \A l \in 0 .. m - 2 : Fits(t, n, i, l)
  BY <1>2
<1>4. i + m \in NoCharacterAt(t, n, i)
  BY <1>2, <1>3 DEF NoCharacterAt
<1> QED
  BY <1>2, <1>4

LEMMA OffendsAfterFit ==
    ASSUME NEW t, NEW n \in Nat, NEW i \in Nat, NEW j \in 0 .. 12,
           \A l \in 0 .. j - 1 : Fits(t, n, i, l)
    PROVE  i + j \in NoCharacterAt(t, n, i)
BY DEF NoCharacterAt

\* A step of parse_string_slow at an escape \u.
LEMMA AtUnicode ==
    ASSUME PlaceInv, TextInv, NEW s, Matches(s), Reading,
           input[p] = Backslash, ~at_eof(p + 1), input[p + 1] = LetterU
    PROVE  /\ input_end \in Nat /\ p \in Nat /\ p + 1 < input_end
           /\ p + 2 \in Nat /\ p + 6 \in Nat
           /\ pc = "slow" /\ p < input_end
           /\ original[p] # Quote
           /\ ByteAt(original, input_end, p) = Backslash
           /\ ByteAt(original, input_end, p + 1) = LetterU
           /\ LetterU \notin DOMAIN Replacement
<1>1. /\ pc = "slow" /\ input_end \in Nat /\ p \in Nat /\ p < input_end
      /\ original[p] = Backslash
      /\ ByteAt(original, input_end, p) = Backslash
      /\ Backslash # Quote
  BY InSlow DEF Backslash, Quote
<1>2. p + 1 \in p .. input_end - 1 /\ p + 2 \in Nat /\ p + 6 \in Nat
  BY <1>1 DEF at_eof
<1>3. ByteAt(original, input_end, p + 1) = LetterU
  BY <1>2, InSlow
<1>4. LetterU \notin DOMAIN Replacement
  BY DEF LetterU, Replacement
<1> QED
  BY <1>1, <1>2, <1>3, <1>4

LEMMA SlowUnicodeKeeps ==
    ASSUME PlaceInv, TextInv, NEW s, Matches(s), SlowUnicode, start' = start
    PROVE  Keeps(s)
<1>1. /\ Reading /\ input[p] = Backslash /\ ~at_eof(p + 1)
      /\ input[p + 1] = LetterU
  BY DEF SlowUnicode
<1>2. /\ input_end \in Nat /\ p \in Nat /\ p + 1 < input_end
      /\ p + 2 \in Nat /\ p + 6 \in Nat
      /\ pc = "slow" /\ p < input_end
      /\ original[p] # Quote
      /\ ByteAt(original, input_end, p) = Backslash
      /\ ByteAt(original, input_end, p + 1) = LetterU
      /\ LetterU \notin DOMAIN Replacement
  BY <1>1, AtUnicode
<1>3. CASE ~has_remaining_characters(p + 2, 4)
           /\ Refuse(p + 2, "UNEXPECTED_END")
  <2>1. ~Escaped(original, input_end, p)
    <3>1. ~(p + 5 \in 0 .. input_end - 1)
      BY <1>2, <1>3 DEF has_remaining_characters
    <3> QED
      BY <1>2, <3>1, EscapeFits
  <2>2. Character(original, input_end, p) = NoChar
    BY <1>2, <2>1, NoEscape
  <2>3. p + 2 \in NoCharacterAt(original, input_end, p)
    <3>1. \A l \in 0 .. 2 - 1 : Fits(original, input_end, p, l)
      <4>1. \A l \in 0 .. 2 - 1 : l = 0 \/ l = 1
        OBVIOUS
      <4> QED
        BY <1>2, <4>1, EscapedIs
    <3>2. 2 \in 0 .. 12
      OBVIOUS
    <3> QED
      BY <1>2, <3>1, <3>2, OffendsAfterFit
  <2>4. p + 2 \in 0 .. input_end
    BY <1>2
  <2> QED
    BY <1>1, <1>2, <1>3, <2>2, <2>3, <2>4, Refuses
<1>4. ASSUME has_remaining_characters(p + 2, 4)
      PROVE  p + 6 <= input_end /\ p >= p
  BY <1>2, <1>4 DEF has_remaining_characters
<1>5. CASE has_remaining_characters(p + 2, 4) /\ BadHex(p + 2) # {}
           /\ Refuse(Min(BadHex(p + 2)) + 1, "INVALID_UNICODE_ESCAPE")
  <2>1. /\ ~Escaped(original, input_end, p)
        /\ \E j \in 2 .. 5 :
              /\ Min(BadHex(p + 2)) = p + j
              /\ ByteAt(original, input_end, p + j) # NoByte
              /\ \A l \in 0 .. j - 1 : Fits(original, input_end, p, l)
    BY <1>2, <1>4, <1>5, HexRead
  <2>2. PICK j \in 2 .. 5 :
              /\ Min(BadHex(p + 2)) = p + j
              /\ ByteAt(original, input_end, p + j) # NoByte
              /\ \A l \in 0 .. j - 1 : Fits(original, input_end, p, l)
    BY <2>1
  <2>3. Character(original, input_end, p) = NoChar
    BY <1>2, <2>1, NoEscape
  <2>4. (p + j) + 1 \in NoCharacterAt(original, input_end, p)
    <3>1. j \in HexPlaces
      BY DEF HexPlaces
    <3> QED
      BY <1>2, <2>2, <3>1, OffendsAfterDigit
  <2>5. (p + j) + 1 \in 0 .. input_end
    BY <1>2, <1>4, <1>5
  <2>6. Refuse((p + j) + 1, "INVALID_UNICODE_ESCAPE")
    BY <1>5, <2>2
  <2> QED
    BY <1>1, <1>2, <2>3, <2>4, <2>5, <2>6, Refuses
<1>6. CASE has_remaining_characters(p + 2, 4) /\ BadHex(p + 2) = {}
           /\ read_hex(p + 2) \notin LeadSurrogates
           /\ Write(write_utf8(read_hex(p + 2)), p + 6)
  <2>1. /\ Escaped(original, input_end, p)
        /\ read_hex(p + 2) = CodeUnit(original, p)
        /\ \A k \in p .. p + 5 : original[k] \notin {LineFeed, CarriageReturn}
    BY <1>2, <1>4, <1>6, HexRead
  <2>2. PICK c : c = CodeUnit(original, p)
    OBVIOUS
  <2>3. c \notin Leads /\ Write(Utf8Bytes(c), p + 6)
    BY <1>6, <2>1, <2>2, EncodesSame DEF LeadSurrogates, Leads
  <2>4. PICK char : char = Character(original, input_end, p)
    OBVIOUS
  <2>5. char = Char(6, Utf8Bytes(c))
    BY <1>2, <2>1, <2>2, <2>3, <2>4, UnitCharacter
  <2>6. char.width = 6 /\ char.bytes = Utf8Bytes(c)
    BY <2>5 DEF Char
  <2>7. char # NoChar /\ Len(char.bytes) <= char.width
    <3>1. Len(Utf8Bytes(c)) \in 1 .. 4
      BY EncodedList
    <3>2. NoChar.width = 0
      BY DEF NoChar, Char
    <3>3. char # NoChar
      BY <2>6, <3>2
    <3>4. PICK m : m = Len(Utf8Bytes(c))
      OBVIOUS
    <3>5. m <= 6
      BY <3>1, <3>4
    <3> QED
      BY <2>6, <3>3, <3>4, <3>5
  <2>8. \A k \in p .. p + char.width - 1 :
            original[k] \notin {LineFeed, CarriageReturn}
    <3>1. p + char.width - 1 = p + 5
      BY <1>2, <2>6
    <3> QED
      BY <2>1, <3>1
  <2>9. Write(char.bytes, p + char.width)
    BY <2>3, <2>6
  <2> QED
    BY <1>2, <2>4, <2>7, <2>8, <2>9, WritesRight
<1>7. (p + 2) + 4 = p + 6
  BY <1>2
<1> QED
  BY <1>3, <1>5, <1>6, <1>7 DEF SlowUnicode

\* The second escape of a pair begins where the first ends.
LEMMA PairFits ==
    ASSUME NEW t, NEW n, NEW i \in Nat, Escaped(t, n, i),
           NEW j \in 0 .. 6, \A l \in 0 .. j - 1 : Fits(t, n, i + 6, l),
           j <= 5 \/ Escaped(t, n, i + 6)
    PROVE  \A l \in 0 .. (6 + j) - 1 : Fits(t, n, i, l)
<1> TAKE l \in 0 .. (6 + j) - 1
<1>1. CASE l \in 0 .. 5
  BY <1>1 DEF Escaped
<1>2. CASE l \notin 0 .. 5
  <2>1. PICK m : m = l - 6
    OBVIOUS
  <2>2. m \in 0 .. j - 1 /\ l = 6 + m /\ m \in 0 .. 5
    BY <1>2, <2>1
  <2>3. Fits(t, n, i + 6, m)
    BY <2>2
  <2> QED
    BY <2>2, <2>3, FitsLater
<1> QED
  BY <1>1, <1>2

LEMMA SlowSurrogatesKeeps ==
    ASSUME PlaceInv, TextInv, NEW s, Matches(s), SlowSurrogates, start' = start
    PROVE  Keeps(s)
<1>1. /\ Reading /\ input[p] = Backslash /\ ~at_eof(p + 1)
      /\ input[p + 1] = LetterU
  BY DEF SlowSurrogates
<1>2. /\ input_end \in Nat /\ p \in Nat /\ p + 1 < input_end
      /\ p + 2 \in Nat /\ p + 6 \in Nat
      /\ pc = "slow" /\ p < input_end
      /\ original[p] # Quote
      /\ ByteAt(original, input_end, p) = Backslash
      /\ ByteAt(original, input_end, p + 1) = LetterU
      /\ LetterU \notin DOMAIN Replacement
  BY <1>1, AtUnicode
<1>3. /\ has_remaining_characters(p + 2, 4) /\ BadHex(p + 2) = {}
      /\ read_hex(p + 2) \in LeadSurrogates
  BY DEF SlowSurrogates
<1>4. p + 6 <= input_end /\ p >= p
  BY <1>2, <1>3 DEF has_remaining_characters
<1>5. /\ Escaped(original, input_end, p)
      /\ read_hex(p + 2) = CodeUnit(original, p)
      /\ \A k \in p .. p + 5 : original[k] \notin {LineFeed, CarriageReturn}
  BY <1>2, <1>3, <1>4, HexRead
<1>6. PICK at : at = p + 6
  OBVIOUS
<1>7. at \in Nat /\ at >= p /\ at \in 0 .. input_end
  BY <1>2, <1>4, <1>6
<1>8. CodeUnit(original, p) \in Leads
  BY <1>3, <1>5 DEF LeadSurrogates, Leads
<1>9. ASSUME ~(Escaped(original, input_end, at) /\ CodeUnit(original, at) \in Trails)
      PROVE  Character(original, input_end, p) = NoChar
  BY <1>2, <1>6, <1>8, <1>9, NoEscape
<1>10. at \in NoCharacterAt(original, input_end, p)
  <2>1. \A l \in 0 .. 6 - 1 : Fits(original, input_end, p, l)
    BY <1>5 DEF Escaped
  <2>2. 6 \in 0 .. 12
    OBVIOUS
  <2> QED
    BY <1>2, <1>6, <2>1, <2>2, OffendsAfterFit
<1>11. ASSUME ~Escaped(original, input_end, at), NEW code, Refuse(at, code)
       PROVE  Keeps(s)
  BY <1>1, <1>2, <1>7, <1>9, <1>10, <1>11, Refuses
<1>12. CASE ~has_remaining_characters(at, 6)
            /\ Refuse(at, "UNEXPECTED_END_OF_UTF16")
  <2>1. ~(at + 5 \in 0 .. input_end - 1)
    BY <1>2, <1>7, <1>12 DEF has_remaining_characters
  <2>2. ~Escaped(original, input_end, at)
    BY <1>2, <1>7, <2>1, EscapeFits
  <2> QED
    BY <1>11, <1>12, <2>2
<1>13. ASSUME has_remaining_characters(at, 6)
       PROVE  /\ at + 6 <= input_end
              /\ ByteAt(original, input_end, at) = input[at]
              /\ ByteAt(original, input_end, at + 1) = input[at + 1]
  <2>1. /\ at + 6 <= input_end /\ at \in p .. input_end - 1
        /\ at + 1 \in p .. input_end - 1
    BY <1>2, <1>7, <1>13 DEF has_remaining_characters
  <2> QED
    BY <2>1, ByteIs
<1>14. CASE /\ has_remaining_characters(at, 6)
            /\ input[at] # Backslash \/ input[at + 1] # LetterU
            /\ Refuse(at, "EXPECTED_U")
  <2>1. ~Escaped(original, input_end, at)
    BY <1>2, <1>7, <1>13, <1>14, EscapeBegins
  <2> QED
    BY <1>11, <1>14, <2>1
<1>15. ASSUME has_remaining_characters(at, 6), input[at] = Backslash,
              input[at + 1] = LetterU
       PROVE  /\ BadHex(at + 2) = {} =>
                 /\ Escaped(original, input_end, at)
                 /\ read_hex(at + 2) = CodeUnit(original, at)
                 /\ \A k \in at .. at + 5 :
                       original[k] \notin {LineFeed, CarriageReturn}
              /\ BadHex(at + 2) # {} =>
                 /\ ~Escaped(original, input_end, at)
                 /\ \E j \in 2 .. 5 :
                       /\ Min(BadHex(at + 2)) = at + j
                       /\ ByteAt(original, input_end, at + j) # NoByte
                       /\ \A l \in 0 .. j - 1 : Fits(original, input_end, at, l)
  BY <1>7, <1>13, <1>15, HexRead
<1>16. CASE /\ has_remaining_characters(at, 6)
            /\ input[at] = Backslash /\ input[at + 1] = LetterU
            /\ BadHex(at + 2) # {}
            /\ Refuse(Min(BadHex(at + 2)) + 1, "INVALID_UNICODE_ESCAPE")
  <2>1. /\ ~Escaped(original, input_end, at)
        /\ \E j \in 2 .. 5 :
              /\ Min(BadHex(at + 2)) = at + j
              /\ ByteAt(original, input_end, at + j) # NoByte
              /\ \A l \in 0 .. j - 1 : Fits(original, input_end, at, l)
    BY <1>15, <1>16
  <2>2. PICK j \in 2 .. 5 :
              /\ Min(BadHex(at + 2)) = at + j
              /\ ByteAt(original, input_end, at + j) # NoByte
              /\ \A l \in 0 .. j - 1 : Fits(original, input_end, at, l)
    BY <2>1
  <2>3. Character(original, input_end, p) = NoChar
    BY <1>9, <2>1
  <2>4. PICK m : m = 6 + j
    OBVIOUS
  <2>5. m \in HexPlaces /\ p + m = at + j
    BY <1>2, <1>6, <2>4 DEF HexPlaces
  <2>6. \A l \in 0 .. m - 1 : Fits(original, input_end, p, l)
    <3>1. j \in 0 .. 6 /\ j <= 5
      OBVIOUS
    <3> QED
      BY <1>2, <1>5, <1>6, <2>2, <2>4, <3>1, PairFits
  <2>7. (p + m) + 1 \in NoCharacterAt(original, input_end, p)
    BY <1>2, <2>2, <2>5, <2>6, OffendsAfterDigit
  <2>8. (p + m) + 1 \in 0 .. input_end
    BY <1>2, <1>7, <1>13, <1>16, <2>5
  <2>9. Refuse((p + m) + 1, "INVALID_UNICODE_ESCAPE")
    BY <1>16, <2>2, <2>5
  <2> QED
    BY <1>1, <1>2, <2>3, <2>7, <2>8, <2>9, Refuses
<1>17. CASE /\ has_remaining_characters(at, 6)
            /\ input[at] = Backslash /\ input[at + 1] = LetterU
            /\ BadHex(at + 2) = {}
            /\ read_hex(at + 2) \notin TrailSurrogates
            /\ Refuse(at + 6, "INVALID_UTF16_TRAIL_SURROGATE")
  <2>1. Escaped(original, input_end, at) /\ CodeUnit(original, at) \notin Trails
    BY <1>15, <1>17 DEF TrailSurrogates, Trails
  <2>2. Character(original, input_end, p) = NoChar
    BY <1>9, <2>1
  <2>3. \A l \in 0 .. (6 + 6) - 1 : Fits(original, input_end, p, l)
    <3>1. \A l \in 0 .. 6 - 1 : Fits(original, input_end, p + 6, l)
      BY <1>6, <2>1 DEF Escaped
    <3>2. 6 \in 0 .. 6 /\ Escaped(original, input_end, p + 6)
      BY <1>6, <2>1
    <3> QED
      BY <1>2, <1>5, <3>1, <3>2, PairFits
  <2>4. p + 12 \in NoCharacterAt(original, input_end, p)
    <3>1. 12 \in 0 .. 12 /\ \A l \in 0 .. 12 - 1 : Fits(original, input_end, p, l)
      BY <2>3
    <3> QED
      BY <1>2, <3>1, OffendsAfterFit
  <2>5. at + 6 = p + 12 /\ p + 12 \in 0 .. input_end
    BY <1>2, <1>6, <1>13, <1>17
  <2> QED
    BY <1>1, <1>2, <1>17, <2>2, <2>4, <2>5, Refuses
<1>18. CASE /\ has_remaining_characters(at, 6)
            /\ input[at] = Backslash /\ input[at + 1] = LetterU
            /\ BadHex(at + 2) = {}
            /\ read_hex(at + 2) \in TrailSurrogates
            /\ Write(write_utf8(SurrogatePair(read_hex(p + 2),
                                              read_hex(at + 2))), at + 6)
  <2>1. /\ Escaped(original, input_end, at) /\ CodeUnit(original, at) \in Trails
        /\ read_hex(at + 2) = CodeUnit(original, at)
        /\ \A k \in at .. at + 5 : original[k] \notin {LineFeed, CarriageReturn}
    BY <1>15, <1>18 DEF TrailSurrogates, Trails
  <2>2. PICK c : c = CodePoint(CodeUnit(original, p), CodeUnit(original, at))
    OBVIOUS
  <2>3. SurrogatePair(read_hex(p + 2), read_hex(at + 2)) = c
    <3>1. /\ CodeUnit(original, p) \in Int
          /\ CodeUnit(original, at) \in Int
      BY <1>8, <2>1 DEF Leads, Trails
    <3> QED
      BY <1>5, <2>1, <2>2, <3>1 DEF SurrogatePair, CodePoint
  <2>4. Write(Utf8Bytes(c), at + 6)
    BY <1>18, <2>3, EncodesSame
  <2>5. PICK char : char = Character(original, input_end, p)
    OBVIOUS
  <2>6. char = Char(12, Utf8Bytes(c))
    BY <1>2, <1>5, <1>6, <1>8, <2>1, <2>2, <2>5, PairCharacter
  <2>7. char.width = 12 /\ char.bytes = Utf8Bytes(c)
    BY <2>6 DEF Char
  <2>8. char # NoChar /\ Len(char.bytes) <= char.width
    <3>1. Len(Utf8Bytes(c)) \in 1 .. 4
      BY EncodedList
    <3>2. NoChar.width = 0
      BY DEF NoChar, Char
    <3>3. char # NoChar
      BY <2>7, <3>2
    <3>4. PICK m : m = Len(Utf8Bytes(c))
      OBVIOUS
    <3>5. m <= 12
      BY <3>1, <3>4
    <3> QED
      BY <2>7, <3>3, <3>4, <3>5
  <2>9. \A k \in p .. p + char.width - 1 :
            original[k] \notin {LineFeed, CarriageReturn}
    <3>1. \A k \in p .. p + char.width - 1 : k \in p .. p + 5 \/ k \in at .. at + 5
      BY <1>2, <1>6, <2>7
    <3> QED
      BY <1>5, <2>1, <3>1
  <2>10. Write(char.bytes, p + char.width)
    <3>1. at + 6 = p + 12
      BY <1>2, <1>6
    <3> QED
      BY <2>4, <2>7, <3>1
  <2> QED
    BY <1>2, <2>5, <2>8, <2>9, <2>10, WritesRight
<1> QED
  BY <1>6, <1>12, <1>14, <1>16, <1>17, <1>18 DEF SlowSurrogates

-----------------------------------------------------------------------------
(***************************************************************************)
(* A sequence of UTF-8, and the other steps of a string.                   *)
(***************************************************************************)
\* The length of a sequence is what its first byte announces.
LEMMA LengthAnnounced ==
    ASSUME NEW c \in 32 .. 255
    PROVE  /\ c < 128 => SequenceLength(c) = 1
           /\ c \in 128 .. 247 =>
                 /\ SequenceLength(c) = Announced(c)
                 /\ SequenceLength(c) \in 2 .. 4
           /\ c \in 248 .. 255 => SequenceLength(c) = 0
BY DEF SequenceLength, Announced

LEMMA SlowUtf8Keeps ==
    ASSUME PlaceInv, TextInv, NEW s, Matches(s), SlowUtf8, start' = start
    PROVE  Keeps(s)
<1>1. Reading /\ input[p] >= 32 /\ input[p] \notin {Quote, Backslash}
  BY DEF SlowUtf8
<1>2. /\ pc = "slow" /\ pc \in StringPlaces
      /\ input_end \in Nat /\ p \in Nat /\ p < input_end
      /\ original[p] = input[p] /\ original[p] \in 0 .. 255
      /\ ByteAt(original, input_end, p) = original[p]
  BY <1>1, InSlow
<1>3. \A i \in p .. input_end - 1 :
          /\ input[i] = original[i] /\ original[i] \in 0 .. 255
          /\ ByteAt(original, input_end, i) = original[i]
  BY <1>1, InSlow
<1>4. PICK c : c = original[p]
  OBVIOUS
<1>5. /\ c \in 32 .. 255 /\ c \notin {Quote, Backslash} /\ input[p] = c
      /\ ByteAt(original, input_end, p) = c /\ original[p] # Quote
  BY <1>1, <1>2, <1>4
<1>6. PICK n : n = SequenceLength(c)
  OBVIOUS
<1>7. PICK bad : bad = {i \in p + 1 .. p + n - 1 : ~Continuation(input[i])}
  OBVIOUS
<1>8. p \in NoCharacterAt(original, input_end, p) /\ p \in 0 .. input_end
  BY <1>2, OffendsAtByte
<1>9. c < 128 \/ c \in 128 .. 247 \/ c \in 248 .. 255
  BY <1>5
<1>10. /\ c < 128 => n = 1
       /\ c \in 128 .. 247 => n = Announced(c) /\ n \in 2 .. 4
       /\ c \in 248 .. 255 => n = 0
  BY <1>5, <1>6, LengthAnnounced
<1>11. CASE n = 0 /\ Refuse(p, "INVALID_UTF8")
  <2>1. c \in 248 .. 255
    BY <1>9, <1>10, <1>11
  <2>2. Character(original, input_end, p) = NoChar
    BY <1>2, <1>5, <2>1, NoCharacterHere
  <2> QED
    BY <1>1, <1>5, <1>8, <1>11, <2>2, Refuses
<1>12. ASSUME c \in 128 .. 247,
              NEW j \in 1 .. n - 1, ~Continues(original, input_end, p + j)
       PROVE  Character(original, input_end, p) = NoChar
  <2>1. c \notin (32 .. 127) \ {Quote, Backslash} /\ c # Backslash
    BY <1>5, <1>12
  <2>2. ~\A k \in 1 .. Announced(c) - 1 : Continues(original, input_end, p + k)
    BY <1>10, <1>12
  <2>3. ~Escaped(original, input_end, p)
    BY <1>2, <1>5, <2>1, EscapeBegins
  <2> QED
    BY <1>2, <1>5, <2>1, <2>2, <2>3, NoCharacter
<1>13. CASE n > 0 /\ ~has_remaining_characters(p, n)
            /\ Refuse(p, "UNEXPECTED_END")
  <2>1. c \in 128 .. 247 /\ n \in 2 .. 4
    BY <1>2, <1>9, <1>10, <1>13 DEF has_remaining_characters
  <2>2. PICK j : j = n - 1
    OBVIOUS
  <2>3. j \in 1 .. n - 1 /\ p + j \in Nat /\ p + j >= input_end
    BY <1>2, <1>13, <2>1, <2>2 DEF has_remaining_characters
  <2>4. ~Continues(original, input_end, p + j)
    <3>1. ByteAt(original, input_end, p + j) = NoByte
      BY <2>3, NoByteAtEnd
    <3> QED
      BY <3>1 DEF Continues, NoByte
  <2>5. Character(original, input_end, p) = NoChar
    BY <1>12, <2>1, <2>3, <2>4
  <2> QED
    BY <1>1, <1>5, <1>8, <1>13, <2>5, Refuses
<1>14. ASSUME n > 0, has_remaining_characters(p, n)
       PROVE  /\ n \in 1 .. 4 /\ p + n <= input_end
              /\ \A j \in 0 .. n - 1 : p + j \in p .. input_end - 1
  BY <1>2, <1>9, <1>10, <1>14 DEF has_remaining_characters
<1>15. ASSUME n > 0, has_remaining_characters(p, n), NEW j \in 1 .. n - 1
       PROVE  /\ Continuation(input[p + j]) <=> Continues(original, input_end, p + j)
              /\ Continues(original, input_end, p + j) =>
                    original[p + j] \in 128 .. 191
  <2>1. p + j \in p .. input_end - 1
    BY <1>14, <1>15
  <2> QED
    BY <1>3, <2>1 DEF Continuation, Continues
<1>16. CASE n > 0 /\ has_remaining_characters(p, n) /\ bad # {}
            /\ Refuse(Min(bad), "INVALID_UTF8")
  <2>1. bad \subseteq Nat
    BY <1>2, <1>7
  <2>2. PICK m : m = Min(bad)
    OBVIOUS
  <2>3. m \in bad /\ \A i \in bad : m <= i
    BY <1>16, <2>1, <2>2, MinIs
  <2>4. PICK j : j = m - p
    OBVIOUS
  <2>5. n \in 1 .. 4 /\ m \in p + 1 .. p + n - 1 /\ ~Continuation(input[m])
    BY <1>7, <1>14, <1>16, <2>3
  <2>6. j \in 1 .. n - 1 /\ m = p + j /\ j \in 1 .. 3 /\ n \in 2 .. 4
        /\ j \in 0 .. 12
    BY <1>2, <2>4, <2>5
  <2>7. c \in 128 .. 247
    BY <1>9, <1>10, <2>6
  <2>8. ~Continues(original, input_end, p + j)
    BY <1>15, <1>16, <2>5, <2>6
  <2>9. Character(original, input_end, p) = NoChar
    BY <1>12, <2>6, <2>7, <2>8
  <2>10. ASSUME NEW l \in 1 .. j - 1
         PROVE  Continues(original, input_end, p + l)
    <3>1. l \in 1 .. n - 1 /\ p + l \in p + 1 .. p + n - 1 /\ ~(m <= p + l)
      BY <1>2, <2>6
    <3>2. p + l \notin bad
      BY <2>3, <3>1
    <3>3. Continuation(input[p + l])
      BY <1>7, <3>1, <3>2
    <3> QED
      BY <1>15, <1>16, <3>1, <3>3
  <2>11. p + j \in NoCharacterAt(original, input_end, p)
    BY <1>5, <2>6, <2>7, <2>10 DEF NoCharacterAt
  <2>12. p + j \in 0 .. input_end
    BY <1>2, <1>14, <1>16, <2>6
  <2> QED
    BY <1>1, <1>5, <1>16, <2>2, <2>6, <2>9, <2>11, <2>12, Refuses
<1>17. CASE n > 0 /\ has_remaining_characters(p, n) /\ bad = {}
            /\ Write([i \in 1 .. n |-> input[p + i - 1]], p + n)
  <2>1. n \in 1 .. 4 /\ p + n \in Nat /\ p + n <= input_end
    BY <1>2, <1>14, <1>17
  <2>2. PICK bytes : bytes = Slice(original, p, p + n)
    OBVIOUS
  <2>3. IsList(bytes) /\ Len(bytes) = n
    <3>1. p <= p + n /\ (p + n) - p = n
      BY <1>2, <2>1
    <3> QED
      BY <1>2, <2>1, <2>2, <3>1, SliceIsList
  <2>4. [i \in 1 .. n |-> input[p + i - 1]] = bytes
    <3>1. (p + n) - p = n
      BY <1>2, <2>1
    <3>2. \A i \in 1 .. n : input[p + i - 1] = original[p + i - 1]
      <4>1. \A i \in 1 .. n : p + i - 1 \in p .. input_end - 1
        BY <1>2, <2>1
      <4> QED
        BY <1>3, <4>1
    <3> QED
      BY <2>2, <3>1, <3>2 DEF Slice
  <2>5. \A j \in 1 .. n - 1 : Continues(original, input_end, p + j)
    <3> TAKE j \in 1 .. n - 1
    <3>1. p + j \in p + 1 .. p + n - 1
      BY <1>2, <2>1
    <3>2. Continuation(input[p + j])
      BY <1>7, <1>17, <3>1
    <3> QED
      BY <1>15, <1>17, <3>2
  <2>6. PICK char : char = Character(original, input_end, p)
    OBVIOUS
  <2>7. char = Char(n, bytes)
    <3>1. CASE c < 128
      <4>1. n = 1 /\ c \in (32 .. 127) \ {Quote, Backslash}
        BY <1>5, <1>10, <3>1
      <4>2. bytes = <<c>>
        BY <1>2, <1>4, <2>2, <4>1, SliceOfOne
      <4> QED
        BY <1>2, <1>5, <2>6, <4>1, <4>2, PlainCharacter
    <3>2. CASE c \in 128 .. 247
      <4>1. n = Announced(c)
        BY <1>10, <3>2
      <4>2. char = Char(n, Slice(original, p, p + n))
        BY <1>2, <1>5, <2>5, <2>6, <3>2, <4>1, SequenceCharacter
      <4> QED
        BY <2>2, <4>2
    <3>3. CASE c \in 248 .. 255
      BY <1>10, <2>1, <3>3
    <3> QED
      BY <1>9, <3>1, <3>2, <3>3
  <2>8. char.width = n /\ char.bytes = bytes
    BY <2>7 DEF Char
  <2>9. char # NoChar /\ Len(char.bytes) <= char.width
    <3>1. NoChar.width = 0
      BY DEF NoChar, Char
    <3> QED
      BY <2>1, <2>3, <2>8, <3>1
  <2>10. \A i \in p .. p + char.width - 1 :
             original[i] \notin {LineFeed, CarriageReturn}
    <3> TAKE i \in p .. p + char.width - 1
    <3>1. PICK j : j = i - p
      OBVIOUS
    <3>2. i = p + j /\ (j = 0 \/ j \in 1 .. n - 1)
      BY <1>2, <2>1, <2>8, <3>1
    <3>3. CASE j = 0
      BY <1>2, <1>4, <1>5, <3>2, <3>3 DEF LineFeed, CarriageReturn
    <3>4. CASE j \in 1 .. n - 1
      <4>1. original[p + j] \in 128 .. 191
        BY <1>15, <1>17, <2>5, <3>4
      <4> QED
        BY <3>2, <4>1 DEF LineFeed, CarriageReturn
    <3> QED
      BY <3>2, <3>3, <3>4
  <2>11. Write(char.bytes, p + char.width)
    BY <1>17, <2>4, <2>8
  <2> QED
    BY <1>2, <1>5, <2>6, <2>9, <2>10, <2>11, WritesRight
<1>18. \/ n = 0 /\ Refuse(p, "INVALID_UTF8")
       \/ n > 0 /\ ~has_remaining_characters(p, n) /\ Refuse(p, "UNEXPECTED_END")
       \/ n > 0 /\ has_remaining_characters(p, n) /\ bad # {}
          /\ Refuse(Min(bad), "INVALID_UTF8")
       \/ n > 0 /\ has_remaining_characters(p, n) /\ bad = {}
          /\ Write([i \in 1 .. n |-> input[p + i - 1]], p + n)
  <2>1. n = SequenceLength(input[p])
    BY <1>5, <1>6
  <2> QED
    BY <1>7, <2>1 DEF SlowUtf8
<1> QED
  BY <1>11, <1>13, <1>16, <1>17, <1>18

\* A string.
LEMMA StringKeeps ==
    ASSUME PlaceInv, TextInv, NEW k \in Nat, NEW s, s = Reading_(k), Matches(s),
           parse_string
    PROVE  MeaningInv'
<1>1. CASE Scan
  BY <1>1, ScanKeeps
<1>2. CASE Found
  <2>1. Keeps(s)
    BY <1>2, FoundKeeps
  <2>2. UNCHANGED <<document, input_end>>
    BY <1>2 DEF Found, Close, Push, Goto, IllegalCodepoint
  <2> QED
    BY <2>1, <2>2, KeepsMeaning
<1>3. CASE parse_string_slow
  <2>1. start' = start
    BY <1>3 DEF parse_string_slow
  <2>2. CASE SlowEnd
    <3>1. /\ pc \in StringPlaces /\ p >= input_end
          /\ Fail(p, "UNEXPECTED_END")
      BY <2>2 DEF SlowEnd, Refuse, StringPlaces
    <3>2. Keeps(s)
      BY <3>1, StringUnended
    <3>3. UNCHANGED <<document, input_end>>
      BY <3>1 DEF Fail
    <3> QED
      BY <3>2, <3>3, KeepsMeaning
  <2>3. CASE SlowControl
    <3>1. pc \in StringPlaces /\ p < input_end /\ IllegalCodepoint
      BY <2>3 DEF SlowControl, Reading, StringPlaces
    <3>2. Keeps(s)
      BY <3>1, StringIllegal
    <3>3. UNCHANGED <<document, input_end>>
      BY <3>1 DEF IllegalCodepoint
    <3> QED
      BY <3>2, <3>3, KeepsMeaning
  <2>4. CASE SlowClose
    <3>1. /\ pc = "slow" /\ pc \in StringPlaces /\ p < input_end
          /\ input[p] = Quote /\ Close(end)
      BY <2>4 DEF SlowClose, Reading, StringPlaces
    <3>2. /\ end \in Nat /\ start <= end /\ end <= p
          /\ s.bytes = Slice(input, start, end)
      BY <3>1 DEF PlaceInv, Matches, StringMatches
    <3>3. Keeps(s)
      BY <2>1, <3>1, <3>2, StringCloses
    <3>4. UNCHANGED <<document, input_end>>
      BY <3>1 DEF Close, Push
    <3> QED
      BY <3>3, <3>4, KeepsMeaning
  <2>5. CASE SlowEscape
    <3>1. Keeps(s)
      BY <2>1, <2>5, SlowEscapeKeeps
    <3>2. UNCHANGED <<document, input_end>>
      BY <2>5 DEF SlowEscape, Refuse, Fail, Write, Goto
    <3> QED
      BY <3>1, <3>2, KeepsMeaning
  <2>6. CASE SlowUnicode
    <3>1. Keeps(s)
      BY <2>1, <2>6, SlowUnicodeKeeps
    <3>2. UNCHANGED <<document, input_end>>
      BY <2>6 DEF SlowUnicode, Refuse, Fail, Write, Goto
    <3> QED
      BY <3>1, <3>2, KeepsMeaning
  <2>7. CASE SlowSurrogates
    <3>1. Keeps(s)
      BY <2>1, <2>7, SlowSurrogatesKeeps
    <3>2. UNCHANGED <<document, input_end>>
      BY <2>7 DEF SlowSurrogates, Refuse, Fail, Write, Goto
    <3> QED
      BY <3>1, <3>2, KeepsMeaning
  <2>8. CASE SlowUtf8
    <3>1. Keeps(s)
      BY <2>1, <2>8, SlowUtf8Keeps
    <3>2. UNCHANGED <<document, input_end>>
      BY <2>8 DEF SlowUtf8, Refuse, Fail, Write, Goto
    <3> QED
      BY <3>1, <3>2, KeepsMeaning
  <2> QED
    BY <1>3, <2>2, <2>3, <2>4, <2>5, <2>6, <2>7, <2>8 DEF parse_string_slow
<1> QED
  BY <1>1, <1>2, <1>3 DEF parse_string

-----------------------------------------------------------------------------
(***************************************************************************)
(* The invariant.                                                          *)
(***************************************************************************)
\* The bytes the values begin with.
LEMMA ValuesBegin ==
    /\ {110, 102, 116} \subseteq StartsValue
    /\ {Quote, Minus} \cup Digits \subseteq StartsValue
    /\ 0 \notin StartsValue /\ Comma \notin StartsValue
<1>1. {Spelling[name][1] : name \in Literals} = {110, 102, 116}
  BY DEF Literals, Spelling
<1>2. StartsValue = Digits \cup {Minus, Quote} \cup {110, 102, 116}
  BY <1>1 DEF StartsValue
<1>3. 0 \notin StartsValue /\ Comma \notin StartsValue
  BY <1>2 DEF Digits, Minus, Quote, Comma
<1>4. {110, 102, 116} \subseteq StartsValue
      /\ {Quote, Minus} \cup Digits \subseteq StartsValue
  BY <1>2
<1> QED
  BY <1>3, <1>4

\* No value begins here.
LEMMA SwitchFails ==
    ASSUME PlaceInv, TextInv, NEW s, Matches(s), pc = "switch",
           input[p] \notin StartsValue, NEW code, Fail(p, code)
    PROVE  Keeps(s)
<1>1. /\ s.place \in {"first", "value"} /\ s.place \in TokenPlaces
      /\ input_end \in Nat /\ p \in 0 .. input_end - 1
      /\ Token(original, input_end, s.at) = p
      /\ ByteAt(original, input_end, p) = input[p]
      /\ After(original, input_end, s) = BeginValue(original, input_end, s, p)
  BY AtValue
<1>2. p \in Nat /\ p \in 0 .. input_end /\ s.place # "end"
  BY <1>1
<1>3. ByteAt(original, input_end, p) \notin {Quote, Minus} \cup Digits
  BY <1>1, ValuesBegin
<1>4. WordsAt(original, input_end, p) = {}
  <2>1. ASSUME NEW word \in WordsAt(original, input_end, p) PROVE FALSE
    <3>1. ByteAt(original, input_end, p) \in {110, 102, 116}
      BY <1>1, <1>2, <2>1, WordBegins
    <3> QED
      BY <1>1, <3>1, ValuesBegin
  <2> QED
    BY <2>1
<1>5. After(original, input_end, s) = s
  BY <1>1, <1>3, <1>4, IsNoValue
<1> QED
  BY <1>1, <1>2, <1>5, FailsAtToken

LEMMA SwitchKeeps ==
    ASSUME PlaceInv, TextInv, NEW s, Matches(s), Switch
    PROVE  Keeps(s)
<1>1. pc = "switch"
  BY DEF Switch
<1>2. ASSUME NEW code, Fail(p, code), input[p] \notin StartsValue
      PROVE  Keeps(s)
  BY <1>1, <1>2, SwitchFails
<1>3. CASE input[p] = 0 /\ Fail(p, "UNEXPECTED_END")
  BY <1>2, <1>3, ValuesBegin
<1>4. ASSUME NEW name \in Literals, Literal(name, p)
      PROVE  Keeps(s)
  BY <1>1, <1>4, LiteralKeeps
<1>5. CASE input[p] = Comma /\ Fail(p, "UNEXPECTED_COMMA")
  BY <1>2, <1>5, ValuesBegin
<1>6. CASE input[p] \notin StartsValue \cup {0, Comma} /\ Fail(p, "EXPECTED_VALUE")
  BY <1>2, <1>6
<1>7. CASE input[p] \in Digits \cup {Minus} /\ StartNumber
  BY <1>1, <1>7, StartNumberKeeps
<1>8. CASE input[p] = Quote /\ StartString
  BY <1>1, <1>8, StartStringKeeps
<1> QED
  BY <1>3, <1>4, <1>5, <1>6, <1>7, <1>8 DEF Switch

\* A number.
LEMMA NumberKeeps ==
    ASSUME PlaceInv, TextInv, DigitsInv, NEW s, Matches(s), parse_number
    PROVE  Keeps(s)
BY FirstDigitKeeps, DigitKeeps, PointKeeps, FirstFractionDigitKeeps,
   FractionDigitKeeps, ExponentKeeps, ExponentSignKeeps,
   FirstExponentDigitKeeps, ExponentDigitKeeps, StoreKeeps
   DEF parse_number

\* A step changes neither the text that was handed over nor its length.
LEMMA TextStep ==
    Next => UNCHANGED <<document, input_end>>
<1> SUFFICES ASSUME Next PROVE UNCHANGED <<document, input_end>>
  OBVIOUS
<1>1. CASE ParseRoot \/ ArrayCloseOrElement \/ NextElement \/ Switch
           \/ StructureCloseOrComma \/ PopArray
  BY <1>1 DEF ParseRoot, ArrayCloseOrElement, NextElement, Switch,
              StructureCloseOrComma, PopArray, Fail, Goto, Push, Literal,
              StartNumber, StartString, Advance, Stay
<1>2. CASE parse_string
  <2>1. CASE Scan \/ Found
    BY <2>1 DEF Scan, Found, Fail, Goto, Close, Push, IllegalCodepoint
  <2>2. CASE SlowEnd \/ SlowControl \/ SlowClose \/ SlowEscape
    BY <2>2 DEF SlowEnd, SlowControl, SlowClose, SlowEscape, Refuse, Fail,
                Write, Goto, Close, Push, IllegalCodepoint
  <2>3. CASE SlowUnicode \/ SlowSurrogates \/ SlowUtf8
    BY <2>3 DEF SlowUnicode, SlowSurrogates, SlowUtf8, Refuse, Fail, Write, Goto
  <2> QED
    BY <1>2, <2>1, <2>2, <2>3 DEF parse_string, parse_string_slow
<1>3. CASE parse_number
  BY <1>3 DEF parse_number, FirstDigit, Digit, Point, FirstFractionDigit,
              FractionDigit, Exponent, ExponentSign, FirstExponentDigit,
              ExponentDigit, Store, Fail, Goto, Push, Advance, Stay
<1> QED
  BY <1>1, <1>2, <1>3 DEF Next

LEMMA MeaningInitial ==
    Init => TextInv /\ MeaningInv
<1> SUFFICES ASSUME Init PROVE TextInv /\ MeaningInv
  OBVIOUS
<1>1. TextInv
  BY DEF Init, TextInv
<1>2. /\ input_end \in Nat /\ input = original /\ p = 0 /\ pc = "root"
      /\ values = <<>>
  <2>1. input_end \in Nat
    BY <1>1, TextIs
  <2> QED
    BY <2>1 DEF Init, original
<1>3. PICK s : s = Beginning
  OBVIOUS
<1>4. s = Reading_(0)
  BY <1>3, ReadingsStep DEF Reading_
<1>5. /\ s.at = 0 /\ s.place = "text" /\ s.says = <<>>
  BY <1>3 DEF Beginning, Progress
<1>6. p \in 0 .. input_end
  BY <1>2
<1>7. /\ Agrees(s.place) /\ TokenMatches(s) /\ StringMatches(s)
      /\ NumberMatches(s) /\ FailureMatches(s)
  BY <1>2, <1>5
     DEF Agrees, TokenMatches, StringMatches, StringPlaces, NumberMatches,
         NumberPlaces, FailureMatches
<1>8. ValuesMean(input, Bound, values, s.says)
  <2>1. IsList(<<>>) /\ Len(<<>>) = 0
    BY EmptyList
  <2> QED
    BY <1>2, <1>5, <2>1 DEF ValuesMean
<1>9. SameBreaks
  BY <1>2 DEF SameBreaks
<1>10. Matches(s)
  BY <1>6, <1>7, <1>8, <1>9 DEF Matches
<1> QED
  BY <1>1, <1>4, <1>10 DEF MeaningInv

\* Every step of the parser keeps it.
LEMMA MeaningStep ==
    PlaceInv /\ DigitsInv /\ TextInv /\ MeaningInv /\ [Next]_vars =>
        TextInv' /\ MeaningInv'
<1> SUFFICES ASSUME PlaceInv, DigitsInv, TextInv, MeaningInv, [Next]_vars
             PROVE  TextInv' /\ MeaningInv'
  OBVIOUS
<1>1. UNCHANGED <<document, input_end>>
  BY TextStep DEF vars, textVars
<1>2. TextInv'
  BY <1>1 DEF TextInv
<1> SUFFICES MeaningInv'
  BY <1>2
<1>3. PICK k \in Nat : \E s \in {Reading_(k)} : Matches(s)
  BY DEF MeaningInv
<1>4. PICK s : s = Reading_(k) /\ Matches(s)
  BY <1>3
<1>5. CASE Keeps(s)
  BY <1>1, <1>4, <1>5, KeepsMeaning
<1>6. CASE ParseRoot
  BY <1>4, <1>5, <1>6, ParseRootKeeps
<1>7. CASE ArrayCloseOrElement
  BY <1>4, <1>5, <1>7, ArrayCloseOrElementKeeps
<1>8. CASE NextElement
  BY <1>4, <1>5, <1>8, NextElementKeeps
<1>9. CASE Switch
  BY <1>4, <1>5, <1>9, SwitchKeeps
<1>10. CASE StructureCloseOrComma
  BY <1>4, <1>5, <1>10, StructureCloseOrCommaKeeps
<1>11. CASE PopArray
  BY <1>4, <1>5, <1>11, PopArrayKeeps
<1>12. CASE parse_string
  BY <1>4, <1>12, StringKeeps
<1>13. CASE parse_number
  BY <1>4, <1>5, <1>13, NumberKeeps
<1>14. CASE UNCHANGED vars
  <2>1. Matches(s)'
    BY <1>4, <1>14
       DEF vars, textVars, stringVars, numberVars, Matches, Agrees, Bound,
           SameBreaks, TokenMatches, Gap, StringMatches, Unread, Limit,
           NumberMatches, NumberMeans, FailureMatches, original
  <2> QED
    BY <1>1, <1>4, <2>1, MeaningKept
<1> QED
  BY <1>6, <1>7, <1>8, <1>9, <1>10, <1>11, <1>12, <1>13, <1>14 DEF Next

LEMMA MeaningInvariant ==
    Spec => [](PlaceInv /\ TextInv /\ MeaningInv)
BY PlaceInitial, PlaceStep, DigitsInitial, DigitsStep, MeaningInitial,
   MeaningStep, PTL DEF Spec

-----------------------------------------------------------------------------
(***************************************************************************)
(* What is parsed is what the text says.                                   *)
(***************************************************************************)
\* The reading of the text that the parser has come to, and all of it.
LEMMA ReadSoFar ==
    ASSUME TextInv, NEW k \in Nat, NEW s, s = Reading_(k)
    PROVE  /\ IsList(document.denotes)
           /\ Len(s.says) <= Len(document.denotes)
           /\ \A i \in 1 .. Len(s.says) : document.denotes[i] = s.says[i]
           /\ After(original, input_end, s) = s =>
                 /\ document.denotes = s.says
                 /\ document.wrong = {} <=> IsJson(original, input_end, s)
                 /\ ~IsArray(original, input_end, s) =>
                       Offends(original, input_end, s) \subseteq document.wrong
                 /\ s.breaks => document.breaks
                 /\ s.lax => document.lax
<1>1. PICK n : n = input_end
  OBVIOUS
<1>2. PICK t : t = original
  OBVIOUS
<1>3. n \in Nat /\ s = Readings(t, n)[k]
  BY <1>1, <1>2, TextIs DEF Reading_
<1>4. PICK r : r = Read(t, n)
  OBVIOUS
<1>5. /\ Extends(s, r)
      /\ After(t, n, s) = s => r = s
  BY <1>3, <1>4, ReadIs
<1>6. IsList(r.says)
  <2>1. PICK l \in Nat : r = Readings(t, n)[l]
    BY <1>3, <1>4, ReadIs
  <2> QED
    BY <1>3, <2>1, ReadingsProper DEF Proper
<1>7. /\ document.denotes = r.says
      /\ document.wrong = {} <=> IsJson(t, n, r)
      /\ ~IsArray(t, n, r) => Offends(t, n, r) \subseteq document.wrong
      /\ r.breaks => document.breaks
      /\ r.lax => document.lax
  BY <1>1, <1>2, <1>4, MeaningAssumption DEF TextInv, original
<1> QED
  BY <1>1, <1>2, <1>5, <1>6, <1>7 DEF Extends

\* The values parsed so far are the first of those that are written.
LEMMA ValuesDenoted ==
    ASSUME TextInv, MeaningInv
    PROVE  \A k \in DOMAIN values :
               /\ k \in DOMAIN document.denotes
               /\ ValueMeans(input, Bound, values[k], document.denotes[k])
<1>1. PICK l \in Nat : \E s \in {Reading_(l)} : Matches(s)
  BY DEF MeaningInv
<1>2. PICK s : s = Reading_(l) /\ Matches(s)
  BY <1>1
<1>3. /\ IsList(values) /\ IsList(s.says) /\ Len(values) = Len(s.says)
      /\ \A k \in 1 .. Len(s.says) :
            ValueMeans(input, Bound, values[k], s.says[k])
  BY <1>2 DEF Matches, ValuesMean
<1>4. /\ IsList(document.denotes)
      /\ Len(s.says) <= Len(document.denotes)
      /\ \A i \in 1 .. Len(s.says) : document.denotes[i] = s.says[i]
  BY <1>2, ReadSoFar
<1>5. /\ DOMAIN values = 1 .. Len(s.says)
      /\ DOMAIN document.denotes = 1 .. Len(document.denotes)
      /\ Len(s.says) \in Nat /\ Len(document.denotes) \in Nat
  BY <1>3, <1>4 DEF IsList
<1> TAKE k \in DOMAIN values
<1>6. k \in 1 .. Len(s.says) /\ k \in 1 .. Len(document.denotes)
  BY <1>4, <1>5
<1> QED
  BY <1>3, <1>4, <1>5, <1>6

\* For every text: every string has the bytes its characters and escapes stand
\* for, when it is parsed and ever after.
THEOREM StringsAreRight == Spec => []StringsMean
<1>1. ASSUME TextInv, MeaningInv PROVE StringsMean
  <2> SUFFICES ASSUME NEW k \in DOMAIN values, values[k].type = "string"
               PROVE  document.denotes[k] =
                          [type |-> "string",
                           bytes |-> [i \in 1 .. values[k].end - values[k].start |->
                                         input[values[k].start + i - 1]]]
    BY DEF StringsMean
  <2>1. PICK v : v = values[k]
    OBVIOUS
  <2>2. PICK w : w = document.denotes[k]
    OBVIOUS
  <2>3. ValueMeans(input, Bound, v, w) /\ v.type = "string"
    BY <1>1, <2>1, <2>2, ValuesDenoted
  <2>4. w = [type |-> "string", bytes |-> Slice(input, v.start, v.end)]
    BY <2>3 DEF ValueMeans, Literals
  <2> QED
    BY <2>1, <2>2, <2>4 DEF Slice
<1> QED
  BY <1>1, MeaningInvariant, PTL

\* For every text: a number is an int if it is written as one and fits, and it
\* is that int; every other number is a double.
THEOREM IntegersAreRight == Spec => []IntegersExact
<1>1. ASSUME TextInv, MeaningInv PROVE IntegersExact
  <2> SUFFICES ASSUME NEW k \in DOMAIN values, NEW v, v = values[k],
                      NEW w, w = document.denotes[k]
               PROVE  /\ v.type = "integer" =>
                           /\ FitsInt(w)
                           /\ v.number = IF w.negative THEN -w.mantissa
                                                       ELSE w.mantissa
                      /\ v.type = "double" => ~FitsInt(w)
    BY DEF IntegersExact
  <2>1. ValueMeans(input, Bound, v, w)
    BY <1>1, ValuesDenoted
  <2> QED
    BY <2>1 DEF ValueMeans, Literals
<1> QED
  BY <1>1, MeaningInvariant, PTL

\* For every text whose fractions are not too long to make up for an exponent
\* beyond an int: a double whose digits make one is what they make times the
\* power of ten that is written, rounded as pow10 and the product are, also where
\* the written exponent had to be clamped.
THEOREM DoublesAreRight == Spec => []DoublesExact
<1>1. ASSUME TextInv, MeaningInv PROVE DoublesExact
  <2>1. ASSUME NEW k \in DOMAIN values, NEW v, v = values[k],
               NEW w, w = document.denotes[k],
               v.type = "double", w.mantissa <= Int53Max, FewFractionDigits(w)
        PROVE  v.negative = w.negative /\ v.units = Scaled(w.mantissa, w.power)
    <3>1. ValueMeans(input, Bound, v, w)
      BY <1>1, <2>1, ValuesDenoted
    <3>2. DoubleMeans(v, w)
      BY <2>1, <3>1 DEF ValueMeans, Literals
    <3> QED
      BY <2>1, <3>2 DEF DoubleMeans, Collected
  <2> QED
    BY <2>1 DEF DoublesExact
<1> QED
  BY <1>1, MeaningInvariant, PTL

\* Units and back.
LEMMA UnitsAre ==
    ASSUME NEW y \in Nat
    PROVE  /\ Units(y) = y * Unit /\ Units(y) \in Nat
           /\ (y * Unit) \div Unit = y
           /\ y > Int53Max => y * Unit > Int53Max * Unit
           /\ y <= Int53Max => ~(y * Unit > Int53Max * Unit)
<1>1. Unit \in Nat /\ Unit > 0
  BY DoubleAssumption
<1>2. y * Unit \in Nat
  BY <1>1, ProductInNat
<1>3. Units(y) = y * Unit
  BY DEF Units, Infinity
<1>4. (y * Unit) \div Unit = y
  <2>1. PICK a : a = y * Unit
    OBVIOUS
  <2>2. a \in Nat /\ a >= y * Unit
    BY <1>2, <2>1
  <2>3. PICK q : q = a \div Unit
    OBVIOUS
  <2>4. q \in Nat /\ q >= y
    BY <1>1, <2>2, <2>3, DividesAtLeast
  <2>5. a = Unit * q + (a % Unit) /\ (a % Unit) \in Nat
    BY <1>1, <2>2, <2>3
  <2>6. CASE q > y
    <3>1. PICK e \in Nat : q = y + 1 + e
      <4>1. q - y - 1 \in Nat /\ q = y + 1 + (q - y - 1)
        BY <2>4, <2>6
      <4> QED
        BY <4>1
    <3>2. Unit * q = y * Unit + Unit + Unit * e /\ Unit * e \in Nat
      BY <1>1, <3>1, ProductInNat
    <3> QED
      BY <1>1, <1>2, <2>1, <2>5, <3>2
  <2> QED
    BY <2>1, <2>3, <2>4, <2>6
<1>5. Int53Max \in Nat /\ Int53Max * Unit \in Nat
  BY <1>1, Int53MaxIs, ProductInNat
<1>6. CASE y > Int53Max
  <2>1. PICK e \in Nat : y = Int53Max + 1 + e
    <3>1. y - Int53Max - 1 \in Nat /\ y = Int53Max + 1 + (y - Int53Max - 1)
      BY <1>5, <1>6
    <3> QED
      BY <3>1
  <2>2. y * Unit = Int53Max * Unit + Unit + e * Unit /\ e * Unit \in Nat
    BY <1>1, <1>5, <2>1, ProductInNat
  <2>3. y * Unit > Int53Max * Unit
    BY <1>1, <1>5, <2>2
  <2> QED
    BY <1>2, <1>3, <1>4, <1>5, <1>6, <2>3
<1>7. CASE y <= Int53Max
  <2>1. PICK e \in Nat : Int53Max = y + e
    <3>1. Int53Max - y \in Nat /\ Int53Max = y + (Int53Max - y)
      BY <1>5, <1>7
    <3> QED
      BY <3>1
  <2>2. Int53Max * Unit = y * Unit + e * Unit /\ e * Unit \in Nat
    BY <1>1, <2>1, ProductInNat
  <2>3. ~(y * Unit > Int53Max * Unit)
    BY <1>2, <1>5, <2>2
  <2> QED
    BY <1>2, <1>3, <1>4, <1>5, <1>7, <2>3
<1> QED
  BY <1>5, <1>6, <1>7

\* get_int53_value of a double that is a whole number or infinite.
LEMMA Int53OfDouble ==
    ASSUME NEW sign, NEW y \in Int, y \in Nat \/ y = Infinity,
           NEW got, got = get_int53_value(Double(sign, Units(y)))
    PROVE  /\ got.fits <=> y \in Nat /\ y <= Int53Max
           /\ got.fits => got.out = IF sign THEN -y ELSE y
<1>1. PICK v : v = Double(sign, Units(y))
  OBVIOUS
<1>2. v.type = "double" /\ v.units = Units(y) /\ v.negative = sign
  BY <1>1 DEF Double
<1>3. PICK as_int : as_int = v.units \div Unit
  OBVIOUS
<1>4. got = IF OutOfRange(v.units) \/ v.units = NaN \/ Units(as_int) # v.units
            THEN Refused53
            ELSE [fits |-> TRUE, out |-> IF v.negative THEN -as_int ELSE as_int]
  BY <1>1, <1>2, <1>3 DEF get_int53_value
<1>5. CASE y = Infinity
  <2>1. v.units = Infinity
    BY <1>2, <1>5 DEF Units
  <2>2. got = Refused53
    BY <1>4, <2>1 DEF OutOfRange
  <2> QED
    BY <1>5, <2>2 DEF Refused53, Infinity
<1>6. CASE y \in Nat
  <2>1. /\ v.units = y * Unit /\ v.units \in Nat /\ as_int = y
        /\ y > Int53Max => v.units > Units(Int53Max)
        /\ y <= Int53Max => ~(v.units > Units(Int53Max))
    BY <1>2, <1>3, <1>6, UnitsAre, Int53MaxIs
  <2>2. v.units # Infinity /\ v.units # NaN /\ Units(as_int) = v.units
    <3>1. Units(as_int) = v.units
      BY <1>2, <2>1
    <3>2. v.units # Infinity /\ v.units # NaN
      BY ONLY <2>1 DEF Infinity, NaN
    <3> QED
      BY <3>1, <3>2
  <2>3. CASE y > Int53Max
    <3>1. got = Refused53
      BY <1>4, <2>1, <2>3 DEF OutOfRange
    <3> QED
      BY <2>3, <3>1, Int53MaxIs DEF Refused53
  <2>4. CASE y <= Int53Max
    <3>1. got = [fits |-> TRUE, out |-> IF sign THEN -y ELSE y]
      BY <1>2, <1>4, <2>1, <2>2, <2>4 DEF OutOfRange
    <3> QED
      BY <1>6, <2>4, <3>1
  <2> QED
    BY <1>6, <2>3, <2>4, Int53MaxIs
<1> QED
  BY <1>5, <1>6

\* A power of ten of the table is itself up to Int53Max, and beyond it beyond.
LEMMA PowerOfTenIs ==
    ASSUME NEW k \in 1 .. MaxExponent, NEW q, q = 10 ^ k
    PROVE  /\ q \in Nat /\ q >= 2
           /\ PowerOfTen(k) \in Nat /\ PowerOfTen(k) >= 2
           /\ q <= Int53Max => PowerOfTen(k) = q
           /\ q > Int53Max => PowerOfTen(k) >= Int53Max + 2
<1>1. MinExponent \in Int /\ MaxExponent \in Nat /\ MinExponent < 0
  BY DoubleAssumption
<1>2. k \in 1 .. MaxExponent - MinExponent /\ k >= 0
  BY <1>1
<1>3. q \in Nat /\ q > 0 /\ q % 2 = 0
  BY <1>2, PowersAssumption
<1>4. PICK s \in Spacings : q <= Int53Max * s
  BY PowersAssumption
<1>5. PowerOfTen(k) = Nearest(q, 1)
  BY <1>2 DEF PowerOfTen
<1>6. PICK h \in Nat : q = 2 * h
  <2>1. q = 2 * (q \div 2) + (q % 2) /\ q \div 2 \in Nat
    BY <1>3
  <2> QED
    BY <1>3, <2>1
<1>7. PICK e \in Nat : Int53Max = 2 * e
  BY Int53MaxIs
<1>8. CASE q <= Int53Max
  BY <1>3, <1>5, <1>6, <1>8, NearestSmall, Int53MaxIs
<1>9. CASE q > Int53Max
  <2>1. q >= Int53Max + 2
    BY <1>6, <1>7, <1>9
  <2>2. Nearest(q, 1) \in Nat /\ Nearest(q, 1) >= Int53Max + 2
    BY <1>3, <1>4, <1>9, <2>1, NearestFar
  <2> QED
    BY <1>3, <1>5, <1>9, <2>1, <2>2, Int53MaxIs
<1> QED
  BY <1>3, <1>8, <1>9, Int53MaxIs

\* Digits times a power of ten: exact up to Int53Max, and beyond the number that
\* follows it beyond.
LEMMA ProductCollected ==
    ASSUME NEW m \in Nat, m > 0, NEW x \in Nat, Collected(m, x),
           NEW k \in 1 .. MaxExponent, NEW y, y = x * PowerOfTen(k),
           NEW whole, whole = m * (10 ^ k), whole # Int53Max + 1
    PROVE  /\ whole \in Nat /\ y \in Nat
           /\ whole <= Int53Max => y = whole
           /\ whole > Int53Max => y >= Int53Max + 2
<1>1. PICK q : q = 10 ^ k
  OBVIOUS
<1>2. PICK power : power = PowerOfTen(k)
  OBVIOUS
<1>3. /\ q \in Nat /\ q >= 2 /\ power \in Nat /\ power >= 2
      /\ q <= Int53Max => power = q
      /\ q > Int53Max => power >= Int53Max + 2
  BY <1>1, <1>2, PowerOfTenIs
<1>4. whole = m * q /\ y = x * power
  BY <1>1, <1>2
<1>5. whole \in Nat /\ whole >= m /\ whole >= q /\ y \in Nat
  BY <1>3, <1>4, ProductInNat
<1>6. Int53Max \in Nat /\ Int53Max > 9
  BY Int53MaxIs
<1>7. CASE m <= Int53Max /\ q <= Int53Max
  <2>1. y = whole
    BY <1>3, <1>4, <1>7 DEF Collected
  <2> QED
    BY <1>5, <1>6, <2>1
<1>8. CASE m <= Int53Max /\ q > Int53Max
  <2>1. x = m
    BY <1>8 DEF Collected
  <2>2. y >= power
    BY <1>3, <1>4, <2>1, ProductInNat
  <2> QED
    BY <1>3, <1>5, <1>6, <1>8, <2>2
<1>9. CASE m > Int53Max
  <2>1. x >= Int53Max
    BY <1>9 DEF Collected, Infinity
  <2>2. PICK e \in Nat : power = 2 + e
    <3>1. power - 2 \in Nat /\ power = 2 + (power - 2)
      BY <1>3
    <3> QED
      BY <3>1
  <2>3. y = 2 * x + e * x /\ e * x \in Nat
    BY <1>4, <2>2, ProductInNat
  <2> QED
    BY <1>5, <1>6, <1>9, <2>1, <2>3
<1> QED
  BY <1>3, <1>6, <1>7, <1>8, <1>9

\* What the digits make times the power of ten is a whole number or infinite,
\* and up to Int53Max if and only if the number is.
LEMMA ScaledWhole ==
    ASSUME NEW m \in Nat, NEW x \in Int, Collected(m, x),
           NEW k \in 0 .. MaxExponent,
           NEW whole, whole = m * (IF k > 0 THEN 10 ^ k ELSE 1),
           whole # Int53Max + 1
    PROVE  \E y \in Int :
               /\ y \in Nat \/ y = Infinity
               /\ Scaled(x, k) = Units(y)
               /\ whole \in Nat
               /\ whole <= Int53Max => y = whole
               /\ whole > Int53Max => y = Infinity \/ y > Int53Max
<1>1. /\ MinExponent \in Int /\ MaxExponent \in Nat /\ MinExponent < 0
      /\ Int53Max \in Nat /\ Int53Max > 9
  BY DoubleAssumption, Int53MaxIs
<1>2. Infinity \in Int /\ Infinity < 0
  BY DEF Infinity
<1>3. x \in Nat \/ (x = Infinity /\ m > Int53Max)
  BY <1>1 DEF Collected
<1>4. CASE k = 0
  <2>1. Scaled(x, k) = Units(x) /\ whole = m
    <3>1. /\ ~(k > MaxExponent) /\ ~(k < MinExponent)
          /\ k \notin 1 .. MaxExponent /\ k \notin MinExponent .. -1
      BY <1>1, <1>4
    <3> QED
      BY <1>4, <3>1 DEF Scaled
  <2> QED
    BY <1>1, <1>2, <1>3, <2>1 DEF Collected
<1>5. CASE k # 0 /\ x = 0
  <2>1. Scaled(x, k) = Units(0)
    BY <1>5 DEF Scaled
  <2>2. m = 0
    BY <1>1, <1>5, <1>2 DEF Collected
  <2>3. whole = 0
    <3>1. 10 ^ k \in Nat
      BY <1>5, PowerOfTenIs
    <3> QED
      BY <1>5, <2>2, <3>1
  <2> QED
    BY <1>1, <2>1, <2>3
<1>6. CASE k # 0 /\ x # 0
  <2>1. /\ k \in 1 .. MaxExponent /\ ~(k > MaxExponent) /\ ~(k < MinExponent)
        /\ k \notin MinExponent .. -1
    BY <1>1, <1>6
  <2>2. Scaled(x, k) = IF x = Infinity THEN Infinity
                       ELSE Units(Whole(x * PowerOfTen(k)))
    BY <1>6, <2>1 DEF Scaled
  <2>3. whole = m * (10 ^ k)
    BY <2>1
  <2>4. m > 0
    BY <1>1, <1>3, <1>6 DEF Collected
  <2>5. CASE x = Infinity
    <3>1. Scaled(x, k) = Units(Infinity)
      BY <2>2, <2>5 DEF Units
    <3>2. 10 ^ k \in Nat /\ 10 ^ k >= 2
      BY <2>1, PowerOfTenIs
    <3>3. whole \in Nat /\ whole >= m
      BY <2>3, <2>4, <3>2, ProductInNat
    <3> QED
      BY <1>1, <1>2, <1>3, <2>5, <3>1, <3>3
  <2>6. CASE x \in Nat
    <3>1. PICK n : n = x * PowerOfTen(k)
      OBVIOUS
    <3>2. /\ whole \in Nat /\ n \in Nat
          /\ whole <= Int53Max => n = whole
          /\ whole > Int53Max => n >= Int53Max + 2
      BY <2>1, <2>3, <2>4, <2>6, <3>1, ProductCollected
    <3>3. Collected(n, Whole(n)) /\ (Whole(n) = Infinity \/ Whole(n) \in Nat)
      BY <3>2, WholeIs
    <3>4. Scaled(x, k) = Units(Whole(n))
      BY <1>2, <2>2, <2>6, <3>1
    <3>5. PICK y : y = Whole(n)
      OBVIOUS
    <3>6. /\ y \in Int /\ (y \in Nat \/ y = Infinity)
          /\ n <= Int53Max => y = n
          /\ n > Int53Max + 1 => y = Infinity \/ y >= Int53Max + 2
      BY <1>2, <3>3, <3>5 DEF Collected
    <3>7. /\ whole <= Int53Max => y = whole
          /\ whole > Int53Max => y = Infinity \/ y > Int53Max
      BY <1>1, <3>2, <3>6
    <3> QED
      BY <3>2, <3>4, <3>5, <3>6, <3>7
  <2> QED
    BY <1>3, <2>5, <2>6
<1> QED
  BY <1>4, <1>5, <1>6

\* For every text whose fractions are not too long: of the numbers without a
\* negative power of ten get_int53_value takes those up to Int53Max, however they
\* are written, and gives the number that is written; it refuses all others, but
\* for Int53Max + 1, of which nothing is said.
THEOREM Int53IsRight == Spec => []Int53Exact
<1>1. ASSUME TextInv, MeaningInv PROVE Int53Exact
  <2>1. ASSUME NEW k \in {j \in DOMAIN values :
                              values[j].type \in {"integer", "double"}},
               NEW v, v = values[k], NEW w, w = document.denotes[k],
               NEW whole,
               whole = w.mantissa * (IF w.power > 0 THEN 10 ^ w.power ELSE 1),
               NEW got, got = get_int53_value(v),
               w.power \in 0 .. MaxExponent, FewFractionDigits(w),
               whole # Int53Max + 1
        PROVE  /\ got.fits <=> whole <= Int53Max
               /\ got.fits => got.out = IF w.negative THEN -whole ELSE whole
    <3>1. ValueMeans(input, Bound, v, w) /\ v.type \in {"integer", "double"}
      BY <1>1, <2>1, ValuesDenoted
    <3>2. CASE v.type = "integer"
      <4>1. /\ FitsInt(w) /\ w.mantissa \in Nat /\ w.power = 0
            /\ v.number = IF w.negative THEN -w.mantissa ELSE w.mantissa
        BY <3>1, <3>2 DEF ValueMeans, Literals
      <4>2. whole = w.mantissa /\ w.mantissa <= Int53Max
        <5>1. w.mantissa <= IntMax + 1
          BY <4>1, Int53MaxIs DEF FitsInt
        <5>2. whole = w.mantissa * 1
          BY <2>1, <4>1
        <5> QED
          BY <4>1, <5>1, <5>2, Int53MaxIs
      <4>3. got = [fits |-> TRUE, out |-> v.number]
        BY <2>1, <3>2 DEF get_int53_value
      <4> QED
        BY <4>1, <4>2, <4>3
    <3>3. CASE v.type = "double"
      <4>1. /\ w.mantissa \in Nat /\ v = Double(v.negative, v.units)
            /\ DoubleMeans(v, w)
        BY <3>1, <3>3 DEF ValueMeans, Literals
      <4>2. v.negative = w.negative
        BY <4>1 DEF DoubleMeans
      <4>3. PICK x \in Int : /\ Collected(w.mantissa, x)
                             /\ v.units = Scaled(x, w.power)
        BY <2>1, <4>1 DEF DoubleMeans
      <4>4. PICK y \in Int :
                /\ y \in Nat \/ y = Infinity
                /\ Scaled(x, w.power) = Units(y)
                /\ whole \in Nat
                /\ whole <= Int53Max => y = whole
                /\ whole > Int53Max => y = Infinity \/ y > Int53Max
        BY <2>1, <4>1, <4>3, ScaledWhole
      <4>5. got = get_int53_value(Double(v.negative, Units(y)))
        BY <2>1, <4>1, <4>3, <4>4
      <4>6. /\ got.fits <=> y \in Nat /\ y <= Int53Max
            /\ got.fits => got.out = IF v.negative THEN -y ELSE y
        BY <4>4, <4>5, Int53OfDouble
      <4>7. Int53Max \in Nat /\ Infinity < 0
        BY Int53MaxIs DEF Infinity
      <4> QED
        BY <4>2, <4>4, <4>6, <4>7
    <3> QED
      BY <3>1, <3>2, <3>3
  <2> QED
    BY <2>1 DEF Int53Exact
<1> QED
  BY <1>1, MeaningInvariant, PTL

\* Where the text can be read no further.
LEMMA ReadingEnds ==
    ASSUME PlaceInv, TextInv, NEW s, Matches(s), pc \in {"done", "failed"}
    PROVE  /\ After(original, input_end, s) = s
           /\ pc = "done" => IsArray(original, input_end, s)
           /\ pc = "failed" => ~IsArray(original, input_end, s)
<1>1. CASE pc = "failed"
  BY <1>1 DEF Matches, FailureMatches
<1>2. CASE pc = "done"
  <2>1. s.place = "end" /\ Gap(s.at, p) /\ p = input_end
    BY <1>2 DEF Matches, Agrees, StringPlaces, TokenMatches
  <2>2. s.at \in Nat /\ input_end \in Nat /\ input_end \in s.at .. input_end
        /\ \A i \in s.at .. input_end - 1 : original[i] \in Blank
    BY <2>1, TextIs DEF Gap
  <2>3. Token(original, input_end, s.at) = input_end
    BY <2>2, TokenIs
  <2> QED
    BY <1>2, <2>1, <2>3, AfterIs DEF IsArray
<1> QED
  BY <1>1, <1>2

\* For every text without a nested array or object: it is rejected only if it is
\* no JSON, and accepted with every value in it only if it is JSON but for
\* sequences of bytes that are no UTF-8, which the decoder lets pass.
THEOREM VerdictIsRight == Spec => []Verdict
<1>1. ASSUME PlaceInv, TextInv, MeaningInv, pc \in {"done", "failed"}
      PROVE  Verdict
  <2>1. PICK k \in Nat : \E s \in {Reading_(k)} : Matches(s)
    BY <1>1 DEF MeaningInv
  <2>2. PICK s : s = Reading_(k) /\ Matches(s)
    BY <2>1
  <2>3. /\ After(original, input_end, s) = s
        /\ pc = "done" => IsArray(original, input_end, s)
        /\ pc = "failed" => ~IsArray(original, input_end, s)
    BY <1>1, <2>2, ReadingEnds
  <2>4. /\ document.denotes = s.says
        /\ document.wrong = {} <=> IsJson(original, input_end, s)
        /\ s.lax => document.lax
    BY <1>1, <2>2, <2>3, ReadSoFar
  <2>5. Len(values) = Len(s.says)
    BY <2>2 DEF Matches, ValuesMean
  <2> QED
    BY <2>3, <2>4, <2>5 DEF Verdict, IsJson
<1>2. PlaceInv /\ TextInv /\ MeaningInv => Verdict
  BY <1>1 DEF Verdict
<1> QED
  BY <1>2, MeaningInvariant, PTL

-----------------------------------------------------------------------------
(***************************************************************************)
(* Lines and columns.                                                      *)
(***************************************************************************)
\* Two texts with the same line breaks before an offset.
Breaking(x, t, at) ==
    \A i \in 0 .. at - 1 :
        /\ (x[i] = LineFeed) = (t[i] = LineFeed)
        /\ (x[i] = CarriageReturn) = (t[i] = CarriageReturn)

\* The lines of a text that begin after a line break, and those breaks.
Begun(t, at) ==
    {i \in 1 .. at : \/ t[i - 1] = LineFeed
                     \/ t[i - 1] = CarriageReturn /\ (i < at => t[i] # LineFeed)}
Ended(t, at) == {i \in 0 .. at - 1 : BreaksLine(t, i)}

\* The break at i, and the beginning of the line that follows it.
LineAfter(t, at, i) ==
    IF t[i] = CarriageReturn /\ i + 1 < at /\ t[i + 1] = LineFeed
    THEN i + 2 ELSE i + 1

LEMMA LineAfterBreak ==
    ASSUME NEW t, NEW at \in Nat, NEW i \in Ended(t, at)
    PROVE  LineAfter(t, at, i) \in Begun(t, at)
<1>1. /\ i \in 0 .. at - 1
      /\ t[i] = CarriageReturn
         \/ (t[i] = LineFeed /\ ~(i > 0 /\ t[i - 1] = CarriageReturn))
  BY DEF Ended, BreaksLine
<1>2. CASE t[i] = CarriageReturn /\ i + 1 < at /\ t[i + 1] = LineFeed
  <2>1. PICK j : j = i + 2
    OBVIOUS
  <2>2. j \in 1 .. at /\ j - 1 = i + 1
    BY <1>1, <1>2, <2>1
  <2>3. j \in Begun(t, at)
    BY <1>2, <2>2 DEF Begun
  <2> QED
    BY <1>2, <2>1, <2>3 DEF LineAfter
<1>3. CASE ~(t[i] = CarriageReturn /\ i + 1 < at /\ t[i + 1] = LineFeed)
  <2>1. PICK j : j = i + 1
    OBVIOUS
  <2>2. j \in 1 .. at /\ j - 1 = i
    BY <1>1, <2>1
  <2>3. t[i] = CarriageReturn => (j < at => t[j] # LineFeed)
    BY <1>3, <2>1
  <2>4. j \in Begun(t, at)
    BY <1>1, <2>2, <2>3 DEF Begun
  <2> QED
    BY <1>3, <2>1, <2>4 DEF LineAfter
<1> QED
  BY <1>2, <1>3

\* Two breaks are not followed by the same line.
LEMMA LineAfterOnce ==
    ASSUME NEW t, NEW at \in Nat, NEW i \in Ended(t, at),
           NEW j \in Ended(t, at), LineAfter(t, at, i) = LineAfter(t, at, j)
    PROVE  i = j
<1>1. /\ i \in Nat /\ j \in Nat
      /\ t[i] = CarriageReturn
         \/ (t[i] = LineFeed /\ ~(i > 0 /\ t[i - 1] = CarriageReturn))
      /\ t[j] = CarriageReturn
         \/ (t[j] = LineFeed /\ ~(j > 0 /\ t[j - 1] = CarriageReturn))
  BY DEF Ended, BreaksLine
<1>2. LineFeed # CarriageReturn
  BY DEF LineFeed, CarriageReturn
<1>3. ASSUME NEW a \in Nat, NEW b \in Nat, a + 2 = b + 1,
             t[a] = CarriageReturn, t[a + 1] = LineFeed,
             t[b] = CarriageReturn
             \/ (t[b] = LineFeed /\ ~(b > 0 /\ t[b - 1] = CarriageReturn))
      PROVE  FALSE
  <2>1. b = a + 1 /\ b > 0 /\ b - 1 = a
    BY <1>3
  <2> QED
    BY <1>2, <1>3, <2>1
<1>4. \/ LineAfter(t, at, i) = i + 1
      \/ /\ LineAfter(t, at, i) = i + 2 /\ t[i] = CarriageReturn
         /\ t[i + 1] = LineFeed
  BY DEF LineAfter
<1>5. \/ LineAfter(t, at, j) = j + 1
      \/ /\ LineAfter(t, at, j) = j + 2 /\ t[j] = CarriageReturn
         /\ t[j + 1] = LineFeed
  BY DEF LineAfter
<1>6. CASE LineAfter(t, at, i) = i + 2 /\ LineAfter(t, at, j) = j + 1
           /\ t[i] = CarriageReturn /\ t[i + 1] = LineFeed
  BY <1>1, <1>3, <1>6
<1>7. CASE LineAfter(t, at, j) = j + 2 /\ LineAfter(t, at, i) = i + 1
           /\ t[j] = CarriageReturn /\ t[j + 1] = LineFeed
  BY <1>1, <1>3, <1>7
<1>8. CASE LineAfter(t, at, i) = i + 1 /\ LineAfter(t, at, j) = j + 1
  <2>1. i + 1 = j + 1
    BY <1>8
  <2> QED
    BY <1>1, <2>1
<1>9. CASE LineAfter(t, at, i) = i + 2 /\ LineAfter(t, at, j) = j + 2
  <2>1. i + 2 = j + 2
    BY <1>9
  <2> QED
    BY <1>1, <2>1
<1> QED
  BY <1>4, <1>5, <1>6, <1>7, <1>8, <1>9

\* Every line but the first follows a break.
LEMMA LineHasBreak ==
    ASSUME NEW t, NEW at \in Nat, NEW j \in Begun(t, at)
    PROVE  \E i \in Ended(t, at) : LineAfter(t, at, i) = j
<1>1. /\ j \in 1 .. at
      /\ t[j - 1] = LineFeed
         \/ (t[j - 1] = CarriageReturn /\ (j < at => t[j] # LineFeed))
  BY DEF Begun
<1>2. LineFeed # CarriageReturn
  BY DEF LineFeed, CarriageReturn
<1>3. PICK i : i = j - 1
  OBVIOUS
<1>4. i \in 0 .. at - 1 /\ i + 1 = j
  BY <1>1, <1>3
<1>5. CASE t[i] = LineFeed /\ i > 0 /\ t[i - 1] = CarriageReturn
  <2>1. PICK h : h = i - 1
    OBVIOUS
  <2>2. h \in 0 .. at - 1 /\ h + 1 = i /\ h + 2 = j /\ h + 1 < at
    BY <1>4, <1>5, <2>1
  <2>3. h \in Ended(t, at)
    BY <1>5, <2>1, <2>2 DEF Ended, BreaksLine
  <2>4. LineAfter(t, at, h) = j
    BY <1>5, <2>1, <2>2 DEF LineAfter
  <2> QED
    BY <2>3, <2>4
<1>6. CASE t[i] = LineFeed /\ ~(i > 0 /\ t[i - 1] = CarriageReturn)
  <2>1. i \in Ended(t, at)
    BY <1>4, <1>6 DEF Ended, BreaksLine
  <2>2. LineAfter(t, at, i) = j
    BY <1>2, <1>4, <1>6 DEF LineAfter
  <2> QED
    BY <2>1, <2>2
<1>7. CASE t[i] = CarriageReturn /\ (j < at => t[j] # LineFeed)
  <2>1. i \in Ended(t, at)
    BY <1>4, <1>7 DEF Ended, BreaksLine
  <2>2. LineAfter(t, at, i) = j
    BY <1>4, <1>7 DEF LineAfter
  <2> QED
    BY <2>1, <2>2
<1> QED
  BY <1>1, <1>3, <1>5, <1>6, <1>7

\* So there are as many of the one as of the other.
LEMMA LinesCounted ==
    ASSUME NEW t, NEW at \in Nat
    PROVE  /\ IsFiniteSet(Begun(t, at)) /\ IsFiniteSet(Ended(t, at))
           /\ Cardinality(Begun(t, at)) = Cardinality(Ended(t, at))
<1>1. IsFiniteSet(Ended(t, at))
  <2>1. IsFiniteSet(0 .. at - 1)
    BY FS_Interval
  <2>2. Ended(t, at) \in SUBSET (0 .. at - 1)
    BY DEF Ended
  <2> QED
    BY <2>1, <2>2, FS_Subset
<1>2. PICK S : S = Ended(t, at)
  OBVIOUS
<1>3. PICK T : T = Begun(t, at)
  OBVIOUS
<1>4. PICK f : f = [i \in S |-> LineAfter(t, at, i)]
  OBVIOUS
<1>5. \A i \in S : f[i] = LineAfter(t, at, i)
  BY <1>4
<1>6. f \in [S -> T]
  <2>1. \A i \in S : LineAfter(t, at, i) \in T
    BY <1>2, <1>3, LineAfterBreak
  <2> QED
    BY <1>4, <2>1
<1>7. \A a, b \in S : f[a] = f[b] => a = b
  BY <1>2, <1>5, LineAfterOnce
<1>8. \A j \in T : \E i \in S : f[i] = j
  BY <1>2, <1>3, <1>5, LineHasBreak
<1>9. f \in Bijection(S, T)
  BY <1>6, <1>7, <1>8, Fun_IsBij
<1>10. ExistsBijection(S, T)
  BY <1>9, Fun_ExistsBij
<1> QED
  BY <1>1, <1>2, <1>3, <1>10, FS_Bijection

LEMMA LineIs ==
    ASSUME NEW x, NEW t, NEW at \in Nat, Breaking(x, t, at)
    PROVE  LineOf(x, at) = Cardinality(LineStarts(t, at))
<1>1. ASSUME NEW i \in 0 .. at - 1
      PROVE  BreaksLine(x, i) <=> BreaksLine(t, i)
  <2>1. i > 0 => i - 1 \in 0 .. at - 1
    OBVIOUS
  <2> QED
    BY <2>1 DEF BreaksLine, Breaking
<1>2. {i \in 0 .. at - 1 : BreaksLine(x, i)} = Ended(t, at)
  BY <1>1 DEF Ended
<1>3. LineStarts(t, at) = Begun(t, at) \cup {0}
  BY DEF LineStarts, Begun
<1>4. 0 \notin Begun(t, at)
  BY DEF Begun
<1>5. /\ IsFiniteSet(Begun(t, at)) /\ IsFiniteSet(Ended(t, at))
      /\ Cardinality(Begun(t, at)) = Cardinality(Ended(t, at))
  BY LinesCounted
<1>6. Cardinality(LineStarts(t, at)) = Cardinality(Begun(t, at)) + 1
  BY <1>3, <1>4, <1>5, FS_AddElement
<1>7. Cardinality(Ended(t, at)) \in Nat
  BY <1>5, FS_CardinalityType
<1>8. LineOf(x, at) = 1 + Cardinality(Ended(t, at))
  BY <1>2 DEF LineOf
<1> QED
  BY <1>5, <1>6, <1>7, <1>8

\* The greatest of a set.
LEMMA MaxIs ==
    ASSUME NEW T, T \subseteq Int, NEW m \in T, \A i \in T : i <= m
    PROVE  Max(T) = m
<1>1. PICK x : x = CHOOSE e \in T : \A i \in T : e >= i
  OBVIOUS
<1>2. x \in T /\ \A i \in T : x >= i
  <2>1. \E e \in T : \A i \in T : e >= i
    <3>1. \A i \in T : m >= i
      OBVIOUS
    <3> QED
      BY <3>1
  <2> QED
    BY <1>1, <2>1
<1>3. x >= m /\ x <= m
  BY <1>2
<1>4. x = m
  BY <1>2, <1>3
<1> QED
  BY <1>1, <1>4 DEF Max

\* The last line break before an offset, or none.
LEMMA LastBreak ==
    ASSUME NEW T, NEW at \in Nat, T \subseteq 0 .. at - 1
    PROVE  \E m \in {-1} \cup T : \A i \in {-1} \cup T : i <= m
<1>1. PICK U : U = {-1} \cup T
  OBVIOUS
<1>2. U \subseteq -1 .. at - 1 /\ -1 \in U
  BY <1>1
<1>3. PICK D : D = {n \in Nat : at - n \in U}
  OBVIOUS
<1>4. at + 1 \in D
  <2>1. at - (at + 1) = -1 /\ at + 1 \in Nat
    OBVIOUS
  <2> QED
    BY <1>2, <1>3, <2>1
<1>5. PICK n \in D : \A l \in D : n <= l
  <2>1. D \in SUBSET Nat /\ D # {}
    BY <1>3, <1>4
  <2> QED
    BY <2>1, LeastElement
<1>6. n \in Nat /\ at - n \in U
  BY <1>3, <1>5
<1>7. PICK m : m = at - n
  OBVIOUS
<1>8. m \in U /\ m \in Int
  BY <1>6, <1>7
<1>9. ASSUME NEW i \in U PROVE i <= m
  <2>1. PICK l : l = at - i
    OBVIOUS
  <2>2. i \in -1 .. at - 1
    BY <1>2, <1>9
  <2>3. l \in Nat /\ at - l = i
    BY <2>1, <2>2
  <2>4. l \in D
    BY <1>3, <1>9, <2>3
  <2>5. n <= l
    BY <1>5, <2>4
  <2> QED
    BY <1>6, <1>7, <2>1, <2>2, <2>5
<1> QED
  BY <1>1, <1>8, <1>9

LEMMA ColumnIs ==
    ASSUME NEW x, NEW t, NEW at \in Nat, Breaking(x, t, at)
    PROVE  ColumnOf(x, at) = 1 + at - Max(LineStarts(t, at))
<1>1. PICK T : T = {i \in 0 .. at - 1 : t[i] \in {CarriageReturn, LineFeed}}
  OBVIOUS
<1>2. {i \in 0 .. at - 1 : x[i] \in {CarriageReturn, LineFeed}} = T
  BY <1>1 DEF Breaking
<1>3. PICK U : U = {-1} \cup T
  OBVIOUS
<1>4. T \subseteq 0 .. at - 1 /\ U \subseteq Int
  BY <1>1, <1>3
<1>5. PICK m \in U : \A i \in U : i <= m
  BY <1>3, <1>4, LastBreak
<1>6. Max(U) = m
  BY <1>4, <1>5, MaxIs
<1>7. ColumnOf(x, at) = at - m
  BY <1>2, <1>3, <1>6 DEF ColumnOf
<1>8. m \in Int /\ (m = -1 \/ (m \in 0 .. at - 1 /\ t[m] \in {CarriageReturn, LineFeed}))
  BY <1>1, <1>3, <1>5
<1>9. PICK n : n = m + 1
  OBVIOUS
<1>10. n \in LineStarts(t, at)
  <2>1. CASE m = -1
    BY <1>9, <2>1 DEF LineStarts
  <2>2. CASE m \in 0 .. at - 1 /\ t[m] \in {CarriageReturn, LineFeed}
    <3>1. n \in 1 .. at /\ n - 1 = m
      BY <1>9, <2>2
    <3>2. n < at => t[n] # LineFeed
      <4>1. ASSUME n < at, t[n] = LineFeed PROVE FALSE
        <5>1. n \in 0 .. at - 1
          BY <3>1, <4>1
        <5>2. n \in U
          BY <1>1, <1>3, <4>1, <5>1
        <5>3. n <= m
          BY <1>5, <5>2
        <5> QED
          BY <1>8, <1>9, <5>3
      <4> QED
        BY <4>1
    <3> QED
      BY <2>2, <3>1, <3>2 DEF LineStarts
  <2> QED
    BY <1>8, <2>1, <2>2
<1>11. ASSUME NEW i \in LineStarts(t, at) PROVE i <= n
  <2>1. CASE i = 0
    BY <1>8, <1>9, <2>1
  <2>2. CASE i # 0
    <3>1. i \in 1 .. at /\ t[i - 1] \in {CarriageReturn, LineFeed}
      BY <1>11, <2>2 DEF LineStarts
    <3>2. PICK h : h = i - 1
      OBVIOUS
    <3>3. h \in 0 .. at - 1 /\ h + 1 = i
      BY <3>1, <3>2
    <3>4. h \in U
      BY <1>1, <1>3, <3>1, <3>2, <3>3
    <3>5. h <= m
      BY <1>5, <3>4
    <3> QED
      BY <1>8, <1>9, <3>3, <3>5
  <2> QED
    BY <2>1, <2>2
<1>12. LineStarts(t, at) \subseteq Int
  BY DEF LineStarts
<1>13. Max(LineStarts(t, at)) = n
  BY <1>10, <1>11, <1>12, MaxIs
<1> QED
  BY <1>7, <1>8, <1>9, <1>13

\* For every text in which no escape stands for a line break: the line and the
\* column of an error are those, in the text as it was handed over, of a place
\* at which it is wrong.
THEOREM ErrorsAreLocated == Spec => []ErrorLocated
<1>1. ASSUME PlaceInv, TextInv, MeaningInv, pc = "failed", ~document.breaks
      PROVE  LocatedInText
  <2>1. PICK k \in Nat : \E s \in {Reading_(k)} : Matches(s)
    BY <1>1 DEF MeaningInv
  <2>2. PICK s : s = Reading_(k) /\ Matches(s)
    BY <2>1
  <2>3. /\ After(original, input_end, s) = s
        /\ ~IsArray(original, input_end, s)
        /\ \E at \in Offends(original, input_end, s) :
              /\ at \in 0 .. input_end
              /\ error.line = LineOf(input, at)
              /\ error.column = ColumnOf(input, at)
    BY <1>1, <2>2 DEF Matches, FailureMatches
  <2>4. /\ Offends(original, input_end, s) \subseteq document.wrong
        /\ s.breaks => document.breaks
    BY <1>1, <2>2, <2>3, ReadSoFar
  <2>5. PICK at \in document.wrong :
              /\ at \in 0 .. input_end
              /\ error.line = LineOf(input, at)
              /\ error.column = ColumnOf(input, at)
    BY <2>3, <2>4
  <2>6. SameBreaks
    BY <1>1, <2>2, <2>4 DEF Matches
  <2>7. at \in Nat /\ Breaking(input, original, at)
    BY <1>1, <2>5, <2>6, TextIs DEF SameBreaks, Breaking
  <2>8. /\ error.line = Cardinality(LineStarts(original, at))
        /\ error.column = 1 + at - Max(LineStarts(original, at))
    BY <2>5, <2>7, LineIs, ColumnIs
  <2> QED
    BY <2>8 DEF LocatedInText
<1>2. PlaceInv /\ TextInv /\ MeaningInv => ErrorLocated
  BY <1>1 DEF ErrorLocated
<1> QED
  BY <1>2, MeaningInvariant, PTL
=============================================================================
