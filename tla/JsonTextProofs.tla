--------------------------- MODULE JsonTextProofs ---------------------------
(***************************************************************************)
(* Reading a text comes to an end, says ever more, and does not depend on  *)
(* when it is looked at: what ValueMeaningProofs needs of JsonText.  It is *)
(* no theorem about the code.                                              *)
(***************************************************************************)
EXTENDS JsonText, SequenceTheorems, WellFoundedInduction, TLAPS

-----------------------------------------------------------------------------
(***************************************************************************)
(* Induction, over sets in place of predicates.                            *)
(***************************************************************************)
LEMMA LeastElement ==
    ASSUME NEW T \in SUBSET Nat, T # {}
    PROVE  \E m \in T : \A n \in T : m <= n
<1>1. PICK m \in T : \A y \in T : ~(<<y, m>> \in OpToRel(<, Nat))
  BY NatLessThanWellFounded, WFMin
<1>2. \A y \in T : ~(y < m)
  <2>1. \A x, y \in Nat : <<x, y>> \in OpToRel(<, Nat) <=> x < y
    BY DEF OpToRel
  <2> QED BY <1>1, <2>1, Zenon
<1> QED
  BY <1>2

LEMMA SetInduction ==
    ASSUME NEW T, 0 \in T, \A n \in Nat : n \in T => n + 1 \in T
    PROVE  Nat \subseteq T
<1> SUFFICES ASSUME Nat \ T # {} PROVE FALSE
  OBVIOUS
<1>1. PICK m \in Nat \ T : \A n \in Nat \ T : m <= n
  BY LeastElement
<1>2. m # 0 /\ m - 1 \in Nat /\ m - 1 \in T
  BY <1>1
<1> QED
  BY <1>1, <1>2

-----------------------------------------------------------------------------
(***************************************************************************)
(* Lists, whatever is in them.                                             *)
(***************************************************************************)
IsList(s) == Len(s) \in Nat /\ s = [i \in 1 .. Len(s) |-> s[i]]

LEMMA ListInSeq ==
    ASSUME NEW s, IsList(s), NEW S, \A i \in 1 .. Len(s) : s[i] \in S
    PROVE  s \in Seq(S)
<1>1. s \in [1 .. Len(s) -> S] /\ Len(s) \in Nat
  BY DEF IsList
<1> QED
  BY <1>1

LEMMA SeqIsList ==
    ASSUME NEW S, NEW s \in Seq(S)
    PROVE  IsList(s)
BY DEF IsList

\* A function on 1 .. n is a list of n.
LEMMA FunctionIsList ==
    ASSUME NEW n \in Nat, NEW s, s = [i \in 1 .. n |-> s[i]]
    PROVE  IsList(s) /\ Len(s) = n
<1> DEFINE S == {s[i] : i \in 1 .. n}
<1>1. s \in [1 .. n -> S]
  OBVIOUS
<1>2. s \in Seq(S)
  <2> HIDE DEF S
  <2> QED
    BY <1>1
<1>3. DOMAIN s = 1 .. Len(s) /\ Len(s) \in Nat
  BY <1>2, LenProperties
<1>4. 1 .. Len(s) = 1 .. n
  BY <1>1, <1>3
<1>5. Len(s) = n
  BY <1>3, <1>4
<1> QED
  BY <1>3, <1>5 DEF IsList

LEMMA AppendToList ==
    ASSUME NEW s, IsList(s), NEW e
    PROVE  /\ IsList(Append(s, e))
           /\ Len(Append(s, e)) = Len(s) + 1
           /\ \A i \in 1 .. Len(s) : Append(s, e)[i] = s[i]
           /\ Append(s, e)[Len(s) + 1] = e
<1> DEFINE S == {s[i] : i \in 1 .. Len(s)} \cup {e}
<1>1. s \in Seq(S) /\ e \in S
  BY ListInSeq
<1> HIDE DEF S
<1>2. Append(s, e) \in Seq(S)
  BY <1>1
<1>3. Len(s) \in Nat /\ Len(Append(s, e)) = Len(s) + 1
  BY <1>1
<1>4. IsList(Append(s, e))
  BY <1>2, SeqIsList
<1> QED
  BY <1>1, <1>3, <1>4, AppendProperties

LEMMA ConcatLists ==
    ASSUME NEW a, NEW b, IsList(a), IsList(b)
    PROVE  /\ IsList(a \o b)
           /\ Len(a \o b) = Len(a) + Len(b)
           /\ \A i \in 1 .. Len(a) : (a \o b)[i] = a[i]
           /\ \A i \in 1 .. Len(b) : (a \o b)[Len(a) + i] = b[i]
<1> DEFINE S == {a[i] : i \in 1 .. Len(a)} \cup {b[i] : i \in 1 .. Len(b)}
<1>1. a \in Seq(S) /\ b \in Seq(S)
  BY ListInSeq
<1> HIDE DEF S
<1>2. /\ a \o b \in Seq(S)
      /\ Len(a) \in Nat /\ Len(b) \in Nat
      /\ Len(a \o b) = Len(a) + Len(b)
  BY <1>1, ConcatProperties
<1>3. IsList(a \o b)
  BY <1>2, SeqIsList
<1>4. \A i \in 1 .. Len(a) + Len(b) :
          (a \o b)[i] = IF i <= Len(a) THEN a[i] ELSE b[i - Len(a)]
  BY <1>1, ConcatProperties
<1> QED
  BY <1>2, <1>3, <1>4

\* Two lists are the same if they have the same elements.
LEMMA SameLists ==
    ASSUME NEW a, NEW b, IsList(a), IsList(b), Len(a) = Len(b),
           \A i \in 1 .. Len(a) : a[i] = b[i]
    PROVE  a = b
BY DEF IsList

LEMMA SliceIsList ==
    ASSUME NEW t, NEW from \in Nat, NEW to \in Nat, from <= to
    PROVE  /\ IsList(Slice(t, from, to)) /\ Len(Slice(t, from, to)) = to - from
           /\ \A k \in 1 .. to - from : Slice(t, from, to)[k] = t[from + k - 1]
<1> DEFINE s == Slice(t, from, to)
<1>1. s = [k \in 1 .. to - from |-> s[k]] /\ to - from \in Nat
  BY DEF Slice
<1>2. \A k \in 1 .. to - from : s[k] = t[from + k - 1]
  BY DEF Slice
<1> HIDE DEF s
<1>3. IsList(s) /\ Len(s) = to - from
  BY <1>1, FunctionIsList
<1> QED
  BY <1>2, <1>3 DEF s

\* One slice after another, and a slice of one byte.
LEMMA SlicesJoin ==
    ASSUME NEW t, NEW a \in Nat, NEW b \in Nat, NEW c \in Nat, a <= b, b <= c
    PROVE  Slice(t, a, b) \o Slice(t, b, c) = Slice(t, a, c)
<1>1. PICK x : x = Slice(t, a, b)
  OBVIOUS
<1>2. PICK y : y = Slice(t, b, c)
  OBVIOUS
<1>3. PICK z : z = Slice(t, a, c)
  OBVIOUS
<1>0. a <= c /\ b - a \in Nat /\ c - b \in Nat /\ c - a \in Nat
  OBVIOUS
<1>4. /\ IsList(x) /\ Len(x) = b - a
      /\ \A k \in 1 .. b - a : x[k] = t[a + k - 1]
  BY <1>1, SliceIsList
<1>5. /\ IsList(y) /\ Len(y) = c - b
      /\ \A k \in 1 .. c - b : y[k] = t[b + k - 1]
  BY <1>2, SliceIsList
<1>6. /\ IsList(z) /\ Len(z) = c - a
      /\ \A k \in 1 .. c - a : z[k] = t[a + k - 1]
  <2>1. a <= c
    BY <1>0
  <2>2. /\ IsList(Slice(t, a, c)) /\ Len(Slice(t, a, c)) = c - a
        /\ \A k \in 1 .. c - a : Slice(t, a, c)[k] = t[a + k - 1]
    BY ONLY a \in Nat, c \in Nat, <2>1, SliceIsList
  <2> QED
    BY ONLY <1>3, <2>2
<1>7. /\ IsList(x \o y) /\ Len(x \o y) = Len(x) + Len(y)
      /\ \A i \in 1 .. Len(x) : (x \o y)[i] = x[i]
      /\ \A i \in 1 .. Len(y) : (x \o y)[Len(x) + i] = y[i]
  BY <1>4, <1>5, ConcatLists
<1>8. ASSUME NEW i \in 1 .. c - a PROVE (x \o y)[i] = z[i]
  <2>1. CASE i <= b - a
    <3>1. i \in 1 .. b - a /\ i \in 1 .. Len(x)
      BY <1>0, <1>4, <1>8, <2>1
    <3> QED
      BY <1>4, <1>6, <1>7, <1>8, <3>1
  <2>2. CASE i > b - a
    <3>1. PICK j \in 1 .. c - b : i = (b - a) + j
      <4>1. i - (b - a) \in 1 .. c - b /\ i = (b - a) + (i - (b - a))
        BY <2>2
      <4> QED
        BY <4>1
    <3>2. (x \o y)[i] = y[j]
      BY <1>4, <1>5, <1>7, <3>1
    <3>3. a + i - 1 = b + j - 1
      BY <3>1
    <3> QED
      BY <1>5, <1>6, <3>2, <3>3
  <2>3. i <= b - a \/ i > b - a
    BY <1>0
  <2> QED
    BY <2>1, <2>2, <2>3
<1>9. Len(x \o y) = Len(z) /\ Len(x \o y) = c - a
  BY <1>4, <1>5, <1>6, <1>7
<1>10. x \o y = z
  BY <1>6, <1>7, <1>8, <1>9, SameLists
<1> QED
  BY <1>1, <1>2, <1>3, <1>10

LEMMA SliceOfOne ==
    ASSUME NEW t, NEW i \in Nat
    PROVE  Slice(t, i, i + 1) = <<t[i]>>
<1>1. PICK x : x = Slice(t, i, i + 1)
  OBVIOUS
<1>2. PICK y : y = <<t[i]>>
  OBVIOUS
<1>3. IsList(x) /\ Len(x) = 1 /\ x[1] = t[i]
  <2>1. /\ IsList(x) /\ Len(x) = (i + 1) - i
        /\ \A k \in 1 .. (i + 1) - i : x[k] = t[i + k - 1]
    <3>1. i + 1 \in Nat /\ i <= i + 1
      OBVIOUS
    <3> QED
      BY <1>1, <3>1, SliceIsList
  <2>2. (i + 1) - i = 1 /\ i + 1 - 1 = i
    OBVIOUS
  <2> QED
    BY <2>1, <2>2
<1>4. IsList(y) /\ Len(y) = 1 /\ y[1] = t[i]
  BY <1>2 DEF IsList
<1>5. x = y
  BY <1>3, <1>4, SameLists
<1> QED
  BY <1>1, <1>2, <1>5

LEMMA SliceOfNone ==
    ASSUME NEW t, NEW i \in Nat
    PROVE  Slice(t, i, i) = <<>>
<1>1. PICK x : x = Slice(t, i, i)
  OBVIOUS
<1>2. IsList(x) /\ Len(x) = 0
  <2>1. i <= i /\ i - i = 0
    OBVIOUS
  <2> QED
    BY <1>1, <2>1, SliceIsList
<1>3. IsList(<<>>) /\ Len(<<>>) = 0
  BY DEF IsList
<1>4. x = <<>>
  BY <1>2, <1>3, SameLists
<1> QED
  BY <1>1, <1>4

\* The slices of two texts with the same bytes there.
LEMMA SameSlices ==
    ASSUME NEW s, NEW t, NEW a \in Nat, NEW b \in Nat, a <= b,
           \A i \in a .. b - 1 : s[i] = t[i]
    PROVE  Slice(s, a, b) = Slice(t, a, b)
<1>1. \A k \in 1 .. b - a : s[a + k - 1] = t[a + k - 1]
  OBVIOUS
<1> QED
  BY <1>1 DEF Slice

LEMMA EmptyList ==
    IsList(<<>>) /\ Len(<<>>) = 0
BY DEF IsList

-----------------------------------------------------------------------------
(***************************************************************************)
(* The equation of the recursive function Readings.                        *)
(***************************************************************************)
LEMMA ReadingsStep ==
    ASSUME NEW t, NEW n
    PROVE  /\ Readings(t, n)[0] = Beginning
           /\ \A k \in Nat :
                  Readings(t, n)[k + 1] = After(t, n, Readings(t, n)[k])
<1> DEFINE Next_(s) == After(t, n, s)
           Reads(f, S) ==
               f = [k \in S |-> IF k = 0 THEN Beginning ELSE Next_(f[k - 1])]
<1> HIDE DEF Next_
<1>1. \A m \in Nat : \E g : Reads(g, 0 .. m)
  <2> DEFINE T == {m \in Nat : \E g : Reads(g, 0 .. m)}
  <2>1. 0 \in T
    <3> DEFINE g == [k \in 0 .. 0 |-> Beginning]
    <3>1. Reads(g, 0 .. 0)
      OBVIOUS
    <3> QED
      BY <3>1
  <2>2. ASSUME NEW m \in T PROVE m + 1 \in T
    <3>1. PICK g : Reads(g, 0 .. m)
      OBVIOUS
    <3> DEFINE h == [k \in 0 .. m + 1 |-> IF k <= m THEN g[k] ELSE Next_(g[m])]
    <3>2. ASSUME NEW k \in 0 .. m + 1
          PROVE  h[k] = IF k = 0 THEN Beginning ELSE Next_(h[k - 1])
      <4>1. CASE k = 0
        BY <3>1, <4>1
      <4>2. CASE k > 0 /\ k <= m
        <5>1. k - 1 \in 0 .. m + 1 /\ k - 1 <= m /\ k \in 0 .. m
          BY <4>2
        <5>2. h[k] = g[k] /\ h[k - 1] = g[k - 1]
          BY <5>1, <4>2
        <5>3. g[k] = Next_(g[k - 1])
          BY <3>1, <5>1, <4>2
        <5> QED
          BY <5>2, <5>3, <4>2
      <4>3. CASE k = m + 1
        BY <4>3
      <4> QED
        BY <4>1, <4>2, <4>3
    <3>3. Reads(h, 0 .. m + 1)
      BY <3>2
    <3> HIDE DEF h, Reads
    <3> QED
      BY <3>3
  <2> HIDE DEF T
  <2>3. Nat \subseteq T
    BY <2>1, <2>2, SetInduction
  <2> QED
    BY <2>3 DEF T
<1>2. ASSUME NEW m \in Nat, NEW l \in Nat, NEW g, NEW h,
             Reads(g, 0 .. m), Reads(h, 0 .. l)
      PROVE  \A k \in Nat : k <= m /\ k <= l => g[k] = h[k]
  <2> DEFINE T == {k \in Nat : k <= m /\ k <= l => g[k] = h[k]}
  <2>1. 0 \in T
    BY <1>2
  <2>2. ASSUME NEW k \in Nat, k \in T PROVE k + 1 \in T
    <3>1. CASE k + 1 <= m /\ k + 1 <= l
      <4>1. g[k + 1] = Next_(g[k]) /\ h[k + 1] = Next_(h[k])
        BY <1>2, <3>1
      <4>2. g[k] = h[k]
        BY <2>2, <3>1
      <4> QED
        BY <4>1, <4>2
    <3> QED
      BY <3>1
  <2> HIDE DEF T
  <2>3. Nat \subseteq T
    BY <2>1, <2>2, SetInduction
  <2> QED
    BY <2>3 DEF T
<1> DEFINE part(k) == CHOOSE g : Reads(g, 0 .. k)
           whole == [k \in Nat |-> part(k)[k]]
<1>3. \A k \in Nat : Reads(part(k), 0 .. k)
  BY <1>1
<1> HIDE DEF part
<1>4. ASSUME NEW k \in Nat
      PROVE  whole[k] = IF k = 0 THEN Beginning ELSE Next_(whole[k - 1])
  <2>1. part(k)[k] = IF k = 0 THEN Beginning ELSE Next_(part(k)[k - 1])
    BY <1>3
  <2>2. ASSUME k > 0 PROVE part(k)[k - 1] = part(k - 1)[k - 1]
    <3>1. /\ k - 1 \in Nat /\ k - 1 <= k /\ k - 1 <= k - 1
          /\ Reads(part(k), 0 .. k) /\ Reads(part(k - 1), 0 .. k - 1)
      BY <1>3, <2>2
    <3> HIDE DEF Reads
    <3>2. \A j \in Nat : j <= k /\ j <= k - 1 => part(k)[j] = part(k - 1)[j]
      BY <1>2, <3>1
    <3> QED
      BY <3>1, <3>2
  <2> QED
    BY <2>1, <2>2
<1>5. Reads(whole, Nat)
  BY <1>4
<1>6. Readings(t, n) = CHOOSE f : Reads(f, Nat)
  BY DEF Readings, Next_
<1>7. Reads(Readings(t, n), Nat)
  BY <1>5, <1>6
<1> QED
  BY <1>7 DEF Next_

-----------------------------------------------------------------------------
(***************************************************************************)
(* Tokens.                                                                 *)
(***************************************************************************)
LEMMA TokenIs ==
    ASSUME NEW t, NEW n \in Nat, NEW at \in Nat, NEW q \in at .. n,
           \A i \in at .. q - 1 : t[i] \in Blank,
           q < n => t[q] \notin Blank
    PROVE  Token(t, n, at) = q
<1> DEFINE P(r) == /\ \A i \in at .. r - 1 : t[i] \in Blank
                   /\ r < n => t[r] \notin Blank
<1>1. P(q)
  OBVIOUS
<1>2. ASSUME NEW r \in at .. n, P(r) PROVE r = q
  <2>1. ~(r < q)
    BY <1>2
  <2>2. ~(q < r)
    BY <1>2
  <2> QED
    BY <2>1, <2>2
<1>3. Token(t, n, at) = CHOOSE r \in at .. n : P(r)
  BY DEF Token
<1> HIDE DEF P
<1> QED
  BY <1>1, <1>2, <1>3

LEMMA TokenExists ==
    ASSUME NEW t, NEW n \in Nat, NEW at \in 0 .. n
    PROVE  Token(t, n, at) \in at .. n
<1> DEFINE T == {q \in at .. n : q < n => t[q] \notin Blank}
<1>1. n \in T /\ T \in SUBSET Nat
  OBVIOUS
<1>2. PICK q \in T : \A r \in T : q <= r
  BY <1>1, LeastElement
<1>3. \A i \in at .. q - 1 : t[i] \in Blank
  BY <1>2
<1> QED
  BY <1>2, <1>3, TokenIs

LEMMA ByteInText ==
    ASSUME NEW t, NEW n \in Nat, NEW i, ByteAt(t, n, i) # NoByte
    PROVE  i \in 0 .. n - 1 /\ ByteAt(t, n, i) = t[i]
BY DEF ByteAt

-----------------------------------------------------------------------------
(***************************************************************************)
(* A step of reading: later, and with more to say.                         *)
(***************************************************************************)
Places ==
    {"text", "first", "value", "more", "end", "string"} \cup NumberPlaces

Rank(place) ==
    IF place = "more" THEN 2 ELSE IF place \in NumberPlaces THEN 1 ELSE 0

Proper(n, s) == s.at \in 0 .. n /\ s.place \in Places /\ IsList(s.says)

Extends(s, r) ==
    /\ Len(s.says) <= Len(r.says)
    /\ \A i \in 1 .. Len(s.says) : r.says[i] = s.says[i]

LEMMA ExtendsFurther ==
    ASSUME NEW r, NEW s, NEW v, Len(r.says) \in Nat, Len(s.says) \in Nat,
           Len(v.says) \in Nat, Extends(r, s), Extends(s, v)
    PROVE  Extends(r, v)
<1>1. Len(r.says) <= Len(v.says)
  BY DEF Extends
<1>2. ASSUME NEW i \in 1 .. Len(r.says) PROVE v.says[i] = r.says[i]
  BY DEF Extends
<1> QED
  BY <1>1, <1>2 DEF Extends

\* A step from s to r.
Further(n, s, r) ==
    /\ Proper(n, r)
    /\ Extends(s, r)
    /\ \/ r.at > s.at
       \/ r.at = s.at /\ Rank(r.place) > Rank(s.place)

LEMMA GoesFurther ==
    ASSUME NEW n \in Nat, NEW s, Proper(n, s), NEW r,
           r.says = s.says, r.at \in 0 .. n, r.place \in Places,
           \/ r.at > s.at
           \/ r.at = s.at /\ Rank(r.place) > Rank(s.place)
    PROVE  Further(n, s, r)
BY DEF Further, Proper, Extends, IsList

LEMMA PastIsFurther ==
    ASSUME NEW n \in Nat, NEW s, Proper(n, s), NEW q \in 0 .. n, NEW value,
           q > s.at \/ (q = s.at /\ s.place \in NumberPlaces)
    PROVE  Further(n, s, Past(s, q, value))
<1> DEFINE r == Past(s, q, value)
<1>1. /\ r.at = q /\ r.place = "more" /\ r.says = Append(s.says, value)
  BY DEF Past, Progress
<1> HIDE DEF r
<1>2. /\ IsList(r.says) /\ Len(r.says) = Len(s.says) + 1
      /\ \A i \in 1 .. Len(s.says) : r.says[i] = s.says[i]
      /\ Len(s.says) \in Nat
  BY <1>1, AppendToList DEF Proper, IsList
<1>3. s.place \in NumberPlaces => Rank(r.place) > Rank(s.place)
  BY <1>1 DEF Rank, NumberPlaces
<1>4. Proper(n, r) /\ Extends(s, r)
  BY <1>1, <1>2 DEF Proper, Extends, Places
<1> QED
  BY <1>1, <1>3, <1>4 DEF Further, r

LEMMA WordLength ==
    ASSUME NEW t, NEW n \in Nat, NEW i \in Nat,
           NEW word \in WordsAt(t, n, i)
    PROVE  Len(word.bytes) \in 4 .. 5 /\ i + Len(word.bytes) \in 0 .. n
<1>1. /\ Len(word.bytes) \in 4 .. 5 /\ DOMAIN word.bytes = 1 .. Len(word.bytes)
      /\ word.bytes[4] \in Nat
      /\ Len(word.bytes) = 5 => word.bytes[5] \in Nat
  <2>1. CASE word.bytes = <<110, 117, 108, 108>>
    BY <2>1
  <2>2. CASE word.bytes = <<102, 97, 108, 115, 101>>
    BY <2>2
  <2>3. CASE word.bytes = <<116, 114, 117, 101>>
    BY <2>3
  <2> QED
    BY <2>1, <2>2, <2>3 DEF Words, WordsAt
<1>2. ByteAt(t, n, i + Len(word.bytes) - 1) \in Nat
  <2>1. CASE Len(word.bytes) = 4
    <3>1. ByteAt(t, n, i + 4 - 1) = word.bytes[4]
      BY <1>1, <2>1 DEF WordsAt
    <3> QED
      BY <1>1, <2>1, <3>1
  <2>2. CASE Len(word.bytes) = 5
    <3>1. ByteAt(t, n, i + 5 - 1) = word.bytes[5]
      BY <1>1, <2>2 DEF WordsAt
    <3> QED
      BY <1>1, <2>2, <3>1
  <2> QED
    BY <1>1, <2>1, <2>2
<1>3. i + Len(word.bytes) - 1 \in 0 .. n - 1
  BY <1>2, ByteInText DEF NoByte
<1> QED
  BY <1>1, <1>3

\* The first byte of a word tells which it is.
LEMMA WordBegins ==
    ASSUME NEW t, NEW n \in Nat, NEW i \in Nat,
           NEW word \in WordsAt(t, n, i)
    PROVE  /\ ByteAt(t, n, i) \in {110, 102, 116}
           /\ WordsAt(t, n, i) = {word}
<1>1. ASSUME NEW w \in WordsAt(t, n, i)
      PROVE  ByteAt(t, n, i) = w.bytes[1]
  <2>1. 1 \in DOMAIN w.bytes
    BY DEF Words, WordsAt
  <2>2. ByteAt(t, n, i + 1 - 1) = w.bytes[1]
    BY <2>1 DEF WordsAt
  <2> QED
    BY <2>2
<1>2. \A w \in Words : w.bytes[1] \in {110, 102, 116}
  BY DEF Words
<1>3. \A v, w \in Words : v.bytes[1] = w.bytes[1] => v = w
  BY DEF Words
<1>4. WordsAt(t, n, i) \subseteq Words
  BY DEF WordsAt
<1> QED
  BY <1>1, <1>2, <1>3, <1>4

\* A step by what the token is.
LEMMA OpensArray ==
    ASSUME NEW t, NEW n, NEW s, NEW q, Token(t, n, s.at) = q,
           s.place = "text", ByteAt(t, n, q) = OpenBracket
    PROVE  AfterToken(t, n, s) = To(s, q + 1, "first")
BY DEF AfterToken

LEMMA ClosesArray ==
    ASSUME NEW t, NEW n, NEW s, NEW q, Token(t, n, s.at) = q,
           s.place \in {"first", "more"}, ByteAt(t, n, q) = CloseBracket
    PROVE  AfterToken(t, n, s) = To(s, q + 1, "end")
BY DEF AfterToken, CloseBracket, Comma

LEMMA GoesToNextValue ==
    ASSUME NEW t, NEW n, NEW s, NEW q, Token(t, n, s.at) = q,
           s.place = "more", ByteAt(t, n, q) = Comma
    PROVE  AfterToken(t, n, s) = To(s, q + 1, "value")
BY DEF AfterToken, CloseBracket, Comma

LEMMA BeginsValue ==
    ASSUME NEW t, NEW n, NEW s, NEW q, Token(t, n, s.at) = q,
           s.place \in {"first", "value"},
           s.place = "first" => ByteAt(t, n, q) # CloseBracket
    PROVE  AfterToken(t, n, s) = BeginValue(t, n, s, q)
BY DEF AfterToken

LEMMA StuckAtToken ==
    ASSUME NEW t, NEW n, NEW s, NEW q, Token(t, n, s.at) = q,
           \/ s.place = "text" /\ ByteAt(t, n, q) # OpenBracket
           \/ s.place = "more" /\ ByteAt(t, n, q) \notin {CloseBracket, Comma}
    PROVE  AfterToken(t, n, s) = s
BY DEF AfterToken

LEMMA NoWord ==
    ASSUME NEW t, NEW n \in Nat, NEW q \in Nat,
           ByteAt(t, n, q) \in {Quote, Minus} \cup Digits
    PROVE  WordsAt(t, n, q) = {}
BY WordBegins DEF Quote, Minus, Digits

LEMMA BeginsString ==
    ASSUME NEW t, NEW n \in Nat, NEW s, NEW q \in Nat, ByteAt(t, n, q) = Quote
    PROVE  BeginValue(t, n, s, q) = To(s, q + 1, "string")
BY NoWord DEF BeginValue, Quote, Minus, Digits

LEMMA BeginsMinus ==
    ASSUME NEW t, NEW n \in Nat, NEW s, NEW q \in Nat, ByteAt(t, n, q) = Minus
    PROVE  BeginValue(t, n, s, q) =
               Progress(q + 1, "integer", s.says, <<>>, NoDigits(TRUE), s.breaks,
                        s.lax)
<1>1. WordsAt(t, n, q) = {}
  BY NoWord
<1>2. ByteAt(t, n, q) # Quote /\ ByteAt(t, n, q) \notin Digits
  BY DEF Quote, Minus, Digits
<1> QED
  BY <1>1, <1>2 DEF BeginValue

LEMMA BeginsNumber ==
    ASSUME NEW t, NEW n \in Nat, NEW s, NEW q \in Nat, ByteAt(t, n, q) \in Digits
    PROVE  BeginValue(t, n, s, q) = To(s, q, "integer")
BY NoWord DEF BeginValue, Quote, Minus, Digits

LEMMA IsWord ==
    ASSUME NEW t, NEW n \in Nat, NEW s, NEW q \in Nat,
           NEW word \in WordsAt(t, n, q)
    PROVE  BeginValue(t, n, s, q) =
               Past(s, q + Len(word.bytes), [type |-> word.name])
<1>1. ByteAt(t, n, q) \notin {Quote, Minus} \cup Digits
  BY WordBegins DEF Quote, Minus, Digits
<1>2. (CHOOSE w \in WordsAt(t, n, q) : TRUE) = word
  BY WordBegins
<1>3. WordsAt(t, n, q) # {}
  OBVIOUS
<1> QED
  BY <1>1, <1>2, <1>3 DEF BeginValue

LEMMA IsNoValue ==
    ASSUME NEW t, NEW n, NEW s, NEW q,
           ByteAt(t, n, q) \notin {Quote, Minus} \cup Digits,
           WordsAt(t, n, q) = {}
    PROVE  BeginValue(t, n, s, q) = s
BY DEF BeginValue

LEMMA ValueFurther ==
    ASSUME NEW t, NEW n \in Nat, NEW s, Proper(n, s), NEW q \in s.at .. n,
           s.place \in {"first", "value"}
    PROVE  BeginValue(t, n, s, q) = s \/ Further(n, s, BeginValue(t, n, s, q))
<1>1. s.at \in 0 .. n /\ q \in Nat
  BY DEF Proper
<1>2. ByteAt(t, n, q) # NoByte => q + 1 \in s.at + 1 .. n
  BY <1>1, ByteInText
<1>3. CASE ByteAt(t, n, q) = Quote
  <2>1. Further(n, s, To(s, q + 1, "string"))
    BY <1>1, <1>2, <1>3, GoesFurther DEF To, Progress, Places, Quote, NoByte
  <2> QED
    BY <1>1, <1>3, <2>1, BeginsString
<1>4. CASE ByteAt(t, n, q) = Minus
  <2> DEFINE r == Progress(q + 1, "integer", s.says, <<>>, NoDigits(TRUE), s.breaks, s.lax)
  <2>1. r.at = q + 1 /\ r.place = "integer" /\ r.says = s.says
    BY DEF To, Progress
  <2>3. BeginValue(t, n, s, q) = r
    BY <1>1, <1>4, BeginsMinus
  <2> HIDE DEF r
  <2>2. Further(n, s, r)
    BY <1>1, <1>2, <1>4, <2>1, GoesFurther
       DEF Places, NumberPlaces, Minus, NoByte
  <2> QED
    BY <2>2, <2>3
<1>5. CASE ByteAt(t, n, q) \in Digits
  <2>1. Further(n, s, To(s, q, "integer"))
    BY <1>1, GoesFurther DEF To, Progress, Places, NumberPlaces, Rank
  <2> QED
    BY <1>1, <1>5, <2>1, BeginsNumber
<1>6. ASSUME NEW word \in WordsAt(t, n, q)
      PROVE  Further(n, s, BeginValue(t, n, s, q))
  <2>1. Len(word.bytes) \in 4 .. 5 /\ q + Len(word.bytes) \in 0 .. n
    BY <1>1, WordLength
  <2> DEFINE k == Len(word.bytes)
             r == q + k
  <2>2. r > s.at /\ r \in 0 .. n
    <3>1. k \in 4 .. 5 /\ q + k \in 0 .. n
      BY <2>1
    <3> HIDE DEF k
    <3> QED
      BY <1>1, <3>1
  <2> HIDE DEF r
  <2>3. Further(n, s, Past(s, r, [type |-> word.name]))
    BY <2>2, PastIsFurther
  <2> QED
    BY <1>1, <2>3, IsWord DEF r
<1> QED
  BY <1>3, <1>4, <1>5, <1>6, IsNoValue

LEMMA AfterTokenFurther ==
    ASSUME NEW t, NEW n \in Nat, NEW s, Proper(n, s),
           s.place \in {"text", "first", "value", "more"}
    PROVE  AfterToken(t, n, s) = s \/ Further(n, s, AfterToken(t, n, s))
<1>1. PICK q \in s.at .. n : Token(t, n, s.at) = q
  BY TokenExists DEF Proper
<1>2. s.at \in 0 .. n
  BY DEF Proper
<1>3. ASSUME ByteAt(t, n, q) # NoByte, NEW place \in Places
      PROVE  Further(n, s, To(s, q + 1, place))
  <2>1. q + 1 \in s.at + 1 .. n
    BY <1>1, <1>2, <1>3, ByteInText
  <2> QED
    BY <1>2, <2>1, GoesFurther DEF To, Progress
<1>4. CASE s.place = "text" /\ ByteAt(t, n, q) = OpenBracket
  BY <1>1, <1>3, <1>4, OpensArray DEF Places, OpenBracket, NoByte
<1>5. CASE s.place \in {"first", "more"} /\ ByteAt(t, n, q) = CloseBracket
  BY <1>1, <1>3, <1>5, ClosesArray DEF Places, CloseBracket, NoByte
<1>6. CASE s.place = "more" /\ ByteAt(t, n, q) = Comma
  BY <1>1, <1>3, <1>6, GoesToNextValue DEF Places, Comma, NoByte
<1>7. CASE /\ s.place \in {"first", "value"}
           /\ s.place = "first" => ByteAt(t, n, q) # CloseBracket
  BY <1>1, <1>7, BeginsValue, ValueFurther
<1> QED
  BY <1>1, <1>4, <1>5, <1>6, <1>7, StuckAtToken

-----------------------------------------------------------------------------
(***************************************************************************)
(* Characters, by the byte they begin with.                                *)
(***************************************************************************)
LEMMA EscapeBegins ==
    ASSUME NEW t, NEW n \in Nat, NEW i \in Nat, Escaped(t, n, i)
    PROVE  ByteAt(t, n, i) = Backslash /\ ByteAt(t, n, i + 1) = LetterU
<1>1. Fits(t, n, i, 0) /\ Fits(t, n, i, 1)
  BY DEF Escaped
<1>2. ByteAt(t, n, i + 0) = Backslash
  BY <1>1 DEF Fits, HexPlaces
<1>3. ByteAt(t, n, i + 1) = LetterU
  BY <1>1 DEF Fits, HexPlaces
<1> QED
  BY <1>2, <1>3

LEMMA PlainCharacter ==
    ASSUME NEW t, NEW n \in Nat, NEW i \in Nat, NEW c, ByteAt(t, n, i) = c,
           c \in (32 .. 127) \ {Quote, Backslash}
    PROVE  Character(t, n, i) = Char(1, <<c>>)
<1>1. ~Escaped(t, n, i)
  BY EscapeBegins DEF Backslash
<1>2. c \notin 128 .. 247 /\ c # Backslash
  BY DEF Backslash
<1> QED
  BY <1>1, <1>2 DEF Character

LEMMA SequenceCharacter ==
    ASSUME NEW t, NEW n \in Nat, NEW i \in Nat, ByteAt(t, n, i) \in 128 .. 247,
           NEW m, m = Announced(ByteAt(t, n, i)),
           \A k \in 1 .. m - 1 : Continues(t, n, i + k)
    PROVE  Character(t, n, i) = Char(m, Slice(t, i, i + m))
<1>1. ~Escaped(t, n, i)
  BY EscapeBegins DEF Backslash
<1>2. /\ ByteAt(t, n, i) \notin (32 .. 127) \ {Quote, Backslash}
      /\ ByteAt(t, n, i) # Backslash
  BY DEF Backslash
<1> QED
  BY <1>1, <1>2 DEF Character

LEMMA ShortCharacter ==
    ASSUME NEW t, NEW n \in Nat, NEW i \in Nat, ByteAt(t, n, i) = Backslash,
           NEW pair \in ShortEscapes, ByteAt(t, n, i + 1) = pair[1]
    PROVE  Character(t, n, i) = Char(2, <<pair[2]>>)
<1>1. pair[1] # LetterU
  BY DEF ShortEscapes, LetterU
<1>2. ~Escaped(t, n, i)
  BY <1>1, EscapeBegins
<1>3. \A other \in ShortEscapes : other[1] = pair[1] => other = pair
  BY DEF ShortEscapes
<1>4. (CHOOSE other \in ShortEscapes : other[1] = pair[1]) = pair
  BY <1>3
<1>5. Backslash \notin (32 .. 127) \ {Quote, Backslash}
      /\ Backslash \notin 128 .. 247
  BY DEF Backslash
<1>6. \E other \in ShortEscapes : other[1] = pair[1]
  OBVIOUS
<1> QED
  BY <1>2, <1>4, <1>5, <1>6 DEF Character

LEMMA NoShort ==
    ASSUME NEW t, NEW n \in Nat, NEW i \in Nat, Escaped(t, n, i)
    PROVE  /\ ByteAt(t, n, i) \notin (32 .. 127) \ {Quote, Backslash}
           /\ ByteAt(t, n, i) \notin 128 .. 247
           /\ ~\E pair \in ShortEscapes : pair[1] = ByteAt(t, n, i + 1)
BY EscapeBegins DEF ShortEscapes, LetterU, Backslash

LEMMA UnitCharacter ==
    ASSUME NEW t, NEW n \in Nat, NEW i \in Nat, Escaped(t, n, i),
           CodeUnit(t, i) \notin Leads
    PROVE  Character(t, n, i) = Char(6, Utf8Bytes(CodeUnit(t, i)))
BY NoShort DEF Character

LEMMA PairCharacter ==
    ASSUME NEW t, NEW n \in Nat, NEW i \in Nat, Escaped(t, n, i),
           CodeUnit(t, i) \in Leads,
           Escaped(t, n, i + 6), CodeUnit(t, i + 6) \in Trails
    PROVE  Character(t, n, i) =
               Char(12, Utf8Bytes(CodePoint(CodeUnit(t, i), CodeUnit(t, i + 6))))
BY NoShort DEF Character

\* Nothing else is a character.
LEMMA NoCharacter ==
    ASSUME NEW t, NEW n \in Nat, NEW i \in Nat,
           ByteAt(t, n, i) \notin (32 .. 127) \ {Quote, Backslash},
           ByteAt(t, n, i) \in 128 .. 247 =>
               ~\A k \in 1 .. Announced(ByteAt(t, n, i)) - 1 :
                    Continues(t, n, i + k),
           ByteAt(t, n, i) = Backslash =>
               ~\E pair \in ShortEscapes : pair[1] = ByteAt(t, n, i + 1),
           Escaped(t, n, i) =>
               /\ CodeUnit(t, i) \in Leads
               /\ ~(Escaped(t, n, i + 6) /\ CodeUnit(t, i + 6) \in Trails)
    PROVE  Character(t, n, i) = NoChar
BY DEF Character

LEMMA EncodedList ==
    ASSUME NEW c
    PROVE  IsList(Utf8Bytes(c)) /\ Len(Utf8Bytes(c)) \in 1 .. 4
<1> DEFINE Short(x) == IsList(x) /\ Len(x) \in 1 .. 4
<1>1. \A a, b, d, e : /\ Short(<<a>>) /\ Short(<<a, b>>)
                      /\ Short(<<a, b, d>>) /\ Short(<<a, b, d, e>>)
  BY DEF IsList
<1> HIDE DEF Short
<1>2. ASSUME c < 128 PROVE Short(Utf8Bytes(c))
  <2>1. Utf8Bytes(c) = <<c>>
    BY <1>2 DEF Utf8Bytes
  <2> QED
    BY <1>1, <2>1
<1>7. PICK low, middle, high :
          /\ low = 128 + (c % 64)
          /\ middle = 128 + ((c \div 64) % 64)
          /\ high = 128 + ((c \div 4096) % 64)
  OBVIOUS
<1>3. ASSUME ~(c < 128), c < 2048 PROVE Short(Utf8Bytes(c))
  <2>1. PICK lead : lead = 192 + (c \div 64)
    OBVIOUS
  <2>2. Utf8Bytes(c) = <<lead, low>>
    BY <1>3, <1>7, <2>1 DEF Utf8Bytes
  <2> QED
    BY <1>1, <2>2
<1>4. ASSUME ~(c < 128), ~(c < 2048), c < 65536
      PROVE  Short(Utf8Bytes(c))
  <2>1. PICK lead : lead = 224 + (c \div 4096)
    OBVIOUS
  <2>2. Utf8Bytes(c) = <<lead, middle, low>>
    BY <1>4, <1>7, <2>1 DEF Utf8Bytes
  <2> QED
    BY <1>1, <2>2
<1>5. ASSUME ~(c < 128), ~(c < 2048), ~(c < 65536)
      PROVE  Short(Utf8Bytes(c))
  <2>1. PICK lead : lead = 240 + (c \div 262144)
    OBVIOUS
  <2>2. Utf8Bytes(c) = <<lead, high, middle, low>>
    BY <1>5, <1>7, <2>1 DEF Utf8Bytes
  <2> QED
    BY <1>1, <2>2
<1>6. Short(Utf8Bytes(c))
  BY <1>2, <1>3, <1>4, <1>5
<1> QED
  BY <1>6 DEF Short

LEMMA EscapeFits ==
    ASSUME NEW t, NEW n \in Nat, NEW i \in Nat, Escaped(t, n, i)
    PROVE  /\ i + 5 \in 0 .. n - 1
           /\ \A j \in 2 .. 5 : t[i + j] \in DOMAIN HexValue
<1>1. ASSUME NEW j \in 2 .. 5
      PROVE  i + j \in 0 .. n - 1 /\ t[i + j] \in DOMAIN HexValue
  <2>1. Fits(t, n, i, j) /\ j \notin {0, 1, 6, 7}
    BY DEF Escaped
  <2>2. ByteAt(t, n, i + j) \in DOMAIN HexValue
    BY <2>1 DEF Fits
  <2>3. ByteAt(t, n, i + j) # NoByte
    BY <2>2 DEF HexValue, NoByte
  <2> QED
    BY <2>2, <2>3, ByteInText
<1> QED
  BY <1>1

LEMMA CodeUnitIsNumber ==
    ASSUME NEW t, NEW n \in Nat, NEW i \in Nat, Escaped(t, n, i)
    PROVE  CodeUnit(t, i) \in Int
<1>1. \A c \in DOMAIN HexValue : HexValue[c] \in Int
  BY DEF HexValue
<1>2. /\ t[i + 2] \in DOMAIN HexValue /\ t[i + 3] \in DOMAIN HexValue
      /\ t[i + 4] \in DOMAIN HexValue /\ t[i + 5] \in DOMAIN HexValue
  BY EscapeFits
<1> QED
  BY <1>1, <1>2 DEF CodeUnit

LEMMA CharacterShape ==
    ASSUME NEW t, NEW n \in Nat, NEW i \in Nat,
           NEW char, char = Character(t, n, i), char # NoChar
    PROVE  /\ char.width \in Nat /\ char.width > 0 /\ i + char.width <= n
           /\ IsList(char.bytes)
<1> DEFINE c == ByteAt(t, n, i)
           e == ByteAt(t, n, i + 1)
<1>0. \A width, bytes : /\ Char(width, bytes).width = width
                        /\ Char(width, bytes).bytes = bytes
  BY DEF Char
<1>1. CASE c \in (32 .. 127) \ {Quote, Backslash}
  <2>1. char = Char(1, <<c>>)
    BY <1>1, PlainCharacter
  <2>2. i \in 0 .. n - 1
    <3>1. c # NoByte
      BY <1>1 DEF NoByte
    <3> QED
      BY <3>1, ByteInText
  <2>3. IsList(<<c>>)
    BY DEF IsList
  <2> QED
    BY <1>0, <2>1, <2>2, <2>3
<1>2. CASE c \in 128 .. 247 /\ \A k \in 1 .. Announced(c) - 1 : Continues(t, n, i + k)
  <2>0. PICK m : m = Announced(c)
    OBVIOUS
  <2> DEFINE b == Slice(t, i, i + m)
  <2>1. char = Char(m, b)
    BY <1>2, <2>0, SequenceCharacter
  <2>2. m \in 2 .. 4
    BY <1>2, <2>0 DEF Announced
  <2>3. i + m - 1 \in 0 .. n - 1
    <3>1. Continues(t, n, i + (m - 1))
      BY <1>2, <2>0, <2>2
    <3>2. ByteAt(t, n, i + (m - 1)) # NoByte
      BY <3>1 DEF Continues, NoByte
    <3> QED
      BY <2>2, <3>2, ByteInText
  <2>4. IsList(b)
    <3>1. i + m \in Nat /\ i <= i + m
      BY <2>2
    <3> QED
      BY <3>1, SliceIsList
  <2> HIDE DEF b
  <2> QED
    BY <1>0, <2>1, <2>2, <2>3, <2>4
<1>3. CASE c = Backslash /\ \E pair \in ShortEscapes : pair[1] = e
  <2>1. PICK pair \in ShortEscapes : pair[1] = e
    BY <1>3
  <2>2. char = Char(2, <<pair[2]>>)
    BY <1>3, <2>1, ShortCharacter
  <2>3. e # NoByte
    BY <2>1 DEF ShortEscapes, NoByte
  <2>4. i + 1 \in 0 .. n - 1
    BY <2>3, ByteInText
  <2>5. IsList(<<pair[2]>>)
    BY DEF IsList
  <2> QED
    BY <1>0, <2>2, <2>4, <2>5
<1>4. CASE Escaped(t, n, i) /\ CodeUnit(t, i) \notin Leads
  <2>1. char = Char(6, Utf8Bytes(CodeUnit(t, i)))
    BY <1>4, UnitCharacter
  <2>2. IsList(Utf8Bytes(CodeUnit(t, i)))
    BY <1>4, CodeUnitIsNumber, EncodedList
  <2>3. i + 5 \in 0 .. n - 1
    BY <1>4, EscapeFits
  <2> QED
    BY <1>0, <2>1, <2>2, <2>3
<1>5. CASE /\ Escaped(t, n, i) /\ CodeUnit(t, i) \in Leads
           /\ Escaped(t, n, i + 6) /\ CodeUnit(t, i + 6) \in Trails
  <2> DEFINE point == CodePoint(CodeUnit(t, i), CodeUnit(t, i + 6))
  <2>1. char = Char(12, Utf8Bytes(point))
    BY <1>5, PairCharacter
  <2>2. point \in Int
    <3>1. CodeUnit(t, i) \in Int /\ CodeUnit(t, i + 6) \in Int
      BY <1>5 DEF Leads, Trails
    <3> QED
      BY <3>1 DEF CodePoint
  <2>3. IsList(Utf8Bytes(point))
    BY <2>2, EncodedList
  <2>4. i + 6 + 5 \in 0 .. n - 1
    BY <1>5, EscapeFits
  <2> QED
    BY <1>0, <2>1, <2>3, <2>4
<1> QED
  BY <1>1, <1>2, <1>3, <1>4, <1>5, NoCharacter

-----------------------------------------------------------------------------
(***************************************************************************)
(* A step of reading a string or a number.                                 *)
(***************************************************************************)
LEMMA AfterCharacterFurther ==
    ASSUME NEW t, NEW n \in Nat, NEW s, Proper(n, s), s.place = "string"
    PROVE  AfterCharacter(t, n, s) = s \/ Further(n, s, AfterCharacter(t, n, s))
<1> DEFINE char == Character(t, n, s.at)
<1>1. s.at \in 0 .. n
  BY DEF Proper
<1>2. CASE ByteAt(t, n, s.at) = Quote
  <2>1. s.at + 1 \in 0 .. n
    BY <1>1, <1>2, ByteInText DEF Quote, NoByte
  <2> DEFINE value == [type |-> "string", bytes |-> s.bytes]
             q == s.at + 1
  <2>2. q \in 0 .. n /\ q > s.at
    BY <1>1, <2>1
  <2>3. AfterCharacter(t, n, s) = Past(s, q, value)
    BY <1>2 DEF AfterCharacter
  <2> HIDE DEF value, q
  <2> QED
    BY <2>2, <2>3, PastIsFurther
<1>3. CASE ByteAt(t, n, s.at) # Quote /\ char # NoChar
  <2>1. char.width \in Nat /\ char.width > 0 /\ s.at + char.width <= n
    BY <1>1, <1>3, CharacterShape
  <2> DEFINE r == AfterCharacter(t, n, s)
  <2>2. /\ r.at = s.at + char.width /\ r.place = "string"
        /\ r.says = s.says
    BY <1>3 DEF AfterCharacter, Progress
  <2> HIDE DEF r, char
  <2>3. Further(n, s, r)
    BY <1>1, <2>1, <2>2, GoesFurther DEF Places
  <2> QED
    BY <2>3 DEF r
<1>4. CASE ByteAt(t, n, s.at) # Quote /\ char = NoChar
  BY <1>4 DEF AfterCharacter
<1> QED
  BY <1>2, <1>3, <1>4

\* The places of a number, and what may follow there.
LEMMA FollowingIs ==
    /\ DOMAIN Following = {"zero", "digits", "fraction", "exponent"}
    /\ Following["zero"] = {Dot} \cup ExponentMarks
    /\ Following["digits"] = {Dot} \cup ExponentMarks \cup Digits
    /\ Following["fraction"] = ExponentMarks \cup Digits
    /\ Following["exponent"] = Digits
BY DEF Following

LEMMA ReadsZero ==
    ASSUME NEW t, NEW n, NEW s, NEW c, c = ByteAt(t, n, s.at),
           s.place = "integer", c = Zero
    PROVE  AfterDigit(t, n, s) = Onto(s, "zero", s.number)
BY FollowingIs DEF AfterDigit

LEMMA ReadsDigit ==
    ASSUME NEW t, NEW n, NEW s, NEW c, c = ByteAt(t, n, s.at), c \in Digits,
           s.place = "digits" \/ (s.place = "integer" /\ c # Zero)
    PROVE  AfterDigit(t, n, s) = Onto(s, "digits", WithDigit(s.number, c))
BY FollowingIs DEF AfterDigit, Digits, Dot, ExponentMarks

LEMMA ReadsFractionDigit ==
    ASSUME NEW t, NEW n, NEW s, NEW c, c = ByteAt(t, n, s.at), c \in Digits,
           s.place \in {"point", "fraction"}
    PROVE  AfterDigit(t, n, s) =
               Onto(s, "fraction", WithFractionDigit(s.number, c))
BY FollowingIs DEF AfterDigit, Digits, ExponentMarks

LEMMA ReadsExponentDigit ==
    ASSUME NEW t, NEW n, NEW s, NEW c, c = ByteAt(t, n, s.at), c \in Digits,
           s.place \in {"mark", "sign", "exponent"}
    PROVE  AfterDigit(t, n, s) =
               Onto(s, "exponent", WithExponentDigit(s.number, c))
BY FollowingIs DEF AfterDigit, Digits, Plus, Minus

LEMMA ReadsPoint ==
    ASSUME NEW t, NEW n, NEW s, NEW c, c = ByteAt(t, n, s.at), c = Dot,
           s.place \in {"zero", "digits"}
    PROVE  AfterDigit(t, n, s) = Onto(s, "point", NotWhole(s.number))
BY FollowingIs DEF AfterDigit, Digits, Dot, ExponentMarks

LEMMA ReadsMark ==
    ASSUME NEW t, NEW n, NEW s, NEW c, c = ByteAt(t, n, s.at),
           c \in ExponentMarks, s.place \in {"zero", "digits", "fraction"}
    PROVE  AfterDigit(t, n, s) = Onto(s, "mark", NotWhole(s.number))
BY FollowingIs DEF AfterDigit, Digits, Dot, ExponentMarks

LEMMA ReadsSign ==
    ASSUME NEW t, NEW n, NEW s, NEW c, c = ByteAt(t, n, s.at),
           c \in {Plus, Minus}, s.place = "mark"
    PROVE  AfterDigit(t, n, s) = Onto(s, "sign", WithSign(s.number, c))
BY FollowingIs DEF AfterDigit, Digits, Plus, Minus

LEMMA EndsNumber ==
    ASSUME NEW t, NEW n, NEW s, NEW c, c = ByteAt(t, n, s.at), c # NoByte,
           s.place \in {"zero", "digits", "fraction", "exponent"},
           c \notin Following[s.place]
    PROVE  AfterDigit(t, n, s) = Past(s, s.at, NumberOf(s.number))
<1>1. CASE s.place = "zero"
  BY <1>1, FollowingIs DEF AfterDigit
<1>2. CASE s.place = "digits"
  BY <1>2, FollowingIs DEF AfterDigit
<1>3. CASE s.place = "fraction"
  BY <1>3, FollowingIs DEF AfterDigit
<1>4. CASE s.place = "exponent"
  BY <1>4, FollowingIs DEF AfterDigit
<1> QED
  BY <1>1, <1>2, <1>3, <1>4

LEMMA StuckInNumber ==
    ASSUME NEW t, NEW n, NEW s, NEW c, c = ByteAt(t, n, s.at),
           s.place \in NumberPlaces,
           \/ c = NoByte
           \/ c \notin Digits /\ s.place \in {"integer", "point", "sign"}
           \/ c \notin Digits \cup {Plus, Minus} /\ s.place = "mark"
    PROVE  AfterDigit(t, n, s) = s
<1>1. NoByte \notin Digits \cup ExponentMarks \cup {Zero, Dot, Plus, Minus}
  BY DEF NoByte, Digits, ExponentMarks, Zero, Dot, Plus, Minus
<1>2. Zero \in Digits
  BY DEF Zero, Digits
<1>3. CASE c = NoByte
  BY <1>1, <1>3 DEF AfterDigit
<1>4. CASE c \notin Digits /\ s.place \in {"integer", "point", "sign"}
  BY <1>2, <1>4, FollowingIs DEF AfterDigit
<1>5. CASE c \notin Digits \cup {Plus, Minus} /\ s.place = "mark"
  BY <1>5, FollowingIs DEF AfterDigit
<1> QED
  BY <1>3, <1>4, <1>5

LEMMA AfterDigitFurther ==
    ASSUME NEW t, NEW n \in Nat, NEW s, Proper(n, s), s.place \in NumberPlaces
    PROVE  AfterDigit(t, n, s) = s \/ Further(n, s, AfterDigit(t, n, s))
<1>1. PICK c : c = ByteAt(t, n, s.at)
  OBVIOUS
<1>2. CASE c = NoByte
  BY <1>1, <1>2, StuckInNumber
<1>3. CASE c # NoByte
  <2>1. s.at + 1 \in 0 .. n /\ s.at \in 0 .. n
    BY <1>1, <1>3, ByteInText DEF Proper
  <2>2. ASSUME NEW place \in Places, NEW number
        PROVE  Further(n, s, Onto(s, place, number))
    BY <2>1, GoesFurther DEF Onto, Progress
  <2>3. NumberPlaces \subseteq Places
    BY DEF Places
  <2>4. Further(n, s, Past(s, s.at, NumberOf(s.number)))
    BY <2>1, PastIsFurther
  <2>5. CASE s.place = "integer"
    BY <1>1, <2>2, <2>3, <2>5, ReadsZero, ReadsDigit, StuckInNumber
       DEF NumberPlaces
  <2>6. CASE s.place = "zero"
    BY <1>1, <1>3, <2>2, <2>3, <2>4, <2>6, ReadsPoint, ReadsMark, EndsNumber,
       FollowingIs DEF NumberPlaces
  <2>7. CASE s.place = "digits"
    BY <1>1, <1>3, <2>2, <2>3, <2>4, <2>7, ReadsDigit, ReadsPoint, ReadsMark,
       EndsNumber, FollowingIs DEF NumberPlaces
  <2>8. CASE s.place = "point"
    BY <1>1, <2>2, <2>3, <2>8, ReadsFractionDigit, StuckInNumber DEF NumberPlaces
  <2>9. CASE s.place = "fraction"
    BY <1>1, <1>3, <2>2, <2>3, <2>4, <2>9, ReadsFractionDigit, ReadsMark,
       EndsNumber, FollowingIs DEF NumberPlaces
  <2>10. CASE s.place = "mark"
    BY <1>1, <2>2, <2>3, <2>10, ReadsExponentDigit, ReadsSign, StuckInNumber
       DEF NumberPlaces
  <2>11. CASE s.place = "sign"
    BY <1>1, <2>2, <2>3, <2>11, ReadsExponentDigit, StuckInNumber DEF NumberPlaces
  <2>12. CASE s.place = "exponent"
    BY <1>1, <1>3, <2>2, <2>3, <2>4, <2>12, ReadsExponentDigit, EndsNumber,
       FollowingIs DEF NumberPlaces
  <2> QED
    BY <2>5, <2>6, <2>7, <2>8, <2>9, <2>10, <2>11, <2>12 DEF NumberPlaces
<1> QED
  BY <1>2, <1>3

-----------------------------------------------------------------------------
(***************************************************************************)
(* Reading.                                                                *)
(***************************************************************************)
LEMMA AfterIs ==
    ASSUME NEW t, NEW n, NEW s
    PROVE  /\ s.place \in {"text", "first", "value", "more"} =>
                  After(t, n, s) = AfterToken(t, n, s)
           /\ s.place = "string" => After(t, n, s) = AfterCharacter(t, n, s)
           /\ s.place \in NumberPlaces => After(t, n, s) = AfterDigit(t, n, s)
           /\ s.place = "end" => After(t, n, s) = s
BY DEF After, NumberPlaces

LEMMA AfterFurther ==
    ASSUME NEW t, NEW n \in Nat, NEW s, Proper(n, s)
    PROVE  After(t, n, s) = s \/ Further(n, s, After(t, n, s))
<1>1. CASE s.place \in {"text", "first", "value", "more"}
  BY <1>1, AfterIs, AfterTokenFurther
<1>2. CASE s.place = "string"
  BY <1>2, AfterIs, AfterCharacterFurther
<1>3. CASE s.place \in NumberPlaces
  BY <1>3, AfterIs, AfterDigitFurther
<1>4. CASE s.place = "end"
  BY <1>4, AfterIs
<1> QED
  BY <1>1, <1>2, <1>3, <1>4 DEF Proper, Places

\* How far a text has been read.
LEMMA ReadingsProper ==
    ASSUME NEW t, NEW n \in Nat, NEW k \in Nat
    PROVE  /\ Proper(n, Readings(t, n)[k])
           /\ \/ After(t, n, Readings(t, n)[k]) = Readings(t, n)[k]
              \/ 3 * Readings(t, n)[k].at + Rank(Readings(t, n)[k].place) >= k
<1> DEFINE R == Readings(t, n)
           Measure(s) == 3 * s.at + Rank(s.place)
           Good(l) == /\ Proper(n, R[l])
                      /\ After(t, n, R[l]) = R[l] \/ Measure(R[l]) >= l
           T == {l \in Nat : Good(l)}
<1>1. \A place : Rank(place) \in 0 .. 2
  BY DEF Rank
<1>2. 0 \in T
  <2>1. R[0] = Beginning
    BY ReadingsStep
  <2>2. Proper(n, Beginning) /\ Beginning.at = 0
    BY EmptyList DEF Beginning, Progress, Proper, Places
  <2>3. Measure(R[0]) >= 0
    BY <1>1, <2>1, <2>2
  <2> HIDE DEF R, Measure
  <2> QED
    BY <2>1, <2>2, <2>3
<1>3. ASSUME NEW l \in Nat, l \in T PROVE l + 1 \in T
  <2>1. R[l + 1] = After(t, n, R[l])
    BY ReadingsStep
  <2>2. Proper(n, R[l])
    BY <1>3
  <2> HIDE DEF R
  <2>3. CASE After(t, n, R[l]) = R[l]
    BY <2>1, <2>2, <2>3
  <2>4. CASE After(t, n, R[l]) # R[l]
    <3>1. Further(n, R[l], R[l + 1])
      BY <2>1, <2>2, <2>4, AfterFurther
    <3>2. Proper(n, R[l + 1])
      BY <3>1 DEF Further
    <3>3. R[l].at \in Nat /\ R[l + 1].at \in Nat
      BY <2>2, <3>2 DEF Proper
    <3>4. Measure(R[l + 1]) > Measure(R[l])
      BY <1>1, <3>1, <3>3 DEF Further
    <3>5. Measure(R[l]) >= l /\ Measure(R[l]) \in Nat /\ Measure(R[l + 1]) \in Nat
      BY <1>1, <1>3, <2>4, <3>3
    <3> HIDE DEF Measure
    <3> QED
      BY <3>2, <3>4, <3>5
  <2> QED
    BY <2>3, <2>4
<1> HIDE DEF T
<1>4. Nat \subseteq T
  BY <1>2, <1>3, SetInduction
<1>5. Good(k)
  BY <1>4 DEF T
<1> QED
  BY <1>5

\* Reading that stops does not go on, and what has been said stays said.
LEMMA ReadingsOnward ==
    ASSUME NEW t, NEW n \in Nat, NEW k \in Nat, NEW l \in Nat, k <= l
    PROVE  /\ Extends(Readings(t, n)[k], Readings(t, n)[l])
           /\ After(t, n, Readings(t, n)[k]) = Readings(t, n)[k] =>
                  Readings(t, n)[l] = Readings(t, n)[k]
<1> DEFINE R == Readings(t, n)
           Good(j) == /\ Extends(R[k], R[k + j])
                      /\ After(t, n, R[k]) = R[k] => R[k + j] = R[k]
           T == {j \in Nat : Good(j)}
<1>1. \A j \in Nat : Proper(n, R[j]) /\ R[j + 1] = After(t, n, R[j])
  BY ReadingsProper, ReadingsStep
<1> HIDE DEF R
<1>2. 0 \in T
  BY <1>1 DEF Extends, Proper, IsList
<1>3. ASSUME NEW j \in Nat, j \in T PROVE j + 1 \in T
  <2>1. R[k + (j + 1)] = After(t, n, R[k + j]) /\ k + j \in Nat
    <3>1. k + j \in Nat /\ k + (j + 1) = (k + j) + 1
      OBVIOUS
    <3> QED
      BY <3>1, <1>1
  <2>2. Extends(R[k + j], R[k + (j + 1)])
    <3>1. R[k + (j + 1)] = R[k + j] \/ Further(n, R[k + j], R[k + (j + 1)])
      BY <1>1, <2>1, AfterFurther
    <3>2. Extends(R[k + j], R[k + j])
      BY <1>1, <2>1 DEF Extends, Proper, IsList
    <3> QED
      BY <3>1, <3>2 DEF Further
  <2>3. Extends(R[k], R[k + (j + 1)])
    <3>1. /\ Len(R[k].says) \in Nat /\ Len(R[k + j].says) \in Nat
          /\ Len(R[k + (j + 1)].says) \in Nat
      BY <1>1, <2>1 DEF Proper, IsList
    <3>2. Extends(R[k], R[k + j])
      BY <1>3
    <3> QED
      BY <2>2, <3>1, <3>2, ExtendsFurther
  <2>4. After(t, n, R[k]) = R[k] => R[k + (j + 1)] = R[k]
    BY <1>3, <2>1
  <2> QED
    BY <2>3, <2>4
<1> HIDE DEF T
<1>4. Nat \subseteq T
  BY <1>2, <1>3, SetInduction
<1>5. Good(l - k) /\ k + (l - k) = l
  BY <1>4 DEF T
<1> QED
  BY <1>5 DEF R

\* The text read as far as it can be, however far it was looked at.
LEMMA ReadIs ==
    ASSUME NEW t, NEW n \in Nat
    PROVE  /\ \E k \in Nat : Read(t, n) = Readings(t, n)[k]
           /\ After(t, n, Read(t, n)) = Read(t, n)
           /\ \A k \in Nat :
                /\ Extends(Readings(t, n)[k], Read(t, n))
                /\ After(t, n, Readings(t, n)[k]) = Readings(t, n)[k] =>
                       Read(t, n) = Readings(t, n)[k]
<1> DEFINE R == Readings(t, n)
           end_ == CHOOSE l \in 0 .. 3 * n + 3 : After(t, n, R[l]) = R[l]
<1>1. \E l \in 0 .. 3 * n + 3 : After(t, n, R[l]) = R[l]
  <2> DEFINE last == 3 * n + 3
             s == R[last]
  <2>1. last \in Nat /\ last \in 0 .. 3 * n + 3
    OBVIOUS
  <2>2. Proper(n, s)
    BY <2>1, ReadingsProper
  <2>3. After(t, n, s) = s \/ 3 * s.at + Rank(s.place) >= last
    BY <2>1, ReadingsProper
  <2>4. s.at \in 0 .. n /\ Rank(s.place) \in 0 .. 2
    BY <2>2 DEF Proper, Rank
  <2> HIDE DEF s
  <2>5. After(t, n, s) = s
    BY <2>3, <2>4
  <2> QED
    BY <2>1, <2>5 DEF s
<1>2. end_ \in Nat /\ After(t, n, R[end_]) = R[end_]
  BY <1>1
<1>3. Read(t, n) = R[end_]
  BY DEF Read
<1> HIDE DEF end_, R
<1>4. ASSUME NEW k \in Nat, NEW l \in Nat
      PROVE  k <= l =>
                /\ Extends(R[k], R[l])
                /\ After(t, n, R[k]) = R[k] => R[l] = R[k]
  BY ReadingsOnward DEF R
<1>5. ASSUME NEW k \in Nat
      PROVE  /\ Extends(R[k], Read(t, n))
             /\ After(t, n, R[k]) = R[k] => Read(t, n) = R[k]
  <2>1. CASE k <= end_
    BY <1>2, <1>3, <1>4, <2>1
  <2>2. CASE end_ <= k
    <3>1. R[k] = R[end_]
      BY <1>2, <1>4, <2>2
    <3>2. Extends(R[end_], R[end_])
      BY <1>2, <1>4
    <3> QED
      BY <1>3, <3>1, <3>2
  <2> QED
    BY <1>2, <2>1, <2>2
<1> QED
  BY <1>2, <1>3, <1>5 DEF R
=============================================================================
