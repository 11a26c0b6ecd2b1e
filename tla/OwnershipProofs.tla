--------------------------- MODULE OwnershipProofs ---------------------------
(***************************************************************************)
(* For any number of views, documents and handles, buffers and trees:      *)
(* every text is counted exactly, every tree has one owner, and what a     *)
(* valid document points to is there.                                      *)
(***************************************************************************)
EXTENDS Ownership, FiniteSetTheorems, TLAPS

DocumentsAndHandles == Documents \cup Handles

ViewType == [alive : BOOLEAN, data : Addresses, buffer : Buffers \cup {Null}]

-----------------------------------------------------------------------------
(***************************************************************************)
(* Counting.                                                               *)
(***************************************************************************)
Holding(vw, b) == {h \in Holders : vw[h].buffer = b}
One(held) == IF held THEN 1 ELSE 0

With(vw, h, w) == [vw EXCEPT ![h] = w]

Counted(counts, vw) ==
    /\ counts \in [Buffers -> Nat]
    /\ vw \in [Holders -> ViewType]
    /\ \A b \in Buffers : counts[b] = Cardinality(Holding(vw, b))

\* The number of holders of a buffer is finite.
LEMMA HoldingFinite ==
    ASSUME NEW vw, NEW b
    PROVE  /\ IsFiniteSet(Holding(vw, b))
           /\ Cardinality(Holding(vw, b)) \in Nat
<1>1. Holding(vw, b) \subseteq Holders
  BY DEF Holding
<1> QED
  BY <1>1, AddressAssumption, FS_Subset, FS_CardinalityType

\* Who holds a buffer has it counted.
LEMMA HeldIsCounted ==
    ASSUME NEW counts, NEW vw, Counted(counts, vw),
           NEW h \in Holders, vw[h].buffer \in Buffers
    PROVE  counts[vw[h].buffer] > 0
<1> DEFINE b == vw[h].buffer
<1>1. h \in Holding(vw, b)
  BY DEF Holding
<1>2. Cardinality(Holding(vw, b)) # 0
  BY <1>1, HoldingFinite, FS_EmptySet
<1> QED
  BY <1>2, HoldingFinite DEF Counted

\* How the number of holders changes with one of them.
LEMMA HoldingUpdate ==
    ASSUME NEW vw \in [Holders -> ViewType], NEW h \in Holders,
           NEW w \in ViewType, NEW b \in Buffers
    PROVE  Cardinality(Holding(With(vw, h, w), b)) =
               Cardinality(Holding(vw, b))
                   - One(vw[h].buffer = b) + One(w.buffer = b)
<1> DEFINE S == Holding(vw, b)
           T == Holding(With(vw, h, w), b)
<1>1. IsFiniteSet(S) /\ Cardinality(S) \in Nat
  BY HoldingFinite
<1>2. h \in S <=> vw[h].buffer = b
  BY DEF Holding
<1>3. CASE vw[h].buffer = b /\ w.buffer = b
  <2>1. T = S
    BY <1>3 DEF Holding, With
  <2> QED
    BY <2>1, <1>1, <1>3 DEF One
<1>4. CASE vw[h].buffer # b /\ w.buffer # b
  <2>1. T = S
    BY <1>4 DEF Holding, With
  <2> QED
    BY <2>1, <1>1, <1>4 DEF One
<1>5. CASE vw[h].buffer = b /\ w.buffer # b
  <2>1. T = S \ {h}
    BY <1>5 DEF Holding, With
  <2>2. Cardinality(T) = Cardinality(S) - 1
    BY <2>1, <1>1, <1>2, <1>5, FS_RemoveElement
  <2> QED
    BY <2>2, <1>1, <1>5 DEF One
<1>6. CASE vw[h].buffer # b /\ w.buffer = b
  <2>1. T = S \cup {h}
    BY <1>6 DEF Holding, With
  <2>2. Cardinality(T) = Cardinality(S) + 1
    BY <2>1, <1>1, <1>2, <1>6, FS_AddElement
  <2> QED
    BY <2>2, <1>1, <1>6 DEF One
<1> QED
  BY <1>3, <1>4, <1>5, <1>6

\* A holder lets go of its buffer.
LEMMA DecrefCounts ==
    ASSUME NEW counts, NEW vw, Counted(counts, vw), NEW h \in Holders,
           NEW w \in ViewType, w.buffer = Null
    PROVE  Counted(decref(counts, vw[h].buffer), With(vw, h, w))
<1> DEFINE new == decref(counts, vw[h].buffer)
<1>1. /\ counts \in [Buffers -> Nat]
      /\ vw \in [Holders -> ViewType]
      /\ With(vw, h, w) \in [Holders -> ViewType]
      /\ vw[h].buffer \in Buffers \cup {Null}
      /\ Null \notin Buffers
  BY AddressAssumption DEF Counted, ViewType, With
<1>2. vw[h].buffer \in Buffers => counts[vw[h].buffer] > 0
  BY HeldIsCounted
<1>3. new \in [Buffers -> Nat]
  BY <1>1, <1>2 DEF decref, Step
<1>4. ASSUME NEW b \in Buffers
      PROVE  new[b] = Cardinality(Holding(With(vw, h, w), b))
  <2>1. Cardinality(Holding(With(vw, h, w), b)) =
            counts[b] - One(vw[h].buffer = b) + One(w.buffer = b)
    BY <1>1, HoldingUpdate DEF Counted
  <2>2. w.buffer # b
    BY <1>1
  <2>3. counts[b] \in Nat
    BY <1>1
  <2>4. new[b] = counts[b] - One(vw[h].buffer = b)
    BY <1>1, <1>2, <2>3 DEF decref, Step, One
  <2> QED
    BY <2>1, <2>2, <2>3, <2>4 DEF One
<1> QED
  BY <1>1, <1>3, <1>4 DEF Counted

\* A holder without a buffer takes one that another holds.
LEMMA IncrefCounts ==
    ASSUME NEW counts, NEW vw, Counted(counts, vw), NEW h \in Holders,
           NEW from \in Holders, vw[h].buffer = Null,
           NEW w \in ViewType, w.buffer = vw[from].buffer
    PROVE  Counted(incref(counts, w.buffer), With(vw, h, w))
<1> DEFINE new == incref(counts, w.buffer)
<1>1. /\ counts \in [Buffers -> Nat]
      /\ vw \in [Holders -> ViewType]
      /\ With(vw, h, w) \in [Holders -> ViewType]
      /\ w.buffer \in Buffers \cup {Null}
      /\ Null \notin Buffers
  BY AddressAssumption DEF Counted, ViewType, With
<1>2. w.buffer \in Buffers => counts[w.buffer] > 0
  BY HeldIsCounted
<1>3. new \in [Buffers -> Nat]
  BY <1>1, <1>2 DEF incref, Step
<1>4. ASSUME NEW b \in Buffers
      PROVE  new[b] = Cardinality(Holding(With(vw, h, w), b))
  <2>1. Cardinality(Holding(With(vw, h, w), b)) =
            counts[b] - One(vw[h].buffer = b) + One(w.buffer = b)
    BY <1>1, HoldingUpdate DEF Counted
  <2>2. vw[h].buffer # b
    BY <1>1
  <2>3. counts[b] \in Nat
    BY <1>1
  <2>4. new[b] = counts[b] + One(w.buffer = b)
    BY <1>1, <1>2, <2>3 DEF incref, Step, One
  <2> QED
    BY <2>1, <2>2, <2>3, <2>4 DEF One
<1> QED
  BY <1>1, <1>3, <1>4 DEF Counted

\* A holder without a buffer takes over that of another.
LEMMA MoveCounts ==
    ASSUME NEW counts, NEW vw, Counted(counts, vw), NEW h \in Holders,
           NEW from \in Holders, h # from, vw[h].buffer = Null,
           NEW w \in ViewType, w.buffer = Null
    PROVE  Counted(counts, With(With(vw, h, vw[from]), from, w))
<1> DEFINE mid == With(vw, h, vw[from])
           new == With(With(vw, h, vw[from]), from, w)
<1>1. /\ counts \in [Buffers -> Nat]
      /\ vw \in [Holders -> ViewType]
      /\ vw[from] \in ViewType
      /\ mid \in [Holders -> ViewType]
      /\ new \in [Holders -> ViewType]
      /\ Null \notin Buffers
  BY AddressAssumption DEF Counted, With
<1>2. mid[from] = vw[from]
  BY <1>1 DEF With
<1>3. ASSUME NEW b \in Buffers
      PROVE  counts[b] = Cardinality(Holding(new, b))
  <2>1. Cardinality(Holding(mid, b)) =
            counts[b] - One(vw[h].buffer = b) + One(vw[from].buffer = b)
    BY <1>1, HoldingUpdate DEF Counted
  <2>2. Cardinality(Holding(With(mid, from, w), b)) =
            Cardinality(Holding(mid, b))
                - One(mid[from].buffer = b) + One(w.buffer = b)
    BY <1>1, HoldingUpdate
  <2>3. vw[h].buffer # b /\ w.buffer # b /\ counts[b] \in Nat
    BY <1>1
  <2> QED
    BY <2>1, <2>2, <2>3, <1>2 DEF One
<1> QED
  BY <1>1, <1>3 DEF Counted

-----------------------------------------------------------------------------
(***************************************************************************)
(* The texts.  A view points to the text it holds, and one whose life is   *)
(* over holds none.                                                        *)
(***************************************************************************)
GoodView(w) ==
    /\ w.alive \/ w = Dead
    /\ w.data \in Buffers => w.buffer = w.data

TextsHeld(counts, vw) ==
    /\ Counted(counts, vw)
    /\ \A h \in Holders : GoodView(vw[h])

\* The views that no text stands behind.
LEMMA PlainViews ==
    ASSUME NEW w \in {Dead, NullView, View(Caller, Null)}
    PROVE  w \in ViewType /\ GoodView(w) /\ w.buffer = Null
<1>1. Caller \notin Buffers /\ Null \notin Buffers
  BY AddressAssumption
<1>2. CASE w = Dead
  BY <1>1, <1>2 DEF ViewType, GoodView, Dead, Addresses
<1>3. CASE w = NullView
  BY <1>1, <1>3 DEF ViewType, GoodView, NullView, View, Addresses
<1>4. CASE w = View(Caller, Null)
  BY <1>1, <1>4 DEF ViewType, GoodView, View, Addresses
<1> QED
  BY <1>2, <1>3, <1>4

\* One view that is good takes the place of another.
LEMMA GoodWith ==
    ASSUME NEW vw \in [Holders -> ViewType],
           \A h \in Holders : GoodView(vw[h]),
           NEW h \in Holders, NEW w \in ViewType, GoodView(w)
    PROVE  \A k \in Holders : GoodView(With(vw, h, w)[k])
<1>1. \A k \in Holders : With(vw, h, w)[k] = IF k = h THEN w ELSE vw[k]
  BY DEF With
<1> QED
  BY <1>1

\* A holder whose life is over begins a new one without a text.
LEMMA BeginsPlain ==
    ASSUME NEW counts, NEW vw, TextsHeld(counts, vw),
           NEW h \in Holders, ~vw[h].alive,
           NEW w \in {Dead, NullView, View(Caller, Null)}
    PROVE  TextsHeld(counts, With(vw, h, w))
<1>1. vw \in [Holders -> ViewType] /\ Counted(counts, vw)
  BY DEF TextsHeld, Counted
<1>2. vw[h] = Dead
  BY DEF TextsHeld, GoodView
<1>3. vw[h].buffer = Null
  BY <1>2, PlainViews
<1>4. w \in ViewType /\ GoodView(w) /\ w.buffer = Null
  BY PlainViews
<1>5. w.buffer = vw[h].buffer
  BY <1>3, <1>4
<1>6. Counted(incref(counts, w.buffer), With(vw, h, w))
  BY <1>1, <1>3, <1>4, <1>5, IncrefCounts
<1>7. incref(counts, w.buffer) = counts
  BY <1>4 DEF incref, Step
<1>8. \A k \in Holders : GoodView(With(vw, h, w)[k])
  BY <1>1, <1>4, GoodWith DEF TextsHeld
<1> QED
  BY <1>6, <1>7, <1>8 DEF TextsHeld

\* It begins with a copy of a text of its own.
LEMMA BeginsAllocated ==
    ASSUME NEW counts, NEW vw, TextsHeld(counts, vw),
           NEW h \in Holders, ~vw[h].alive,
           NEW b \in Buffers, counts[b] = 0
    PROVE  TextsHeld([counts EXCEPT ![b] = 1], With(vw, h, View(b, b)))
<1> DEFINE w == View(b, b)
           new == [counts EXCEPT ![b] = 1]
<1>1. /\ vw \in [Holders -> ViewType]
      /\ counts \in [Buffers -> Nat]
      /\ \A a \in Buffers : counts[a] = Cardinality(Holding(vw, a))
  BY DEF TextsHeld, Counted
<1>2. vw[h].buffer = Null
  BY PlainViews DEF TextsHeld, GoodView
<1>3. w \in ViewType /\ GoodView(w) /\ w.buffer = b
  BY DEF ViewType, GoodView, View, Addresses
<1>4. ASSUME NEW a \in Buffers
      PROVE  new[a] = Cardinality(Holding(With(vw, h, w), a))
  <2>1. Cardinality(Holding(With(vw, h, w), a)) =
            counts[a] - One(vw[h].buffer = a) + One(w.buffer = a)
    BY <1>1, <1>3, HoldingUpdate
  <2>2. vw[h].buffer # a
    BY <1>2, AddressAssumption
  <2>3. counts[a] \in Nat
    BY <1>1
  <2>4. new[a] = counts[a] + One(b = a)
    BY <1>1, <2>3 DEF One
  <2> QED
    BY <2>1, <2>2, <2>3, <2>4, <1>3 DEF One
<1>5. With(vw, h, w) \in [Holders -> ViewType] /\ new \in [Buffers -> Nat]
  BY <1>1, <1>3 DEF With
<1>6. \A k \in Holders : GoodView(With(vw, h, w)[k])
  BY <1>1, <1>3, GoodWith DEF TextsHeld
<1> QED
  BY <1>4, <1>5, <1>6 DEF TextsHeld, Counted

\* It begins as a copy of another.
LEMMA BeginsCopied ==
    ASSUME NEW counts, NEW vw, TextsHeld(counts, vw),
           NEW h \in Holders, ~vw[h].alive, NEW from \in Holders
    PROVE  TextsHeld(incref(counts, vw[from].buffer), With(vw, h, vw[from]))
<1>1. vw \in [Holders -> ViewType] /\ Counted(counts, vw)
  BY DEF TextsHeld, Counted
<1>2. vw[h].buffer = Null
  BY PlainViews DEF TextsHeld, GoodView
<1>3. vw[from] \in ViewType /\ GoodView(vw[from])
  BY <1>1 DEF TextsHeld
<1>4. Counted(incref(counts, vw[from].buffer), With(vw, h, vw[from]))
  BY <1>1, <1>2, <1>3, IncrefCounts
<1>5. \A k \in Holders : GoodView(With(vw, h, vw[from])[k])
  BY <1>1, <1>3, GoodWith DEF TextsHeld
<1> QED
  BY <1>4, <1>5 DEF TextsHeld

\* A holder lets go of its text.
LEMMA LetsGo ==
    ASSUME NEW counts, NEW vw, TextsHeld(counts, vw),
           NEW h \in Holders, NEW w \in {Dead, NullView}
    PROVE  TextsHeld(decref(counts, vw[h].buffer), With(vw, h, w))
<1>1. vw \in [Holders -> ViewType] /\ Counted(counts, vw)
  BY DEF TextsHeld, Counted
<1>2. w \in ViewType /\ GoodView(w) /\ w.buffer = Null
  BY PlainViews
<1>3. Counted(decref(counts, vw[h].buffer), With(vw, h, w))
  BY <1>1, <1>2, DecrefCounts
<1>4. \A k \in Holders : GoodView(With(vw, h, w)[k])
  BY <1>1, <1>2, GoodWith DEF TextsHeld
<1> QED
  BY <1>3, <1>4 DEF TextsHeld

\* A holder without a text takes over that of another.
LEMMA TakesOver ==
    ASSUME NEW counts, NEW vw, TextsHeld(counts, vw),
           NEW h \in Holders, vw[h].buffer = Null,
           NEW from \in Holders, h # from
    PROVE  TextsHeld(counts, With(With(vw, h, vw[from]), from, NullView))
<1> DEFINE mid == With(vw, h, vw[from])
<1>1. vw \in [Holders -> ViewType] /\ Counted(counts, vw)
  BY DEF TextsHeld, Counted
<1>2. NullView \in ViewType /\ GoodView(NullView) /\ NullView.buffer = Null
  BY PlainViews
<1>3. vw[from] \in ViewType /\ GoodView(vw[from])
  BY <1>1 DEF TextsHeld
<1>4. Counted(counts, With(mid, from, NullView))
  BY <1>1, <1>2, MoveCounts
<1>5. mid \in [Holders -> ViewType] /\ \A k \in Holders : GoodView(mid[k])
  BY <1>1, <1>3, GoodWith DEF TextsHeld, With
<1>6. \A k \in Holders : GoodView(With(mid, from, NullView)[k])
  <2> HIDE DEF mid
  <2> QED
    BY <1>5, <1>2, GoodWith
<1> QED
  BY <1>4, <1>6 DEF TextsHeld

TextsInv == TextsHeld(refcount, view)

\* Nothing is held at first.
LEMMA TextsInitial ==
    Init => TextsInv
<1> SUFFICES ASSUME Init PROVE TextsInv
  OBVIOUS
<1>1. Dead \in ViewType /\ GoodView(Dead) /\ Dead.buffer = Null
  BY PlainViews
<1>2. view \in [Holders -> ViewType] /\ \A h \in Holders : view[h] = Dead
  BY <1>1 DEF Init
<1>3. \A b \in Buffers : Holding(view, b) = {}
  BY <1>1, <1>2, AddressAssumption DEF Holding
<1>4. /\ refcount \in [Buffers -> Nat]
      /\ \A b \in Buffers : refcount[b] = 0
  BY DEF Init
<1>5. \A b \in Buffers : refcount[b] = Cardinality(Holding(view, b))
  BY <1>3, <1>4, FS_EmptySet
<1> QED
  BY <1>1, <1>2, <1>4, <1>5 DEF TextsInv, TextsHeld, Counted

\* Every step keeps texts counted, one case per action.
LEMMA TextsStep ==
    TextsInv /\ [Next]_vars => TextsInv'
<1> SUFFICES ASSUME TextsInv, [Next]_vars PROVE TextsInv'
  OBVIOUS
<1> USE DEF TextsInv
<1>0. /\ view \in [Holders -> ViewType]
      /\ \A h \in Holders : view[h].alive \/ view[h].buffer = Null
      /\ Views \subseteq Holders /\ Documents \subseteq Holders
      /\ Handles \subseteq Holders
  BY PlainViews DEF TextsHeld, Counted, GoodView, Holders
<1>1. ASSUME UNCHANGED <<refcount, view>>
      PROVE  TextsInv'
  BY <1>1
<1>2. ASSUME NEW v \in Views, ConstructView(v)
      PROVE  TextsInv'
  <2>1. PICK w \in {Dead, NullView, View(Caller, Null)} :
            view' = With(view, v, w)
    BY <1>2 DEF ConstructView, With
  <2>2. v \in Holders /\ ~view[v].alive /\ refcount' = refcount
    BY <1>0, <1>2 DEF ConstructView, Alive
  <2>3. TextsHeld(refcount, With(view, v, w))
    BY <2>2, BeginsPlain
  <2> QED
    BY <2>1, <2>2, <2>3
<1>3. ASSUME NEW v \in Views, NEW b \in Buffers, AllocateView(v, b)
      PROVE  TextsInv'
  <2>1. /\ v \in Holders /\ ~view[v].alive /\ refcount[b] = 0
        /\ refcount' = [refcount EXCEPT ![b] = 1]
        /\ view' = With(view, v, View(b, b))
    BY <1>0, <1>3 DEF AllocateView, Alive, With
  <2>2. TextsHeld([refcount EXCEPT ![b] = 1], With(view, v, View(b, b)))
    BY <2>1, BeginsAllocated
  <2> QED
    BY <2>1, <2>2
<1>4. ASSUME NEW h \in Holders, NEW from \in Holders, ~view[h].alive,
             view' = [view EXCEPT ![h] = view[from]],
             refcount' = incref(refcount, view[from].buffer)
      PROVE  TextsInv'
  <2>1. view' = With(view, h, view[from])
    BY <1>4 DEF With
  <2>2. TextsHeld(incref(refcount, view[from].buffer),
                  With(view, h, view[from]))
    BY <1>4, BeginsCopied
  <2> QED
    BY <2>1, <2>2, <1>4
<1>5. ASSUME NEW v \in Views, NEW from \in Views, CopyView(v, from)
      PROVE  TextsInv'
  BY <1>0, <1>4, <1>5 DEF CopyView, Alive
<1>6. ASSUME NEW v \in Views, NEW from \in Views, MoveView(v, from)
      PROVE  TextsInv'
  <2>1. /\ v \in Holders /\ from \in Holders /\ v # from
        /\ view[v].buffer = Null
        /\ refcount' = refcount
    BY <1>0, <1>6 DEF MoveView, Alive
  <2>2. view' = With(With(view, v, view[from]), from, NullView)
    BY <1>6 DEF MoveView, With
  <2>3. TextsHeld(refcount, With(With(view, v, view[from]), from, NullView))
    BY <2>1, TakesOver
  <2> QED
    BY <2>1, <2>2, <2>3
<1>7. ASSUME NEW v \in Views, NEW from \in Views, v # from
      PROVE  LET freed == decref(refcount, view[v].buffer)
                 gone == With(view, v, NullView)
             IN  /\ v \in Holders /\ from \in Holders
                 /\ TextsHeld(freed, gone)
                 /\ gone[v].buffer = Null /\ ~(gone[v].buffer \in Buffers)
                 /\ gone[from] = view[from]
  <2>1. v \in Holders /\ from \in Holders
    BY <1>0
  <2>2. TextsHeld(decref(refcount, view[v].buffer), With(view, v, NullView))
    BY <2>1, LetsGo
  <2>3. /\ With(view, v, NullView)[v] = NullView
        /\ With(view, v, NullView)[from] = view[from]
    BY <1>0, <1>7, <2>1 DEF With
  <2>4. NullView.buffer = Null /\ Null \notin Buffers
    BY PlainViews, AddressAssumption
  <2> QED
    BY <2>1, <2>2, <2>3, <2>4
<1>8. ASSUME NEW v \in Views, NEW from \in Views, CopyAssignView(v, from)
      PROVE  TextsInv'
  <2>1. CASE v = from
    BY <2>1, <1>1, <1>8 DEF CopyAssignView
  <2>2. CASE v # from
    <3> DEFINE freed == decref(refcount, view[v].buffer)
               gone == With(view, v, NullView)
    <3>1. /\ v \in Holders /\ from \in Holders /\ TextsHeld(freed, gone)
          /\ gone[v].buffer = Null /\ gone[from] = view[from]
      BY <1>7, <2>2
    <3>2. /\ gone \in [Holders -> ViewType] /\ Counted(freed, gone)
          /\ \A k \in Holders : GoodView(gone[k])
          /\ view[from] \in ViewType /\ GoodView(view[from])
      BY <1>0, <3>1 DEF TextsHeld, Counted
    <3>3. Counted(incref(freed, view[from].buffer), With(gone, v, view[from]))
      <4> HIDE DEF freed, gone
      <4> QED
        BY <3>1, <3>2, IncrefCounts
    <3>4. \A k \in Holders : GoodView(With(gone, v, view[from])[k])
      <4> HIDE DEF gone
      <4> QED
        BY <3>1, <3>2, GoodWith
    <3>5. view' = With(gone, v, view[from])
      BY <1>0, <1>8, <2>2, <3>1 DEF CopyAssignView, With
    <3>6. refcount' = incref(freed, view[from].buffer)
      BY <1>8, <2>2 DEF CopyAssignView, Assigned
    <3> QED
      BY <3>3, <3>4, <3>5, <3>6 DEF TextsHeld
  <2> QED
    BY <2>1, <2>2
<1>9. ASSUME NEW v \in Views, NEW from \in Views, MoveAssignView(v, from)
      PROVE  TextsInv'
  <2>1. CASE v = from
    BY <2>1, <1>1, <1>9 DEF MoveAssignView
  <2>2. CASE v # from
    <3> DEFINE freed == decref(refcount, view[v].buffer)
               gone == With(view, v, NullView)
    <3>1. /\ v \in Holders /\ from \in Holders /\ TextsHeld(freed, gone)
          /\ gone[v].buffer = Null /\ gone[from] = view[from]
      BY <1>7, <2>2
    <3>2. TextsHeld(freed, With(With(gone, v, gone[from]), from, NullView))
      <4> HIDE DEF freed, gone
      <4> QED
        BY <2>2, <3>1, TakesOver
    <3>3. view' = With(With(gone, v, view[from]), from, NullView)
      BY <1>0, <1>9, <2>2, <3>1 DEF MoveAssignView, With
    <3>4. refcount' = freed
      BY <1>9, <2>2 DEF MoveAssignView
    <3> QED
      BY <3>1, <3>2, <3>3, <3>4
  <2> QED
    BY <2>1, <2>2
<1>10. ASSUME NEW h \in Holders, view' = [view EXCEPT ![h] = Dead],
              refcount' = decref(refcount, view[h].buffer)
       PROVE  TextsInv'
  <2>1. view' = With(view, h, Dead)
    BY <1>10 DEF With
  <2>2. TextsHeld(decref(refcount, view[h].buffer), With(view, h, Dead))
    BY LetsGo
  <2> QED
    BY <2>1, <2>2, <1>10
<1>11. ASSUME NEW v \in Views, DestroyView(v)
       PROVE  TextsInv'
  BY <1>0, <1>10, <1>11 DEF DestroyView
<1>12. ASSUME NEW d \in Documents, DefaultDocument(d)
       PROVE  TextsInv'
  <2>1. /\ d \in Holders /\ ~view[d].alive /\ refcount' = refcount
        /\ view' = With(view, d, NullView)
    BY <1>0, <1>12 DEF DefaultDocument, Alive, With
  <2>2. TextsHeld(refcount, With(view, d, NullView))
    BY <2>1, BeginsPlain
  <2> QED
    BY <2>1, <2>2
<1>13. ASSUME NEW d \in Documents, NEW v \in Views, Parse(d, v)
       PROVE  TextsInv'
  BY <1>0, <1>4, <1>13 DEF Parse, Alive
<1>14. ASSUME NEW d \in Documents, NEW from \in Documents,
              MoveDocument(d, from)
       PROVE  TextsInv'
  BY <1>0, <1>4, <1>14 DEF MoveDocument, Alive
<1>15. ASSUME NEW d \in Documents, DestroyDocument(d)
       PROVE  TextsInv'
  BY <1>0, <1>10, <1>15 DEF DestroyDocument
<1>16. ASSUME NEW h \in Handles, sajson_parse(h)
       PROVE  TextsInv'
  <2>1. /\ h \in Holders /\ ~view[h].alive /\ refcount' = refcount
        /\ view' = With(view, h, View(Caller, Null))
    BY <1>0, <1>16 DEF sajson_parse, Alive, With
  <2>2. TextsHeld(refcount, With(view, h, View(Caller, Null)))
    BY <2>1, BeginsPlain
  <2> QED
    BY <2>1, <2>2
<1>17. ASSUME NEW h \in Handles, sajson_free_document(h)
       PROVE  TextsInv'
  BY <1>0, <1>10, <1>17 DEF sajson_free_document
<1>18. ASSUME NEW h \in Handles, ThrowParseError(h)
       PROVE  TextsInv'
  BY <1>1, <1>18 DEF ThrowParseError
<1>19. CASE UNCHANGED vars
  BY <1>1, <1>19 DEF vars
<1> QED
  BY <1>2, <1>3, <1>5, <1>6, <1>8, <1>9, <1>11, <1>12, <1>13, <1>14,
     <1>15, <1>16, <1>17, <1>18, <1>19 DEF Next

\* Every text is counted exactly, in every behaviour.
THEOREM TextsAreCounted == Spec => []RefcountExact
<1>1. Init => TextsInv
  BY TextsInitial
<1>2. TextsInv /\ [Next]_vars => TextsInv'
  BY TextsStep
<1>3. TextsInv => RefcountExact
  BY DEF TextsInv, TextsHeld, Counted, RefcountExact, HoldersOf, Holding
<1> QED
  BY <1>1, <1>2, <1>3, PTL DEF Spec

-----------------------------------------------------------------------------
(***************************************************************************)
(* The trees.  A document whose life is over owns none, and a valid one    *)
(* that was not moved from owns the tree it points to.                     *)
(***************************************************************************)
TreeTypes ==
    /\ view \in [Holders -> ViewType]
    /\ trees \subseteq Trees
    /\ structure \in [DocumentsAndHandles -> Trees \cup {Null}]
    /\ root \in [DocumentsAndHandles -> Blocks]
    /\ valid \in [DocumentsAndHandles -> BOOLEAN]
    /\ moved \in [DocumentsAndHandles -> BOOLEAN]

RootOwned(d) ==
    Alive(d) /\ valid[d] /\ ~moved[d] /\ root[d] # Caller =>
        /\ root[d] = structure[d]
        /\ root[d] \in trees

TreesInv ==
    /\ TreeTypes
    /\ \A d \in DocumentsAndHandles : ~Alive(d) => structure[d] = Null
    /\ OneTreeOwner
    /\ \A d \in DocumentsAndHandles : RootOwned(d)

\* No tree is owned at first.
LEMMA TreesInitial ==
    Init => TreesInv
<1> SUFFICES ASSUME Init PROVE TreesInv
  OBVIOUS
<1>1. Dead \in ViewType /\ ~Dead.alive
  BY PlainViews DEF Dead
<1>2. \A d \in DocumentsAndHandles : d \in Holders
  BY DEF DocumentsAndHandles, Holders
<1>3. TreeTypes
  BY <1>1 DEF Init, TreeTypes, DocumentsAndHandles, Blocks
<1>4. \A d \in DocumentsAndHandles : ~Alive(d) /\ structure[d] = Null
  BY <1>1, <1>2 DEF Init, Alive, DocumentsAndHandles
<1>5. OneTreeOwner
  BY <1>4 DEF Init, OneTreeOwner, DocumentsAndHandles
<1> QED
  BY <1>3, <1>4, <1>5 DEF TreesInv, RootOwned

\* Every step keeps trees owned, one case per action.
LEMMA TreesStep ==
    TextsInv' /\ TreesInv /\ [Next]_vars => TreesInv'
<1> SUFFICES ASSUME TextsInv', TreesInv, [Next]_vars PROVE TreesInv'
  OBVIOUS
<1> DEFINE DH == DocumentsAndHandles
<1>0. /\ TreeTypes
      /\ \A d \in DH : ~view[d].alive => structure[d] = Null
      /\ \A t \in trees : \E d \in DH : structure[d] = t
      /\ \A d \in DH :
            structure[d] # Null =>
                /\ structure[d] \in trees
                /\ \A other \in DH :
                      structure[other] = structure[d] => other = d
      /\ \A d \in DH :
            view[d].alive /\ valid[d] /\ ~moved[d] /\ root[d] # Caller =>
                root[d] = structure[d] /\ root[d] \in trees
  BY DEF TreesInv, RootOwned, OneTreeOwner, Alive, DocumentsAndHandles
<1>t. /\ view \in [Holders -> ViewType] /\ trees \subseteq Trees
      /\ structure \in [DH -> Trees \cup {Null}]
      /\ root \in [DH -> Blocks]
      /\ valid \in [DH -> BOOLEAN] /\ moved \in [DH -> BOOLEAN]
      /\ Null \notin Trees /\ Caller # Null /\ Caller \notin Trees
      /\ view' \in [Holders -> ViewType]
      /\ \A d \in DH : d \in Holders
      /\ \A v \in Views : v \in Holders /\ v \notin DH
      /\ \A d \in Documents : d \in DH
      /\ \A h \in Handles : h \in DH
  BY <1>0, AddressAssumption, HoldersAssumption
     DEF TreeTypes, TextsInv, TextsHeld, Counted, DocumentsAndHandles, Holders
<1>i. ASSUME TreeTypes',
             \A d \in DH : ~view'[d].alive => structure'[d] = Null,
             \A t \in trees' : \E d \in DH : structure'[d] = t,
             \A d \in DH :
                structure'[d] # Null =>
                    /\ structure'[d] \in trees'
                    /\ \A other \in DH :
                          structure'[other] = structure'[d] => other = d,
             \A d \in DH :
                view'[d].alive /\ valid'[d] /\ ~moved'[d]
                        /\ root'[d] # Caller =>
                    root'[d] = structure'[d] /\ root'[d] \in trees'
      PROVE  TreesInv'
  BY <1>i DEF TreesInv, RootOwned, OneTreeOwner, Alive, DocumentsAndHandles

\* A step of the views alone.
<1>1. ASSUME UNCHANGED <<trees, structure, root, valid, moved>>,
             \A d \in DH : view'[d] = view[d]
      PROVE  TreesInv'
  <2>1. TreeTypes'
    BY <1>1, <1>t DEF TreeTypes
  <2> QED
    BY <1>0, <1>1, <1>i, <2>1

\* The life of a document begins.
<1>2. ASSUME NEW d \in DH, ~view[d].alive, view'[d].alive,
             \A e \in DH : e # d => view'[e] = view[e],
             NEW owned \in Trees \cup {Null}, NEW tree \in Blocks,
             NEW is_valid \in BOOLEAN,
             SetDocument(d, owned, tree, is_valid),
             \/ /\ owned \in Trees \ trees /\ tree = owned
                /\ trees' = trees \cup {owned}
             \/ owned = Null /\ trees' = trees /\ (is_valid => tree = Caller)
      PROVE  TreesInv'
  <2>1. /\ structure' = [structure EXCEPT ![d] = owned]
        /\ root' = [root EXCEPT ![d] = tree]
        /\ valid' = [valid EXCEPT ![d] = is_valid]
        /\ moved' = [moved EXCEPT ![d] = FALSE]
    BY <1>2 DEF SetDocument
  <2>2. TreeTypes'
    BY <1>2, <1>t, <2>1 DEF TreeTypes
  <2>3. structure[d] = Null
    BY <1>0, <1>2
  <2>4. /\ \A e \in DH : structure'[e] = IF e = d THEN owned ELSE structure[e]
        /\ \A e \in DH : root'[e] = IF e = d THEN tree ELSE root[e]
        /\ \A e \in DH : valid'[e] = IF e = d THEN is_valid ELSE valid[e]
        /\ \A e \in DH : moved'[e] = IF e = d THEN FALSE ELSE moved[e]
    BY <1>t, <2>1
  <2>5. \A e \in DH : ~view'[e].alive => structure'[e] = Null
    BY <1>2, <1>0, <2>4
  <2>6. \A t \in trees' : \E e \in DH : structure'[e] = t
    <3> TAKE t \in trees'
    <3>1. CASE t \in trees
      <4>1. PICK e \in DH : structure[e] = t
        BY <3>1, <1>0
      <4>2. e # d
        BY <4>1, <3>1, <2>3, <1>t
      <4> QED
        BY <4>1, <4>2, <2>4
    <3>2. CASE t \notin trees
      <4>1. t = owned
        BY <3>2, <1>2
      <4> QED
        BY <4>1, <2>4
    <3> QED
      BY <3>1, <3>2
  <2>7. ASSUME NEW e \in DH, structure'[e] # Null
        PROVE  /\ structure'[e] \in trees'
               /\ \A other \in DH : structure'[other] = structure'[e] => other = e
    <3>1. CASE e = d
      BY <3>1, <2>7, <2>4, <1>2, <1>0, <1>t
    <3>2. CASE e # d
      <4>1. structure[e] \in trees /\ structure'[e] = structure[e]
        BY <3>2, <2>7, <2>4, <1>0
      <4> QED
        BY <4>1, <3>2, <2>7, <2>4, <1>2, <1>0, <1>t
    <3> QED
      BY <3>1, <3>2
  <2>8. ASSUME NEW e \in DH, view'[e].alive, valid'[e], ~moved'[e],
               root'[e] # Caller
        PROVE  root'[e] = structure'[e] /\ root'[e] \in trees'
    <3>1. CASE e = d
      BY <3>1, <2>8, <2>4, <1>2
    <3>2. CASE e # d
      BY <3>2, <2>8, <2>4, <1>2, <1>0
    <3> QED
      BY <3>1, <3>2
  <2> QED
    BY <1>i, <2>2, <2>5, <2>6, <2>7, <2>8

\* The life of a document ends.
<1>3. ASSUME NEW d \in DH, view' = [view EXCEPT ![d] = Dead],
             trees' = trees \ {structure[d]},
             SetDocument(d, Null, Null, FALSE)
      PROVE  TreesInv'
  <2>1. /\ structure' = [structure EXCEPT ![d] = Null]
        /\ root' = [root EXCEPT ![d] = Null]
        /\ valid' = [valid EXCEPT ![d] = FALSE]
        /\ moved' = [moved EXCEPT ![d] = FALSE]
    BY <1>3 DEF SetDocument
  <2>2. TreeTypes'
    BY <1>3, <1>t, <2>1 DEF TreeTypes, Blocks
  <2>3. /\ \A e \in DH : structure'[e] = IF e = d THEN Null ELSE structure[e]
        /\ \A e \in DH : e # d => /\ root'[e] = root[e]
                                  /\ valid'[e] = valid[e]
                                  /\ moved'[e] = moved[e]
                                  /\ view'[e] = view[e]
        /\ ~valid'[d]
    BY <1>3, <1>t, <2>1
  <2>4. \A e \in DH : ~view'[e].alive => structure'[e] = Null
    BY <1>0, <2>3
  <2>5. \A t \in trees' : \E e \in DH : structure'[e] = t
    <3> TAKE t \in trees'
    <3>1. t \in trees /\ t # structure[d]
      BY <1>3
    <3>2. PICK e \in DH : structure[e] = t
      BY <3>1, <1>0
    <3> QED
      BY <3>1, <3>2, <2>3
  <2>6. ASSUME NEW e \in DH, structure'[e] # Null
        PROVE  /\ structure'[e] \in trees'
               /\ \A other \in DH : structure'[other] = structure'[e] => other = e
    <3>1. e # d /\ structure'[e] = structure[e] /\ structure[e] \in trees
      BY <2>6, <2>3, <1>0
    <3>2. structure[e] # structure[d]
      BY <3>1, <2>6, <1>0
    <3> QED
      BY <3>1, <3>2, <2>6, <2>3, <1>3, <1>0
  <2>7. ASSUME NEW e \in DH, view'[e].alive, valid'[e], ~moved'[e],
               root'[e] # Caller
        PROVE  root'[e] = structure'[e] /\ root'[e] \in trees'
    <3>1. e # d
      BY <2>7, <2>3
    <3>2. root[e] = structure[e] /\ root[e] \in trees
      BY <3>1, <2>7, <2>3, <1>0
    <3>3. structure[e] # structure[d]
      BY <3>1, <3>2, <1>0, <1>t
    <3> QED
      BY <3>1, <3>2, <3>3, <2>3, <1>3
  <2> QED
    BY <1>i, <2>2, <2>4, <2>5, <2>6, <2>7
<1>4. ASSUME NEW d \in Documents, NEW from \in Documents,
             MoveDocument(d, from)
      PROVE  TreesInv'
  <2>1. /\ d \in DH /\ from \in DH /\ d # from
        /\ ~view[d].alive /\ view[from].alive
        /\ view' = [view EXCEPT ![d] = view[from]]
        /\ structure' = [structure EXCEPT ![d] = structure[from],
                                         ![from] = Null]
        /\ root' = [root EXCEPT ![d] = root[from]]
        /\ valid' = [valid EXCEPT ![d] = valid[from]]
        /\ moved' = [moved EXCEPT ![d] = moved[from], ![from] = TRUE]
        /\ trees' = trees
    BY <1>4, <1>t DEF MoveDocument, Alive
  <2>2. TreeTypes'
    BY <1>t, <2>1 DEF TreeTypes
  <2>3. /\ \A e \in DH :
              structure'[e] = IF e = from THEN Null
                              ELSE IF e = d THEN structure[from]
                              ELSE structure[e]
        /\ \A e \in DH : view'[e] = IF e = d THEN view[from] ELSE view[e]
        /\ \A e \in DH : root'[e] = IF e = d THEN root[from] ELSE root[e]
        /\ \A e \in DH : valid'[e] = IF e = d THEN valid[from] ELSE valid[e]
        /\ \A e \in DH :
              moved'[e] = IF e = from THEN TRUE
                          ELSE IF e = d THEN moved[from] ELSE moved[e]
    BY <1>t, <2>1
  <2>4. structure[d] = Null
    BY <1>0, <2>1
  <2>0. /\ d \in DH /\ from \in DH /\ d # from /\ trees' = trees
        /\ ~view[d].alive /\ view[from].alive
    BY <2>1
  <2>5. \A e \in DH : ~view'[e].alive => structure'[e] = Null
    BY <1>0, <2>0, <2>3
  <2>6. \A t \in trees' : \E e \in DH : structure'[e] = t
    <3> TAKE t \in trees'
    <3>1. PICK e \in DH : structure[e] = t
      BY <2>0, <1>0
    <3>2. e # d
      BY <3>1, <2>0, <2>4, <1>t
    <3>3. CASE e = from
      BY <3>1, <3>3, <2>0, <2>3
    <3>4. CASE e # from
      BY <3>1, <3>2, <3>4, <2>3
    <3> QED
      BY <3>3, <3>4
  <2>7. ASSUME NEW e \in DH, structure'[e] # Null
        PROVE  /\ structure'[e] \in trees'
               /\ \A other \in DH : structure'[other] = structure'[e] => other = e
    <3>1. e # from
      BY <2>7, <2>3
    <3>2. CASE e = d
      BY <3>1, <3>2, <2>7, <2>0, <2>3, <1>0
    <3>3. CASE e # d
      BY <3>1, <3>3, <2>7, <2>0, <2>3, <1>0
    <3> QED
      BY <3>2, <3>3
  <2>8. ASSUME NEW e \in DH, view'[e].alive, valid'[e], ~moved'[e],
               root'[e] # Caller
        PROVE  root'[e] = structure'[e] /\ root'[e] \in trees'
    <3>1. e # from
      BY <2>8, <2>3
    <3>2. CASE e = d
      <4>1. /\ valid[from] /\ ~moved[from] /\ root[from] # Caller
            /\ root'[d] = root[from] /\ structure'[d] = structure[from]
        BY <3>2, <2>8, <2>0, <2>3
      <4>2. root[from] = structure[from] /\ root[from] \in trees
        BY <4>1, <2>0, <1>0
      <4> QED
        BY <4>1, <4>2, <3>2, <2>0
    <3>3. CASE e # d
      <4>1. /\ view[e].alive /\ valid[e] /\ ~moved[e] /\ root[e] # Caller
            /\ root'[e] = root[e] /\ structure'[e] = structure[e]
        BY <3>1, <3>3, <2>8, <2>3
      <4> QED
        BY <4>1, <2>0, <1>0
    <3> QED
      BY <3>2, <3>3
  <2> QED
    BY <1>i, <2>2, <2>5, <2>6, <2>7, <2>8
<1>5. ASSUME NEW v \in Views, UNCHANGED documentVars,
             \/ \E w : view' = [view EXCEPT ![v] = w]
             \/ \E w, from, x : from \in Views
                    /\ view' = [view EXCEPT ![v] = w, ![from] = x]
             \/ view' = view
      PROVE  TreesInv'
  <2>1. \A d \in DH : view'[d] = view[d]
    BY <1>5, <1>t
  <2> QED
    BY <2>1, <1>1, <1>5 DEF documentVars
<1>6. ASSUME NEW v \in Views, ConstructView(v) PROVE TreesInv'
  BY <1>5, <1>6 DEF ConstructView
<1>7. ASSUME NEW v \in Views, NEW b \in Buffers, AllocateView(v, b)
      PROVE  TreesInv'
  BY <1>5, <1>7 DEF AllocateView
<1>8. ASSUME NEW v \in Views, NEW from \in Views, CopyView(v, from)
      PROVE  TreesInv'
  BY <1>5, <1>8 DEF CopyView
<1>9. ASSUME NEW v \in Views, NEW from \in Views, MoveView(v, from)
      PROVE  TreesInv'
  BY <1>5, <1>9 DEF MoveView
<1>10. ASSUME NEW v \in Views, NEW from \in Views, CopyAssignView(v, from)
       PROVE  TreesInv'
  BY <1>5, <1>10 DEF CopyAssignView
<1>11. ASSUME NEW v \in Views, NEW from \in Views, MoveAssignView(v, from)
       PROVE  TreesInv'
  BY <1>5, <1>11 DEF MoveAssignView
<1>12. ASSUME NEW v \in Views, DestroyView(v) PROVE TreesInv'
  BY <1>5, <1>12 DEF DestroyView
<1>13. ASSUME NEW d \in Documents, DefaultDocument(d) PROVE TreesInv'
  <2>1. /\ d \in DH /\ ~view[d].alive
        /\ view' = [view EXCEPT ![d] = NullView] /\ NullView.alive
        /\ trees' = trees /\ SetDocument(d, Null, Null, FALSE)
        /\ Null \in Blocks
    BY <1>13, <1>t DEF DefaultDocument, Alive, NullView, View, Blocks
  <2>2. view'[d].alive /\ \A e \in DH : e # d => view'[e] = view[e]
    BY <2>1, <1>t
  <2> QED
    BY <1>2, <2>1, <2>2
<1>14. ASSUME NEW d \in Documents, NEW v \in Views, Parse(d, v)
       PROVE  TreesInv'
  <2>1. /\ d \in DH /\ ~view[d].alive /\ view[v].alive
        /\ view' = [view EXCEPT ![d] = view[v]]
        /\ Parsed(d) /\ Null \in Blocks /\ Caller \in Blocks
    BY <1>14, <1>t DEF Parse, Alive, Blocks
  <2>2. view'[d].alive /\ \A e \in DH : e # d => view'[e] = view[e]
    BY <2>1, <1>t
  <2>3. ASSUME NEW t \in Trees \ trees, trees' = trees \cup {t},
               SetDocument(d, t, t, TRUE)
        PROVE  TreesInv'
    BY <1>2, <2>1, <2>2, <2>3 DEF Blocks
  <2>4. ASSUME trees' = trees, SetDocument(d, Null, Caller, TRUE)
        PROVE  TreesInv'
    BY <1>2, <2>1, <2>2, <2>4
  <2>5. ASSUME trees' = trees, SetDocument(d, Null, Null, FALSE)
        PROVE  TreesInv'
    BY <1>2, <2>1, <2>2, <2>5
  <2> QED
    BY <2>1, <2>3, <2>4, <2>5 DEF Parsed
<1>15. ASSUME NEW d \in Documents, DestroyDocument(d) PROVE TreesInv'
  BY <1>3, <1>15, <1>t DEF DestroyDocument
<1>16. ASSUME NEW h \in Handles, sajson_parse(h) PROVE TreesInv'
  <2>1. /\ h \in DH /\ ~view[h].alive
        /\ view' = [view EXCEPT ![h] = View(Caller, Null)]
        /\ View(Caller, Null).alive /\ Null \in Blocks
    BY <1>16, <1>t DEF sajson_parse, Alive, View, Blocks
  <2>2. view'[h].alive /\ \A e \in DH : e # h => view'[e] = view[e]
    BY <2>1, <1>t
  <2>3. ASSUME NEW t \in Trees \ trees, trees' = trees \cup {t},
               SetDocument(h, t, t, TRUE)
        PROVE  TreesInv'
    BY <1>2, <2>1, <2>2, <2>3 DEF Blocks
  <2>4. ASSUME trees' = trees, SetDocument(h, Null, Null, FALSE)
        PROVE  TreesInv'
    BY <1>2, <2>1, <2>2, <2>4
  <2> QED
    BY <1>16, <2>3, <2>4 DEF sajson_parse
<1>17. ASSUME NEW h \in Handles, sajson_free_document(h) PROVE TreesInv'
  BY <1>3, <1>17, <1>t DEF sajson_free_document
<1>18. ASSUME NEW h \in Handles, ThrowParseError(h) PROVE TreesInv'
  BY <1>1, <1>18 DEF ThrowParseError
<1>19. CASE UNCHANGED vars
  BY <1>1, <1>19 DEF vars
<1> QED
  BY <1>4, <1>6, <1>7, <1>8, <1>9, <1>10, <1>11, <1>12, <1>13, <1>14,
     <1>15, <1>16, <1>17, <1>18, <1>19 DEF Next

\* Both parts together.
LEMMA OwnershipStep ==
    (TextsInv /\ TreesInv) /\ [Next]_vars => (TextsInv /\ TreesInv)'
BY TextsStep, TreesStep

\* Every block of an AST has one owner, in every behaviour.
THEOREM TreesAreOwnedOnce == Spec => []OneTreeOwner
<1>1. Init => TextsInv /\ TreesInv
  BY TextsInitial, TreesInitial
<1>2. (TextsInv /\ TreesInv) /\ [Next]_vars => (TextsInv /\ TreesInv)'
  BY OwnershipStep
<1>3. TreesInv => OneTreeOwner
  BY DEF TreesInv
<1> QED
  BY <1>1, <1>2, <1>3, PTL DEF Spec

\* What a view or a valid document points to is there, in every behaviour.
THEOREM DocumentsStayUsable == Spec => []DocumentsUsable
<1>1. Init => TextsInv /\ TreesInv
  BY TextsInitial, TreesInitial
<1>2. (TextsInv /\ TreesInv) /\ [Next]_vars => (TextsInv /\ TreesInv)'
  BY OwnershipStep
<1>3. TextsInv /\ TreesInv => DocumentsUsable
  <2> SUFFICES ASSUME TextsInv, TreesInv PROVE DocumentsUsable
    OBVIOUS
  <2>1. ASSUME NEW h \in Holders, view[h].data \in Buffers
        PROVE  refcount[view[h].data] > 0
    <3>1. view[h].buffer = view[h].data /\ Counted(refcount, view)
      BY <2>1 DEF TextsInv, TextsHeld, GoodView
    <3> QED
      BY <2>1, <3>1, HeldIsCounted
  <2>2. \A d \in Documents \cup Handles : RootOwned(d)
    BY DEF TreesInv, DocumentsAndHandles
  <2> QED
    BY <2>1, <2>2 DEF DocumentsUsable, RootOwned
<1> QED
  BY <1>1, <1>2, <1>3, PTL DEF Spec

\* And every variable keeps to its type, the counts being no lower than 0.
THEOREM OwnershipTypes == Spec => []TypeOK
<1>1. Init => TextsInv /\ TreesInv /\ lost \subseteq Handles
  BY TextsInitial, TreesInitial DEF Init
<1>2. (TextsInv /\ TreesInv /\ lost \subseteq Handles) /\ [Next]_vars
          => (TextsInv /\ TreesInv /\ lost \subseteq Handles)'
  <2>1. lost \subseteq Handles /\ [Next]_vars => lost' \subseteq Handles
    BY DEF Next, ConstructView, AllocateView, CopyView, MoveView,
           CopyAssignView, MoveAssignView, DestroyView, DefaultDocument,
           Parse, Parsed, MoveDocument, DestroyDocument, sajson_parse,
           sajson_free_document, ThrowParseError, SetDocument, documentVars,
           vars
  <2> QED
    BY <2>1, OwnershipStep
<1>3. TextsInv /\ TreesInv /\ lost \subseteq Handles => TypeOK
  BY DEF TextsInv, TextsHeld, Counted, TreesInv, TreeTypes, TypeOK,
         ViewType, DocumentsAndHandles
<1> QED
  BY <1>1, <1>2, <1>3, PTL DEF Spec
=============================================================================
