-------------------------- MODULE ChunkStateProofs --------------------------
(***************************************************************************)
(* The items of a chunkState say exactly which bytes were uploaded, after  *)
(* any sequence of updates, and are completed exactly when all were.       *)
(***************************************************************************)
EXTENDS UserArtifacts, FiniteSetTheorems, TLAPS

Item == [offset : Nat, isUpdated : BOOLEAN]

\* j is the item after i.
Follows(its, i, j) ==
  /\ i.offset < j.offset
  /\ \A k \in its : ~(i.offset < k.offset /\ k.offset < j.offset)

\* The items are pairs of the start of an uploaded range and its end.
Paired(its) ==
  /\ its \subseteq Item /\ IsFiniteSet(its)
  /\ \A i, j \in its : i.offset = j.offset => i = j
  /\ \A i \in its : IF i.isUpdated
                      THEN \E j \in its : Follows(its, i, j) /\ ~j.isUpdated
                      ELSE \E j \in its : Follows(its, j, i) /\ j.isUpdated

\* What the items say of the byte at p.
Recorded(its, p) == \E i \in getItemOrPrev(its, p) : i.isUpdated

-----------------------------------------------------------------------------
(* Update.                                                                 *)

StartItem(start) == [offset |-> start, isUpdated |-> TRUE]
EndItem(end)     == [offset |-> end, isUpdated |-> FALSE]

\* i starts the range that reaches up to start; j ends the one behind end.
Before(its, start, i) ==
  /\ i \in its /\ i.offset < start /\ i.isUpdated
  /\ \A k \in its : ~(i.offset < k.offset /\ k.offset < start)

Behind(its, end, j) ==
  /\ j \in its /\ end < j.offset /\ ~j.isUpdated
  /\ \A k \in its : ~(end < k.offset /\ k.offset < j.offset)

\* The items after an update: the ones outside the range, and those of its
\* ends that are not inside another range.
LEMMA UpdateItems ==
  ASSUME NEW its, its \subseteq Item, NEW start \in Nat, NEW end \in Nat, start < end
  PROVE  /\ \A k \in its : k.offset < start \/ k.offset > end => k \in Update(its, start, end)
         /\ (~\E i \in its : Before(its, start, i)) => StartItem(start) \in Update(its, start, end)
         /\ (~\E j \in its : Behind(its, end, j)) => EndItem(end) \in Update(its, start, end)
         /\ \A k \in Update(its, start, end) :
              \/ k \in its /\ (k.offset < start \/ k.offset > end)
              \/ k = StartItem(start) /\ ~\E i \in its : Before(its, start, i)
              \/ k = EndItem(end) /\ ~\E j \in its : Behind(its, end, j)
<1> DEFINE W == WithoutItems(its, start, end)
           X == WithStart(W, start)
<1>1. \A i \in its : i.offset \in Nat
  BY DEF Item
<1>2. (\E i \in getItemOrPrev(W, start) : i.isUpdated)
        <=> \E i \in its : Before(its, start, i)
  BY <1>1 DEF getItemOrPrev, WithoutItems, Before
<1>3. \A i : i \in X <=>
        \/ i \in its /\ (i.offset < start \/ i.offset > end)
        \/ i = StartItem(start) /\ ~\E h \in its : Before(its, start, h)
  BY <1>2 DEF WithStart, WithoutItems, StartItem
<1>4. StartItem(start).offset = start
  BY DEF StartItem
<1>5. \A i \in X : i.offset >= end <=> i \in its /\ i.offset > end
  BY <1>1, <1>3, <1>4
<1>6. (\E j \in getItemOrNext(X, end) : ~j.isUpdated)
        <=> \E j \in its : Behind(its, end, j)
  BY <1>1, <1>3, <1>5 DEF getItemOrNext, Behind
<1>7. QED
  BY <1>3, <1>6 DEF Update, WithEnd, EndItem

\* After an update of the range from start to end the items are still paired,
\* and say of a byte that it was uploaded if they did so before or it is in the
\* range.
THEOREM UpdateExact ==
  ASSUME NEW its, Paired(its), NEW start \in Nat, NEW end \in Nat, start < end
  PROVE  /\ Paired(Update(its, start, end))
         /\ \A p \in Nat : Recorded(Update(its, start, end), p) <=>
                            Recorded(its, p) \/ (start <= p /\ p < end)
<1> DEFINE U == Update(its, start, end)
           S == StartItem(start)
           E == EndItem(end)
           L == \E i \in its : Before(its, start, i)
           R == \E j \in its : Behind(its, end, j)
<1>1. its \subseteq Item /\ \A i \in its : i.offset \in Nat /\ i.isUpdated \in BOOLEAN
  BY DEF Paired, Item
<1>2. /\ \A k \in its : k.offset < start \/ k.offset > end => k \in U
      /\ (~L => S \in U) /\ (~R => E \in U)
      /\ \A k \in U :
           \/ k \in its /\ (k.offset < start \/ k.offset > end)
           \/ k = S /\ ~L
           \/ k = E /\ ~R
  BY <1>1, UpdateItems
<1>3. /\ S \in Item /\ S.offset = start /\ S.isUpdated
      /\ E \in Item /\ E.offset = end /\ ~E.isUpdated
  BY DEF StartItem, EndItem, Item
<1> HIDE DEF U, S, E
<1>4. U \subseteq Item /\ \A i \in U : i.offset \in Nat /\ i.isUpdated \in BOOLEAN
  BY <1>1, <1>2, <1>3 DEF Item
<1>5. \A i, j \in U : i.offset = j.offset => i = j
  BY <1>1, <1>2, <1>3 DEF Paired
\* The item that starts the range which start belongs to.
<1>6. PICK a \in U : /\ a.offset <= start /\ a.isUpdated
                     /\ \A k \in U : ~(a.offset < k.offset /\ k.offset < end)
  <2>1. CASE L
    <3>1. PICK i \in its : Before(its, start, i)
      BY <2>1
    <3>2. i \in U /\ i.offset <= start /\ i.isUpdated
      BY <1>1, <1>2, <3>1 DEF Before
    <3>3. \A k \in U : ~(i.offset < k.offset /\ k.offset < end)
      BY <1>1, <1>2, <1>3, <2>1, <3>1 DEF Before
    <3>4. QED
      BY <3>2, <3>3
  <2>2. CASE ~L
    <3>1. S \in U
      BY <1>2, <2>2
    <3>2. \A k \in U : ~(S.offset < k.offset /\ k.offset < end)
      BY <1>1, <1>2, <1>3
    <3>3. QED
      BY <1>3, <3>1, <3>2
  <2>3. QED
    BY <2>1, <2>2
\* The item that ends it.
<1>7. PICK b \in U : /\ b.offset >= end /\ ~b.isUpdated
                     /\ \A k \in U : ~(end <= k.offset /\ k.offset < b.offset)
  <2>1. CASE R
    <3>1. PICK j \in its : Behind(its, end, j)
      BY <2>1
    <3>2. j \in U /\ j.offset >= end /\ ~j.isUpdated
      BY <1>1, <1>2, <3>1 DEF Behind
    <3>3. \A k \in U : ~(end <= k.offset /\ k.offset < j.offset)
      BY <1>1, <1>2, <1>3, <2>1, <3>1 DEF Behind
    <3>4. QED
      BY <3>2, <3>3
  <2>2. CASE ~R
    <3>1. E \in U
      BY <1>2, <2>2
    <3>2. \A k \in U : ~(end <= k.offset /\ k.offset < E.offset)
      BY <1>3, <1>4
    <3>3. QED
      BY <1>3, <3>1, <3>2
  <2>3. QED
    BY <2>1, <2>2
<1>8. Follows(U, a, b)
  BY <1>4, <1>6, <1>7 DEF Follows
<1>9. ASSUME NEW i \in U
      PROVE  IF i.isUpdated THEN \E j \in U : Follows(U, i, j) /\ ~j.isUpdated
                            ELSE \E j \in U : Follows(U, j, i) /\ j.isUpdated
  <2>1. CASE i.offset >= start /\ i.offset <= end
    <3>1. i = a \/ i = b
      BY <1>1, <1>2, <1>3, <1>4, <1>5, <1>6, <1>7, <2>1
    <3>2. QED
      BY <1>6, <1>7, <1>8, <3>1
  <2>2. CASE i.offset < start /\ i.isUpdated
    <3>1. i \in its
      BY <1>1, <1>2, <1>3, <1>4, <2>2
    <3>2. PICK j \in its : Follows(its, i, j) /\ ~j.isUpdated
      BY <2>2, <3>1 DEF Paired
    <3>3. CASE j.offset < start
      <4>1. j \in U /\ Follows(U, i, j)
        BY <1>1, <1>2, <1>3, <1>4, <3>2, <3>3 DEF Follows
      <4>2. QED
        BY <2>2, <3>2, <4>1
    <3>4. CASE j.offset >= start
      <4>1. Before(its, start, i)
        BY <1>1, <2>2, <3>1, <3>2, <3>4 DEF Before, Follows
      <4>2. \A k \in U : ~(i.offset < k.offset /\ k.offset < end)
        BY <1>1, <1>2, <1>3, <3>1, <4>1 DEF Before
      <4>3. Follows(U, i, b)
        BY <1>4, <1>7, <2>2, <4>2 DEF Follows
      <4>4. QED
        BY <1>7, <2>2, <4>3
    <3>5. QED
      BY <1>1, <3>3, <3>4
  <2>3. CASE i.offset < start /\ ~i.isUpdated
    <3>1. i \in its
      BY <1>1, <1>2, <1>3, <1>4, <2>3
    <3>2. PICK j \in its : Follows(its, j, i) /\ j.isUpdated
      BY <2>3, <3>1 DEF Paired
    <3>3. j \in U /\ Follows(U, j, i)
      BY <1>1, <1>2, <1>3, <1>4, <2>3, <3>1, <3>2 DEF Follows
    <3>4. QED
      BY <2>3, <3>2, <3>3
  <2>4. CASE i.offset > end /\ i.isUpdated
    <3>1. i \in its
      BY <1>1, <1>2, <1>3, <1>4, <2>4
    <3>2. PICK j \in its : Follows(its, i, j) /\ ~j.isUpdated
      BY <2>4, <3>1 DEF Paired
    <3>3. j \in U /\ Follows(U, i, j)
      BY <1>1, <1>2, <1>3, <1>4, <2>4, <3>1, <3>2 DEF Follows
    <3>4. QED
      BY <2>4, <3>2, <3>3
  <2>5. CASE i.offset > end /\ ~i.isUpdated
    <3>1. i \in its
      BY <1>1, <1>2, <1>3, <1>4, <2>5
    <3>2. PICK j \in its : Follows(its, j, i) /\ j.isUpdated
      BY <2>5, <3>1 DEF Paired
    <3>3. CASE j.offset > end
      <4>1. j \in U /\ Follows(U, j, i)
        BY <1>1, <1>2, <1>3, <1>4, <2>5, <3>1, <3>2, <3>3 DEF Follows
      <4>2. QED
        BY <2>5, <3>2, <4>1
    <3>4. CASE j.offset <= end
      <4>1. Behind(its, end, i)
        BY <1>1, <2>5, <3>1, <3>2, <3>4 DEF Behind, Follows
      <4>2. \A k \in U : ~(end <= k.offset /\ k.offset < i.offset)
        BY <1>1, <1>2, <1>3, <3>1, <4>1 DEF Behind
      <4>3. Follows(U, a, i)
        BY <1>4, <1>6, <2>5, <4>2 DEF Follows
      <4>4. QED
        BY <1>6, <2>5, <4>3
    <3>5. QED
      BY <1>1, <3>3, <3>4
  <2>6. QED
    BY <1>4, <2>1, <2>2, <2>3, <2>4, <2>5
<1>10. Paired(U)
  <2>1. IsFiniteSet(WithoutItems(its, start, end))
    BY FS_Subset DEF Paired, WithoutItems
  <2>2. IsFiniteSet(WithStart(WithoutItems(its, start, end), start))
    BY <2>1, FS_AddElement DEF WithStart
  <2>3. IsFiniteSet(U)
    BY <2>2, FS_AddElement DEF U, Update, WithEnd
  <2>4. QED
    BY <1>4, <1>5, <1>9, <2>3 DEF Paired
<1>11. ASSUME NEW p \in Nat
       PROVE  Recorded(U, p) <=> Recorded(its, p) \/ (start <= p /\ p < end)
  <2>1. CASE p < start
    BY <1>1, <1>2, <1>3, <1>4, <2>1 DEF Recorded, getItemOrPrev
  <2>2. CASE start <= p /\ p < end
    <3>1. a \in getItemOrPrev(U, p)
      BY <1>4, <1>6, <2>2 DEF getItemOrPrev
    <3>2. QED
      BY <1>6, <2>2, <3>1 DEF Recorded
  <2>3. CASE end <= p
    <3>1. ASSUME Recorded(its, p) PROVE Recorded(U, p)
      <4>1. PICK i \in its : /\ i.offset <= p /\ i.isUpdated
                             /\ \A j \in its : j.offset <= p => j.offset <= i.offset
        BY <3>1 DEF Recorded, getItemOrPrev
      <4>2. CASE i.offset > end
        <5>1. i \in U /\ \A j \in U : j.offset <= p => j.offset <= i.offset
          BY <1>1, <1>2, <1>3, <4>1, <4>2
        <5>2. QED
          BY <4>1, <5>1 DEF Recorded, getItemOrPrev
      <4>3. CASE i.offset <= end
        <5>1. PICK j \in its : Follows(its, i, j) /\ ~j.isUpdated
          BY <4>1 DEF Paired
        <5>2. j.offset > p
          BY <1>1, <4>1, <5>1 DEF Follows
        <5>3. Behind(its, end, j)
          BY <1>1, <2>3, <4>3, <5>1, <5>2 DEF Behind, Follows
        <5>4. \A k \in U : ~(end <= k.offset /\ k.offset < j.offset)
          BY <1>1, <1>2, <1>3, <5>1, <5>3 DEF Behind
        <5>5. a \in getItemOrPrev(U, p)
          BY <1>1, <1>4, <1>6, <2>3, <5>1, <5>2, <5>4 DEF getItemOrPrev
        <5>6. QED
          BY <1>6, <5>5 DEF Recorded
      <4>4. QED
        BY <1>1, <4>2, <4>3
    <3>2. ASSUME Recorded(U, p) PROVE Recorded(its, p)
      <4>1. PICK i \in U : /\ i.offset <= p /\ i.isUpdated
                           /\ \A j \in U : j.offset <= p => j.offset <= i.offset
        BY <3>2 DEF Recorded, getItemOrPrev
      <4>2. CASE i.offset > end
        <5>1. i \in its /\ \A j \in its : j.offset <= p => j.offset <= i.offset
          BY <1>1, <1>2, <1>3, <4>1, <4>2
        <5>2. QED
          BY <4>1, <5>1 DEF Recorded, getItemOrPrev
      <4>3. CASE i.offset <= end
        <5>1. R
          <6>1. E \notin U
            BY <1>2, <1>3, <1>4, <1>5, <2>3, <4>1, <4>3
          <6>2. QED
            BY <1>2, <6>1
        <5>2. PICK j \in its : Behind(its, end, j)
          BY <5>1
        <5>3. j.offset > p
          <6>1. j \in U
            BY <1>1, <1>2, <5>2 DEF Behind
          <6>2. QED
            BY <1>4, <4>1, <4>3, <5>2, <6>1 DEF Behind
        <5>4. PICK h \in its : Follows(its, h, j) /\ h.isUpdated
          BY <5>2 DEF Paired, Behind
        <5>5. h.offset <= end
          BY <1>1, <5>2, <5>4 DEF Behind, Follows
        <5>6. h \in getItemOrPrev(its, p)
          BY <1>1, <2>3, <5>3, <5>4, <5>5 DEF getItemOrPrev, Follows
        <5>7. QED
          BY <5>4, <5>6 DEF Recorded
      <4>4. QED
        BY <1>4, <4>2, <4>3
    <3>3. QED
      BY <2>3, <3>1, <3>2
  <2>4. QED
    BY <2>1, <2>2, <2>3
<1>12. QED
  BY <1>10, <1>11 DEF U

-----------------------------------------------------------------------------
(* What the items say.                                                     *)

\* A new chunkState records nothing.
LEMMA NoItems == Paired({}) /\ \A p \in Nat : ~Recorded({}, p)
BY FS_EmptySet DEF Paired, Recorded, getItemOrPrev

\* Items that come in pairs alternate between begin and end.
LEMMA PairedAlternating ==
  ASSUME NEW its, Paired(its)
  PROVE  Alternating(its)
<1> SUFFICES ASSUME NEW i \in its, NEW j \in its, Follows(its, i, j),
                    i.isUpdated = j.isUpdated
             PROVE  FALSE
  BY DEF Alternating, Follows
<1>1. \A k \in its : k.offset \in Nat /\ k.isUpdated \in BOOLEAN
  BY DEF Paired, Item
<1>2. CASE i.isUpdated
  <2>1. PICK k \in its : Follows(its, i, k) /\ ~k.isUpdated
    BY <1>2 DEF Paired
  <2>2. k.offset = j.offset
    BY <1>1, <2>1 DEF Follows
  <2>3. QED
    BY <1>2, <2>1, <2>2 DEF Paired
<1>3. CASE ~i.isUpdated
  <2>1. PICK k \in its : Follows(its, k, j) /\ k.isUpdated
    BY <1>3 DEF Paired
  <2>2. k.offset = i.offset
    BY <1>1, <2>1 DEF Follows
  <2>3. QED
    BY <1>3, <2>1, <2>2 DEF Paired
<1>4. QED
  BY <1>2, <1>3

\* Items within a file are completed exactly when they say of every byte of it
\* that it was uploaded.
THEOREM CompletedExact ==
  ASSUME NEW its, Paired(its), NEW size \in Nat \ {0},
         \A i \in its : i.offset <= size
  PROVE  IsCompleted(its, size) <=> \A p \in 0 .. size - 1 : Recorded(its, p)
<1> DEFINE S == [offset |-> 0, isUpdated |-> TRUE]
           E == [offset |-> size, isUpdated |-> FALSE]
<1>1. \A k \in its : k.offset \in Nat /\ k.isUpdated \in BOOLEAN
  BY DEF Paired, Item
<1>2. S # E /\ S.offset = 0 /\ S.isUpdated /\ E.offset = size /\ ~E.isUpdated
  OBVIOUS
<1>3. IsFiniteSet({S, E}) /\ Cardinality({S, E}) = 2
  <2>1. IsFiniteSet({S}) /\ Cardinality({S}) = 1
    BY FS_Singleton
  <2>2. {S} \cup {E} = {S, E} /\ E \notin {S}
    BY <1>2
  <2> HIDE DEF S, E
  <2>3. /\ IsFiniteSet({S} \cup {E})
        /\ Cardinality({S} \cup {E}) = Cardinality({S}) + 1
    BY <2>1, <2>2, FS_AddElement
  <2>4. QED
    BY <2>1, <2>2, <2>3
<1>4. IsCompleted(its, size) <=> its = {S, E}
  <2>1. ASSUME IsCompleted(its, size) PROVE its = {S, E}
    <3>1. Cardinality(its) = 2 /\ {S, E} \in SUBSET its
      BY <2>1 DEF IsCompleted
    <3>2. QED
      BY <1>3, <3>1, FS_Subset DEF Paired
  <2>2. ASSUME its = {S, E} PROVE IsCompleted(its, size)
    BY <1>3, <2>2 DEF IsCompleted
  <2>3. QED
    BY <2>1, <2>2
<1> HIDE DEF S, E
<1>5. ASSUME its = {S, E}, NEW p \in 0 .. size - 1 PROVE Recorded(its, p)
  BY <1>2, <1>5 DEF Recorded, getItemOrPrev
<1>6. ASSUME \A p \in 0 .. size - 1 : Recorded(its, p) PROVE its = {S, E}
  <2>1. PICK i \in its : i.offset = 0 /\ i.isUpdated
    <3>1. Recorded(its, 0)
      BY <1>6
    <3>2. QED
      BY <1>1, <3>1 DEF Recorded, getItemOrPrev
  <2>2. PICK j \in its : Follows(its, i, j) /\ ~j.isUpdated
    BY <2>1 DEF Paired
  <2>3. j.offset = size
    <3>1. SUFFICES ASSUME j.offset # size PROVE FALSE
      OBVIOUS
    <3>2. j.offset \in 0 .. size - 1
      BY <1>1, <3>1
    <3>3. PICK k \in its : /\ k.offset <= j.offset /\ k.isUpdated
                           /\ \A h \in its : h.offset <= j.offset => h.offset <= k.offset
      BY <1>6, <3>2 DEF Recorded, getItemOrPrev
    <3>4. k.offset = j.offset
      BY <1>1, <3>3
    <3>5. QED
      BY <2>2, <3>3, <3>4 DEF Paired
  <2>4. i = S /\ j = E
    <3>1. i = [offset |-> i.offset, isUpdated |-> i.isUpdated]
      BY DEF Paired, Item
    <3>2. j = [offset |-> j.offset, isUpdated |-> j.isUpdated]
      BY DEF Paired, Item
    <3>3. i.isUpdated = TRUE /\ j.isUpdated = FALSE
      BY <1>1, <2>1, <2>2
    <3>4. QED
      BY <2>1, <2>3, <3>1, <3>2, <3>3 DEF S, E
  <2>5. ASSUME NEW k \in its PROVE k = i \/ k = j
    <3>1. k.offset = i.offset \/ k.offset = j.offset
      BY <1>1, <2>1, <2>2, <2>3 DEF Follows
    <3>2. QED
      BY <3>1 DEF Paired
  <2>6. QED
    BY <2>4, <2>5
<1>7. QED
  BY <1>4, <1>5, <1>6

\* An update leaves no item outside the file.
LEMMA UpdateWithin ==
  ASSUME NEW its, its \subseteq Item, NEW start \in Nat, NEW end \in Nat, start < end,
         NEW size \in Nat, end <= size, \A i \in its : i.offset <= size
  PROVE  \A i \in Update(its, start, end) : i.offset <= size
<1>1. StartItem(start).offset = start /\ EndItem(end).offset = end
  BY DEF StartItem, EndItem
<1>2. ASSUME NEW i \in Update(its, start, end)
      PROVE  i \in its \/ i = StartItem(start) \/ i = EndItem(end)
  BY UpdateItems
<1>3. QED
  BY <1>1, <1>2

\* Any three ranges, from no items.
LEMMA ThreeUpdates ==
  ASSUME NEW its0, its0 = {}, NEW a \in Ranges, NEW b \in Ranges, NEW c \in Ranges
  PROVE  LET its   == Update(Update(Update(its0, a[1], a[2]), b[1], b[2]), c[1], c[2])
             bytes == UNION {r[1] .. r[2] - 1 : r \in {a, b, c}}
         IN  /\ \A p \in 0 .. RangeSize :
                  p \in bytes <=> \E i \in getItemOrPrev(its, p) : i.isUpdated
             /\ IsCompleted(its, RangeSize) <=> bytes = 0 .. RangeSize - 1
             /\ Alternating(its)
<1> DEFINE its1  == Update(its0, a[1], a[2])
           its2  == Update(its1, b[1], b[2])
           its   == Update(its2, c[1], c[2])
           bytes == UNION {r[1] .. r[2] - 1 : r \in {a, b, c}}
<1>1. \A r \in {a, b, c} : /\ r[1] \in Nat /\ r[2] \in Nat /\ r[1] < r[2]
                          /\ r[2] <= RangeSize
  BY DEF Ranges, RangeSize
<1>2. RangeSize \in Nat \ {0}
  BY DEF RangeSize
<1> HIDE DEF RangeSize
<1>3. /\ Paired(its1)
      /\ \A p \in Nat : Recorded(its1, p) <=> a[1] <= p /\ p < a[2]
      /\ \A i \in its1 : i.offset <= RangeSize
  <2>1. its0 \subseteq Item /\ \A i \in its0 : i.offset <= RangeSize
    OBVIOUS
  <2>2. \A i \in its1 : i.offset <= RangeSize
    BY <1>1, <1>2, <2>1, UpdateWithin
  <2>3. QED
    BY <1>1, <2>2, NoItems, UpdateExact
<1> HIDE DEF its1
<1>4. /\ Paired(its2)
      /\ \A p \in Nat : Recorded(its2, p) <=> Recorded(its1, p) \/ (b[1] <= p /\ p < b[2])
      /\ \A i \in its2 : i.offset <= RangeSize
  <2>1. \A i \in its2 : i.offset <= RangeSize
    BY <1>1, <1>2, <1>3, UpdateWithin DEF Paired
  <2>2. QED
    BY <1>1, <1>3, <2>1, UpdateExact
<1> HIDE DEF its2
<1>5. /\ Paired(its)
      /\ \A p \in Nat : Recorded(its, p) <=> Recorded(its2, p) \/ (c[1] <= p /\ p < c[2])
      /\ \A i \in its : i.offset <= RangeSize
  <2>1. \A i \in its : i.offset <= RangeSize
    BY <1>1, <1>2, <1>4, UpdateWithin DEF Paired
  <2>2. QED
    BY <1>1, <1>4, <2>1, UpdateExact
<1> HIDE DEF its
<1>6. /\ bytes \subseteq 0 .. RangeSize - 1
      /\ \A p \in Nat : p \in bytes <=>
           \/ a[1] <= p /\ p < a[2]
           \/ b[1] <= p /\ p < b[2]
           \/ c[1] <= p /\ p < c[2]
  BY <1>1, <1>2
<1> HIDE DEF bytes
<1>7. \A p \in Nat : p \in bytes <=> Recorded(its, p)
  BY <1>3, <1>4, <1>5, <1>6
<1>8. IsCompleted(its, RangeSize) <=> bytes = 0 .. RangeSize - 1
  <2>1. IsCompleted(its, RangeSize) <=> \A p \in 0 .. RangeSize - 1 : Recorded(its, p)
    BY <1>2, <1>5, CompletedExact
  <2>2. (\A p \in 0 .. RangeSize - 1 : Recorded(its, p))
          <=> 0 .. RangeSize - 1 \subseteq bytes
    BY <1>2, <1>7
  <2>3. QED
    BY <1>6, <2>1, <2>2
<1>9. Alternating(its)
  BY <1>5, PairedAlternating
<1>10. \A p \in 0 .. RangeSize : p \in bytes <=> \E i \in getItemOrPrev(its, p) : i.isUpdated
  BY <1>2, <1>7 DEF Recorded
<1>11. QED
  BY <1>8, <1>9, <1>10 DEF its, its1, its2, bytes
=============================================================================
