----------------------------- MODULE MeshProofs -----------------------------
(***************************************************************************)
(* Proofs about Mesh, for any number of meshes and classes and whatever    *)
(* the application does: the blocks of a class are always exactly the ids  *)
(* its definitions have, and a family that was closed can be loaded.       *)
(***************************************************************************)
EXTENDS Mesh, FiniteSetTheorems, SequenceTheorems, WellFoundedInduction, TLAPS

-----------------------------------------------------------------------------
(***************************************************************************)
(* Blocks.                                                                 *)
(***************************************************************************)
\* A set of natural numbers has a least element, which is Min's.
LEMMA LeastElement ==
    ASSUME NEW T \in SUBSET Nat, T # {}
    PROVE  Min(T) \in T /\ \A y \in T : Min(T) <= y
<1> DEFINE R == StrictSubsetOrdering(Nat)
           U == {0..x : x \in T}
<1>1. IsWellFoundedOn(R, FiniteSubsetsOf(Nat))
  BY FS_StrictSubsetOrderingWellFounded
<1>2. U \subseteq FiniteSubsetsOf(Nat)
  <2>1. \A x \in T : 0..x \subseteq Nat /\ IsFiniteSet(0..x)
    BY FS_Interval
  <2>2. QED
    BY <2>1 DEF FiniteSubsetsOf
<1>3. \E u \in U : \A v \in U : ~(<<v, u>> \in R)
  <2>1. U # {}
    OBVIOUS
  <2> HIDE DEF R, U
  <2>2. QED
    BY <2>1, <1>1, <1>2, WFMin
<1>4. PICK x \in T : \A y \in T : ~(<<0..y, 0..x>> \in R)
  <2>1. PICK u \in U : \A v \in U : ~(<<v, u>> \in R)
    BY <1>3
  <2>2. PICK x \in T : u = 0..x
    BY <2>1
  <2> HIDE DEF R
  <2>3. QED
    BY <2>1, <2>2
<1>5. ASSUME NEW y \in T PROVE x <= y
  <2>1. SUFFICES ASSUME y < x PROVE FALSE
    OBVIOUS
  <2>2. x \in 0..x /\ x \notin 0..y /\ 0..y \subseteq 0..x
    BY <2>1
  <2>3. 0..x \subseteq Nat /\ 0..y \subseteq Nat
    OBVIOUS
  <2>4. <<0..y, 0..x>> \in R
    BY <2>2, <2>3 DEF StrictSubsetOrdering
  <2>5. QED
    BY <2>4, <1>4
<1>6. QED
  BY <1>5 DEF Min

\* Canonical, for blocks that are not neighbours too.
Ordered(blocks) ==
    /\ blocks \in Seq(IdRange)
    /\ \A i, j \in DOMAIN blocks : i < j => blocks[i].stop + 1 < blocks[j].start

\* Blocks in order are in canonical form: they neither overlap nor touch.
LEMMA OrderedIsCanonical ==
    ASSUME NEW blocks, Ordered(blocks)
    PROVE  Canonical(blocks)
  BY DEF Ordered, Canonical

\* The ids of a range, and that it starts and ends at ids.
LEMMA RangeType ==
    ASSUME NEW r \in IdRange
    PROVE  /\ r.start \in Nat /\ r.stop \in Nat /\ 1 <= r.start /\ r.start <= r.stop
           /\ r.stop <= MaxId
           /\ Ids(r) \subseteq 1..MaxId
           /\ IsFiniteSet(Ids(r)) /\ Cardinality(Ids(r)) = r.stop - r.start + 1
<1>1. /\ r.start \in Nat /\ r.stop \in Nat /\ 1 <= r.start /\ r.start <= r.stop
      /\ r.stop <= MaxId /\ MaxId \in Nat
  BY MeshAssumption DEF IdRange
<1>2. IsFiniteSet(Ids(r)) /\ Cardinality(Ids(r)) = r.stop - r.start + 1
  <2>1. r.start \in Int /\ r.stop \in Int /\ ~(r.start > r.stop) /\ Ids(r) = r.start..r.stop
    BY <1>1 DEF Ids
  <2>2. QED
    BY <2>1, FS_Interval
<1>3. QED
  BY <1>1, <1>2 DEF Ids

\* Two blocks of a list in order have no id in common.
LEMMA Disjoint ==
    ASSUME NEW a \in IdRange, NEW b \in IdRange
    PROVE  Overlap(a, b) <=> Ids(a) \cap Ids(b) # {}
<1>1. /\ a.start \in Nat /\ a.stop \in Nat /\ b.start \in Nat /\ b.stop \in Nat
      /\ a.start <= a.stop /\ b.start <= b.stop
  BY RangeType
<1>2. ASSUME Overlap(a, b) PROVE Ids(a) \cap Ids(b) # {}
  <2>1. b.start <= a.stop /\ a.start <= b.stop
    BY <1>1, <1>2 DEF Overlap
  <2>2. CASE a.start <= b.start
    BY <1>1, <2>1, <2>2, b.start \in Ids(a) \cap Ids(b) DEF Ids
  <2>3. CASE b.start <= a.start
    BY <1>1, <2>1, <2>3, a.start \in Ids(a) \cap Ids(b) DEF Ids
  <2>4. QED
    BY <1>1, <2>2, <2>3
<1>3. ASSUME Ids(a) \cap Ids(b) # {} PROVE Overlap(a, b)
  BY <1>1, <1>3 DEF Ids, Overlap
<1>4. QED
  BY <1>2, <1>3

\* Where the walk stops: the blocks before it end before the range starts.
LEMMA Walk ==
    ASSUME NEW blocks \in Seq(IdRange), NEW r \in IdRange
    PROVE  LET p == Place(blocks, r)
           IN  /\ p \in 1..Len(blocks) + 1
               /\ \A q \in 1..p - 1 : blocks[q].stop < r.start
               /\ p <= Len(blocks) => Stops(blocks[p], r)
<1> DEFINE p == Place(blocks, r)
           T == {q \in 1..Len(blocks) + 1 : q <= Len(blocks) => Stops(blocks[q], r)}
<1>1. Len(blocks) \in Nat /\ T \in SUBSET Nat /\ Len(blocks) + 1 \in T
  OBVIOUS
<1>2. Min(T) \in T /\ \A q \in T : Min(T) <= q
  BY <1>1, LeastElement
<1>3. /\ p \in 1..Len(blocks) + 1
      /\ \A q \in 1..p - 1 : ~Stops(blocks[q], r)
      /\ p <= Len(blocks) => Stops(blocks[p], r)
  <2> DEFINE m == Min(T)
  <2>1. m \in 1..Len(blocks) + 1 /\ (m <= Len(blocks) => Stops(blocks[m], r))
    BY <1>2
  <2>2. \A q \in 1..m - 1 : ~Stops(blocks[q], r)
    <3>1. SUFFICES ASSUME NEW q \in 1..m - 1, Stops(blocks[q], r) PROVE FALSE
      OBVIOUS
    <3>2. q \in T
      BY <2>1, <3>1, <1>1
    <3> HIDE DEF T
    <3>3. QED
      BY <2>1, <3>2, <1>2, <1>1
  <2> HIDE DEF m
  <2>3. QED
    BY <2>1, <2>2 DEF Place
<1>4. ASSUME NEW q \in 1..p - 1 PROVE blocks[q].stop < r.start
  <2>1. q \in 1..Len(blocks) /\ blocks[q] \in IdRange /\ ~Stops(blocks[q], r)
    BY <1>1, <1>3
  <2>2. blocks[q].start \in Nat /\ blocks[q].stop \in Nat /\ r.start \in Nat /\ r.stop \in Nat
        /\ r.start <= r.stop
    BY <2>1, RangeType
  <2>3. QED
    BY <2>1, <2>2 DEF Stops, Overlap
<1>5. QED
  BY <1>3, <1>4

\* A range is refused exactly if some of its ids are covered; otherwise the
\* blocks from the place on come after it.
LEMMA Refusal ==
    ASSUME NEW blocks, Ordered(blocks), NEW r \in IdRange
    PROVE  /\ Refused(blocks, r) <=> Ids(r) \cap Covered(blocks) # {}
           /\ ~Refused(blocks, r) =>
                  \A q \in Place(blocks, r)..Len(blocks) : r.stop < blocks[q].start
<1> DEFINE p == Place(blocks, r)
<1>0. /\ blocks \in Seq(IdRange) /\ Len(blocks) \in Nat /\ DOMAIN blocks = 1..Len(blocks)
      /\ \A q \in 1..Len(blocks) : /\ blocks[q] \in IdRange
                                   /\ blocks[q].start \in Nat /\ blocks[q].stop \in Nat
                                   /\ blocks[q].start <= blocks[q].stop
      /\ r.start \in Nat /\ r.stop \in Nat /\ r.start <= r.stop
  BY RangeType DEF Ordered
<1>1. /\ p \in 1..Len(blocks) + 1
      /\ \A q \in 1..p - 1 : blocks[q].stop < r.start
      /\ p <= Len(blocks) => Stops(blocks[p], r)
  BY <1>0, Walk
<1>2. Refused(blocks, r) <=> p <= Len(blocks) /\ Overlap(blocks[p], r)
  BY DEF Refused
<1> HIDE DEF p
<1>3. ASSUME Refused(blocks, r) PROVE Ids(r) \cap Covered(blocks) # {}
  <2>1. p \in DOMAIN blocks /\ Overlap(blocks[p], r)
    BY <1>0, <1>1, <1>2, <1>3
  <2>2. Ids(blocks[p]) \cap Ids(r) # {}
    BY <1>0, <2>1, Disjoint
  <2>3. QED
    BY <2>1, <2>2 DEF Covered
<1>4. ASSUME ~Refused(blocks, r), NEW q \in p..Len(blocks) PROVE r.stop < blocks[q].start
  <2>1. p \in 1..Len(blocks) /\ ~Overlap(blocks[p], r) /\ Stops(blocks[p], r) /\ q \in 1..Len(blocks)
    BY <1>0, <1>1, <1>2, <1>4
  <2>2. r.stop < blocks[p].start
    BY <1>0, <2>1 DEF Overlap, Stops
  <2>3. CASE q = p
    BY <2>2, <2>3
  <2>4. CASE p < q
    <3>1. blocks[p].stop + 1 < blocks[q].start
      BY <1>0, <2>1, <2>4 DEF Ordered
    <3>2. QED
      BY <1>0, <2>1, <2>2, <3>1
  <2>5. QED
    BY <1>1, <2>1, <2>3, <2>4
<1>5. ASSUME ~Refused(blocks, r), Ids(r) \cap Covered(blocks) # {} PROVE FALSE
  <2>1. PICK q \in 1..Len(blocks), x \in Ids(r) : x \in Ids(blocks[q])
    BY <1>0, <1>5 DEF Covered
  <2>2. q \in 1..p - 1 \/ q \in p..Len(blocks)
    BY <1>0, <1>1, <2>1
  <2>3. blocks[q].stop < r.start \/ r.stop < blocks[q].start
    BY <1>1, <1>4, <1>5, <2>2
  <2>4. QED
    BY <1>0, <2>1, <2>3 DEF Ids
<1>6. QED
  BY <1>3, <1>4, <1>5 DEF p

\* RemoveAt takes one element out of a sequence.
LEMMA RemoveAtProperties ==
    ASSUME NEW S, NEW s \in Seq(S), NEW i \in 1..Len(s)
    PROVE  /\ RemoveAt(s, i) \in Seq(S)
           /\ Len(RemoveAt(s, i)) = Len(s) - 1
           /\ \A j \in 1..Len(s) - 1 : RemoveAt(s, i)[j] = IF j < i THEN s[j] ELSE s[j + 1]
<1> DEFINE a == SubSeq(s, 1, i - 1)
           b == SubSeq(s, i + 1, Len(s))
<1>1. Len(s) \in Nat /\ i \in Nat
  OBVIOUS
<1>2. a \in Seq(S) /\ Len(a) = i - 1 /\ \A j \in 1..i - 1 : a[j] = s[j]
  BY <1>1
<1>3. b \in Seq(S) /\ Len(b) = Len(s) - i /\ \A j \in 1..Len(s) - i : b[j] = s[j + i]
  BY <1>1
<1>4. RemoveAt(s, i) = a \o b
  BY DEF RemoveAt
<1> HIDE DEF a, b
<1>5. /\ a \o b \in Seq(S) /\ Len(a \o b) = Len(s) - 1
      /\ \A j \in 1..Len(s) - 1 : (a \o b)[j] = IF j <= i - 1 THEN a[j] ELSE b[j - (i - 1)]
  <2>1. /\ a \o b \in Seq(S) /\ Len(a \o b) = Len(a) + Len(b)
        /\ \A j \in 1..Len(a) + Len(b) :
               (a \o b)[j] = IF j <= Len(a) THEN a[j] ELSE b[j - Len(a)]
    BY <1>2, <1>3, ConcatProperties
  <2>2. Len(a) + Len(b) = Len(s) - 1
    BY <1>1, <1>2, <1>3
  <2>3. QED
    BY <1>2, <2>1, <2>2
<1>6. ASSUME NEW j \in 1..Len(s) - 1
      PROVE  (a \o b)[j] = IF j < i THEN s[j] ELSE s[j + 1]
  <2>1. CASE j < i
    BY <2>1, <1>1, <1>2, <1>5
  <2>2. CASE ~(j < i)
    <3>1. j - (i - 1) \in 1..Len(s) - i /\ (a \o b)[j] = b[j - (i - 1)]
      BY <2>2, <1>1, <1>5, SMTT(30)
    <3>2. b[j - (i - 1)] = s[(j - (i - 1)) + i] /\ (j - (i - 1)) + i = j + 1
      BY <3>1, <1>1, <1>3
    <3>3. QED
      BY <2>2, <3>1, <3>2
  <2>3. QED
    BY <2>1, <2>2
<1>7. QED
  BY <1>4, <1>5, <1>6

IsInsertion(t, s, i, e) ==
    /\ t \in Seq(IdRange) /\ Len(t) = Len(s) + 1
    /\ \A j \in 1..Len(s) + 1 : t[j] = IF j < i THEN s[j] ELSE IF j = i THEN e ELSE s[j - 1]

\* InsertAt is an insertion.
LEMMA InsertAtProperties ==
    ASSUME NEW s \in Seq(IdRange), NEW i \in 1..Len(s) + 1, NEW e \in IdRange
    PROVE  IsInsertion(InsertAt(s, i, e), s, i, e)
<1> DEFINE a == SubSeq(s, 1, i - 1)
           b == SubSeq(s, i, Len(s))
           ae == a \o <<e>>
<1>1. Len(s) \in Nat /\ i \in Nat
  OBVIOUS
<1>2. a \in Seq(IdRange) /\ Len(a) = i - 1 /\ \A j \in 1..i - 1 : a[j] = s[j]
  BY <1>1
<1>3. /\ b \in Seq(IdRange) /\ Len(b) = Len(s) - i + 1
      /\ \A j \in 1..Len(s) - i + 1 : b[j] = s[j + i - 1]
  BY <1>1
<1>4. InsertAt(s, i, e) = ae \o b
  BY DEF InsertAt
<1> HIDE DEF a, b
<1>5. /\ ae \in Seq(IdRange) /\ Len(ae) = i
      /\ \A j \in 1..i - 1 : ae[j] = a[j]
      /\ ae[i] = e
  BY <1>1, <1>2
<1> HIDE DEF ae
<1>6. /\ ae \o b \in Seq(IdRange) /\ Len(ae \o b) = Len(s) + 1
      /\ \A j \in 1..Len(s) + 1 : (ae \o b)[j] = IF j <= i THEN ae[j] ELSE b[j - i]
  BY <1>1, <1>5, <1>3
<1>7. ASSUME NEW j \in 1..Len(s) + 1
      PROVE  (ae \o b)[j] = IF j < i THEN s[j] ELSE IF j = i THEN e ELSE s[j - 1]
  <2>1. CASE j < i
    BY <2>1, <1>1, <1>2, <1>5, <1>6
  <2>2. CASE j = i
    BY <2>2, <1>1, <1>5, <1>6
  <2>3. CASE j > i
    <3>1. j - i \in 1..Len(s) - i + 1 /\ (ae \o b)[j] = b[j - i]
      BY <2>3, <1>1, <1>6
    <3>2. b[j - i] = s[(j - i) + i - 1] /\ (j - i) + i - 1 = j - 1
      BY <3>1, <1>1, <1>3
    <3>3. QED
      BY <2>3, <3>1, <3>2, <1>1
  <2>4. j < i \/ j = i \/ j > i
    BY <1>1
  <2>5. QED
    BY <2>1, <2>2, <2>3, <2>4
<1>8. QED
  BY <1>4, <1>6, <1>7 DEF IsInsertion

\* insert_range keeps the blocks ordered, and covers the range besides.
LEMMA Inserted ==
    ASSUME NEW blocks, Ordered(blocks), NEW r \in IdRange, ~Refused(blocks, r)
    PROVE  /\ Ordered(InsertBlock(blocks, r))
           /\ Covered(InsertBlock(blocks, r)) = Covered(blocks) \cup Ids(r)
<1> DEFINE p == Place(blocks, r)
           n == Len(blocks)
           new == InsertBlock(blocks, r)
           Result == /\ Ordered(new)
                     /\ Covered(new) = Covered(blocks) \cup Ids(r)
<1> SUFFICES Result
  OBVIOUS
<1>0. /\ blocks \in Seq(IdRange) /\ n \in Nat /\ DOMAIN blocks = 1..n /\ n = Len(blocks)
      /\ \A q \in 1..n : /\ blocks[q] \in IdRange
                         /\ blocks[q].start \in Nat /\ blocks[q].stop \in Nat
                         /\ blocks[q].start <= blocks[q].stop
      /\ r.start \in Nat /\ r.stop \in Nat /\ r.start <= r.stop
      /\ \A i, j \in 1..n : i < j => blocks[i].stop + 1 < blocks[j].start
  <2>1. blocks \in Seq(IdRange) /\ \A i, j \in DOMAIN blocks : i < j => blocks[i].stop + 1 < blocks[j].start
    BY DEF Ordered
  <2>2. n \in Nat /\ DOMAIN blocks = 1..n /\ \A q \in 1..n : blocks[q] \in IdRange
    BY <2>1
  <2>3. \A q \in 1..n : /\ blocks[q].start \in Nat /\ blocks[q].stop \in Nat
                         /\ blocks[q].start <= blocks[q].stop
    BY <2>2, RangeType
  <2>4. r.start \in Nat /\ r.stop \in Nat /\ r.start <= r.stop
    BY RangeType
  <2> HIDE DEF n
  <2>5. QED
    BY <2>1, <2>2, <2>3, <2>4 DEF n
<1>1. /\ p \in 1..n + 1
      /\ \A q \in 1..p - 1 : blocks[q].stop < r.start
      /\ \A q \in p..n : r.stop < blocks[q].start
  BY <1>0, Walk, Refusal
<1> DEFINE left  == MeetsLeft(blocks, p, r)
           right == MeetsRight(blocks, p, r)
<1>2. /\ left <=> (p > 1 /\ blocks[p - 1].stop + 1 = r.start)
      /\ right <=> (p <= n /\ blocks[p].start - 1 = r.stop)
  BY DEF MeetsLeft, MeetsRight
<1>3. new = CASE left /\ right  -> RemoveAt([blocks EXCEPT ![p - 1].stop = blocks[p].stop], p)
              [] right /\ ~left -> [blocks EXCEPT ![p].start = r.start]
              [] left /\ ~right -> [blocks EXCEPT ![p - 1].stop = r.stop]
              [] OTHER          -> InsertAt(blocks, p, r)
  BY DEF InsertBlock
<1>4. left \in BOOLEAN /\ right \in BOOLEAN
  BY DEF MeetsLeft, MeetsRight
<1> HIDE DEF p, n, new, left, right
<1>5. ASSUME new \in Seq(IdRange),
             \A i, j \in 1..Len(new) : i < j => new[i].stop + 1 < new[j].start,
             \A x : (\E i \in 1..Len(new) : x \in Ids(new[i]))
                    <=> (x \in Ids(r) \/ \E i \in 1..n : x \in Ids(blocks[i]))
      PROVE  Result
  <2>1. DOMAIN new = 1..Len(new)
    BY <1>5
  <2>2. Ordered(new)
    BY <1>5, <2>1 DEF Ordered
  <2>3. Covered(new) = Covered(blocks) \cup Ids(r)
    BY <1>0, <1>5, <2>1 DEF Covered
  <2>4. QED
    BY <2>2, <2>3
<1>6. CASE left /\ right
  <2>1. /\ p \in 2..n
        /\ blocks[p - 1].stop + 1 = r.start /\ blocks[p].start - 1 = r.stop
    BY <1>0, <1>1, <1>2, <1>6
  <2> DEFINE b == [start |-> blocks[p - 1].start, stop |-> blocks[p].stop]
             w == [blocks EXCEPT ![p - 1].stop = blocks[p].stop]
  <2>2. new = RemoveAt(w, p)
    BY <1>3, <1>6
  <2>3. b \in IdRange
    <3>1. blocks[p - 1] \in IdRange /\ blocks[p] \in IdRange
      BY <1>0, <2>1
    <3>2. b.start <= b.stop
      <4>1. p - 1 \in 1..n /\ p \in 1..n /\ p - 1 < p
        BY <1>0, <2>1
      <4>2. blocks[p - 1].stop + 1 < blocks[p].start
        BY <4>1, <1>0
      <4>3. QED
        BY <4>1, <4>2, <1>0, SMTT(30)
    <3>3. QED
      BY <3>1, <3>2 DEF IdRange
  <2>4. w = [blocks EXCEPT ![p - 1] = b]
    <3>1. blocks[p - 1] \in [start : 1..MaxId, stop : 1..MaxId]
      BY <1>0, <2>1 DEF IdRange
    <3>2. [blocks[p - 1] EXCEPT !.stop = blocks[p].stop] = b
      BY <3>1
    <3>3. QED
      BY <3>2
  <2>5. /\ w \in Seq(IdRange) /\ Len(w) = n
        /\ \A i \in 1..n : w[i] = IF i = p - 1 THEN b ELSE blocks[i]
    <3> HIDE DEF w, b
    <3>1. p - 1 \in 1..Len(blocks)
      BY <1>0, <2>1
    <3>2. QED
      BY <1>0, <2>3, <2>4, <3>1, ExceptSeq
  <2>6. /\ new \in Seq(IdRange) /\ Len(new) = n - 1
        /\ \A i \in 1..n - 1 : new[i] = IF i < p THEN w[i] ELSE w[i + 1]
    <3> HIDE DEF w, b
    <3>1. p \in 1..Len(w)
      BY <2>1, <2>5
    <3>2. QED
      BY <2>2, <2>5, <3>1, RemoveAtProperties
  <2>7. \A i \in 1..n - 1 : new[i] = IF i < p - 1 THEN blocks[i]
                                     ELSE IF i = p - 1 THEN b ELSE blocks[i + 1]
    <3> HIDE DEF w, b
    <3>1. QED
      BY <1>0, <2>1, <2>5, <2>6
  <2>8. b.start = blocks[p - 1].start /\ b.stop = blocks[p].stop
    OBVIOUS
  <2> HIDE DEF w, b
  <2>9. ASSUME NEW i \in 1..Len(new), NEW j \in 1..Len(new), i < j
        PROVE  new[i].stop + 1 < new[j].start
    <3> DEFINE i2 == IF i < p - 1 THEN i ELSE i + 1
               j2 == IF j <= p - 1 THEN j ELSE j + 1
    <3>1. i2 \in 1..n /\ j2 \in 1..n /\ i2 < j2
      BY <1>0, <2>1, <2>6, <2>9
    <3>2. i \in 1..n - 1 /\ j \in 1..n - 1 /\ p - 1 + 1 = p
      BY <1>0, <2>1, <2>6
    <3>3. new[i].stop = blocks[i2].stop
      BY <3>2, <1>0, <2>1, <2>7, <2>8
    <3>4. new[j].start = blocks[j2].start
      <4>1. CASE j < p - 1
        BY <4>1, <3>2, <2>1, <2>7
      <4>2. CASE j = p - 1
        BY <4>2, <3>2, <2>1, <2>7, <2>8
      <4>3. CASE j > p - 1
        <5>1. ~(j < p - 1) /\ j # p - 1 /\ j2 = j + 1
          BY <4>3, <2>1
        <5>2. QED
          BY <5>1, <3>2, <2>7
      <4>4. QED
        BY <4>1, <4>2, <4>3, <3>2, <2>1
    <3> HIDE DEF i2, j2
    <3>5. QED
      BY <1>0, <3>1, <3>3, <3>4
  <2>10. \A x : x \in Ids(b) <=> x \in Ids(blocks[p - 1]) \/ x \in Ids(r) \/ x \in Ids(blocks[p])
    <3>1. /\ p - 1 \in 1..n /\ p \in 1..n
          /\ blocks[p - 1].start <= blocks[p - 1].stop /\ blocks[p].start <= blocks[p].stop
          /\ blocks[p - 1].start \in Nat /\ blocks[p - 1].stop \in Nat
          /\ blocks[p].start \in Nat /\ blocks[p].stop \in Nat
      BY <1>0, <2>1
    <3>2. \A x : x \in Ids(b) <=> x \in Int /\ blocks[p - 1].start <= x /\ x <= blocks[p].stop
      BY <3>1, <2>8 DEF Ids
    <3>3. \A x : x \in Ids(blocks[p - 1]) <=> x \in Int /\ blocks[p - 1].start <= x /\ x <= blocks[p - 1].stop
      BY <3>1 DEF Ids
    <3>4. \A x : x \in Ids(blocks[p]) <=> x \in Int /\ blocks[p].start <= x /\ x <= blocks[p].stop
      BY <3>1 DEF Ids
    <3>5. \A x : x \in Ids(r) <=> x \in Int /\ r.start <= x /\ x <= r.stop
      BY <1>0 DEF Ids
    <3>6. r.start \in Nat /\ r.stop \in Nat /\ r.start <= r.stop
      BY <1>0
    <3>7. QED
      BY <3>1, <3>2, <3>3, <3>4, <3>5, <3>6, <2>1
  <2>11. ASSUME NEW x, NEW i \in 1..Len(new), x \in Ids(new[i])
         PROVE  x \in Ids(r) \/ \E k \in 1..n : x \in Ids(blocks[k])
    <3>1. CASE i < p - 1
      BY <3>1, <2>1, <2>6, <2>7, <2>11, <1>0, i \in 1..n
    <3>2. CASE i = p - 1
      <4>1. p - 1 \in 1..n /\ p \in 1..n /\ i \in 1..n - 1 /\ ~(i < p - 1)
        BY <3>2, <2>1, <2>6, <1>0
      <4>2. x \in Ids(b)
        BY <3>2, <4>1, <2>7, <2>11
      <4>3. QED
        BY <4>1, <4>2, <2>10
    <3>3. CASE i > p - 1
      <4>1. i + 1 \in 1..n /\ i \in 1..n - 1 /\ ~(i < p - 1) /\ i # p - 1
        BY <3>3, <2>1, <2>6, <1>0
      <4>2. new[i] = blocks[i + 1]
        BY <4>1, <2>7
      <4>3. QED
        BY <4>1, <4>2, <2>11
    <3>4. QED
      BY <2>1, <2>6, <1>0, <3>1, <3>2, <3>3
  <2>12. ASSUME NEW x, x \in Ids(r) \/ \E k \in 1..n : x \in Ids(blocks[k])
         PROVE  \E i \in 1..Len(new) : x \in Ids(new[i])
    <3>1. CASE x \in Ids(b)
      BY <3>1, <2>1, <2>6, <2>7, <1>0, p - 1 \in 1..Len(new)
    <3>2. CASE x \notin Ids(b)
      <4>1. PICK k \in 1..n : x \in Ids(blocks[k]) /\ k # p - 1 /\ k # p
        BY <2>10, <2>12, <3>2
      <4>2. CASE k < p - 1
        BY <4>1, <4>2, <2>1, <2>6, <2>7, <1>0, k \in 1..Len(new)
      <4>3. CASE k > p
        <5>1. /\ k - 1 \in 1..n - 1 /\ k - 1 \in 1..Len(new) /\ (k - 1) + 1 = k
              /\ ~(k - 1 < p - 1) /\ k - 1 # p - 1
          BY <4>1, <4>3, <2>1, <2>6, <1>0
        <5>2. new[k - 1] = blocks[(k - 1) + 1]
          BY <5>1, <2>7
        <5>3. QED
          BY <4>1, <5>1, <5>2
      <4>4. QED
        BY <4>1, <4>2, <4>3, <2>1, <1>0
    <3>3. QED
      BY <3>1, <3>2
  <2>13. QED
    BY <2>6, <2>9, <2>11, <2>12, <1>5
<1>7. CASE right /\ ~left
  <2> DEFINE b == [start |-> r.start, stop |-> blocks[p].stop]
  <2>1. /\ p \in 1..n /\ blocks[p].start - 1 = r.stop
        /\ p > 1 => blocks[p - 1].stop + 1 # r.start
    BY <1>0, <1>1, <1>2, <1>7
  <2>2. b \in IdRange
    <3>1. blocks[p] \in IdRange /\ r \in IdRange
      BY <1>0, <2>1
    <3>2. b.start <= b.stop
      BY <1>0, <2>1
    <3>3. QED
      BY <3>1, <3>2 DEF IdRange
  <2>3. new = [blocks EXCEPT ![p] = b]
    <3>1. blocks[p] \in [start : 1..MaxId, stop : 1..MaxId]
      BY <1>0, <2>1 DEF IdRange
    <3>2. [blocks[p] EXCEPT !.start = r.start] = b
      BY <3>1
    <3>3. new = [blocks EXCEPT ![p].start = r.start]
      BY <1>3, <1>4, <1>7
    <3>4. QED
      BY <3>2, <3>3
  <2>4. /\ new \in Seq(IdRange) /\ Len(new) = n
        /\ \A i \in 1..n : new[i] = IF i = p THEN b ELSE blocks[i]
    BY <1>0, <2>1, <2>2, <2>3
  <2>5. b.start = r.start /\ b.stop = blocks[p].stop
    OBVIOUS
  <2> HIDE DEF b
  <2>6. ASSUME NEW i \in 1..Len(new), NEW j \in 1..Len(new), i < j
        PROVE  new[i].stop + 1 < new[j].start
    <3>1. CASE j # p
      BY <3>1, <1>0, <2>1, <2>4, <2>5, <2>6
    <3>2. CASE j = p
      <4>1. i \in 1..p - 1 /\ i \in 1..n /\ p - 1 \in 1..n /\ new[i] = blocks[i]
            /\ new[j].start = r.start
        BY <3>2, <1>0, <2>1, <2>4, <2>5, <2>6
      <4>2. blocks[p - 1].stop + 1 < r.start
        BY <4>1, <1>0, <1>1, <2>1, SMTT(30)
      <4>3. i = p - 1 \/ blocks[i].stop + 1 < blocks[p - 1].start
        BY <4>1, <1>0
      <4>4. blocks[i].stop + 1 < r.start
        BY <4>1, <4>2, <4>3, <1>0, SMTT(30)
      <4>5. QED
        BY <4>1, <4>4
    <3>3. QED
      BY <3>1, <3>2
  <2>7. \A x : x \in Ids(b) <=> x \in Ids(r) \/ x \in Ids(blocks[p])
    BY <1>0, <2>1, <2>5 DEF Ids
  <2>8. \A x : (\E i \in 1..Len(new) : x \in Ids(new[i]))
               <=> (x \in Ids(r) \/ \E i \in 1..n : x \in Ids(blocks[i]))
    BY <2>1, <2>4, <2>7
  <2>9. QED
    BY <2>4, <2>6, <2>8, <1>5
<1>8. CASE left /\ ~right
  <2> DEFINE b == [start |-> blocks[p - 1].start, stop |-> r.stop]
  <2>1. /\ p - 1 \in 1..n /\ blocks[p - 1].stop + 1 = r.start
        /\ p <= n => blocks[p].start - 1 # r.stop
    BY <1>0, <1>1, <1>2, <1>8
  <2>2. b \in IdRange
    <3>1. blocks[p - 1] \in IdRange /\ r \in IdRange
      BY <1>0, <2>1
    <3>2. b.start <= b.stop
      BY <1>0, <2>1
    <3>3. QED
      BY <3>1, <3>2 DEF IdRange
  <2>3. new = [blocks EXCEPT ![p - 1] = b]
    <3>1. blocks[p - 1] \in [start : 1..MaxId, stop : 1..MaxId]
      BY <1>0, <2>1 DEF IdRange
    <3>2. [blocks[p - 1] EXCEPT !.stop = r.stop] = b
      BY <3>1
    <3>3. new = [blocks EXCEPT ![p - 1].stop = r.stop]
      BY <1>3, <1>4, <1>8
    <3>4. QED
      BY <3>2, <3>3
  <2>4. /\ new \in Seq(IdRange) /\ Len(new) = n
        /\ \A i \in 1..n : new[i] = IF i = p - 1 THEN b ELSE blocks[i]
    BY <1>0, <2>1, <2>2, <2>3
  <2>5. b.start = blocks[p - 1].start /\ b.stop = r.stop
    OBVIOUS
  <2> HIDE DEF b
  <2>6. ASSUME NEW i \in 1..Len(new), NEW j \in 1..Len(new), i < j
        PROVE  new[i].stop + 1 < new[j].start
    <3>1. CASE i # p - 1
      BY <3>1, <1>0, <2>1, <2>4, <2>5, <2>6
    <3>2. CASE i = p - 1
      <4>1. p \in 1..n /\ j \in p..n /\ j \in 1..n /\ new[j] = blocks[j] /\ new[i].stop = r.stop
        BY <3>2, <1>0, <1>1, <2>1, <2>4, <2>5, <2>6
      <4>2. r.stop + 1 < blocks[p].start
        <5>1. p \in 1..n /\ p \in p..n /\ p <= n
          BY <4>1, <1>0
        <5>2. r.stop < blocks[p].start /\ blocks[p].start \in Nat
          BY <5>1, <1>0, <1>1
        <5>4. blocks[p].start - 1 # r.stop
          BY <5>1, <2>1
        <5>3. r.stop \in Nat
          BY <1>0
        <5>5. QED
          BY <5>2, <5>3, <5>4
      <4>3. j = p \/ blocks[p].stop + 1 < blocks[j].start
        BY <4>1, <1>0
      <4>4. r.stop + 1 < blocks[j].start
        BY <4>1, <4>2, <4>3, <1>0
      <4>5. QED
        BY <4>1, <4>4
    <3>3. QED
      BY <3>1, <3>2
  <2>7. \A x : x \in Ids(b) <=> x \in Ids(r) \/ x \in Ids(blocks[p - 1])
    BY <1>0, <2>1, <2>5 DEF Ids
  <2>8. \A x : (\E i \in 1..Len(new) : x \in Ids(new[i]))
               <=> (x \in Ids(r) \/ \E i \in 1..n : x \in Ids(blocks[i]))
    BY <2>1, <2>4, <2>7
  <2>9. QED
    BY <2>4, <2>6, <2>8, <1>5
<1>9. CASE ~left /\ ~right
  <2>1. /\ p > 1 => blocks[p - 1].stop + 1 # r.start
        /\ p <= n => blocks[p].start - 1 # r.stop
    BY <1>2, <1>9
  <2>2. new = InsertAt(blocks, p, r)
    BY <1>3, <1>4, <1>9
  <2>3. /\ new \in Seq(IdRange) /\ Len(new) = n + 1
        /\ \A i \in 1..n + 1 : new[i] = IF i < p THEN blocks[i]
                                        ELSE IF i = p THEN r ELSE blocks[i - 1]
    <3>1. p \in 1..Len(blocks) + 1
      BY <1>0, <1>1
    <3>2. blocks \in Seq(IdRange) /\ n = Len(blocks)
      BY <1>0
    <3>3. IsInsertion(new, blocks, p, r)
      BY <2>2, <3>1, <3>2, InsertAtProperties
    <3>4. QED
      BY <3>2, <3>3 DEF IsInsertion
  <2>4. \A i \in 1..n : i < p => blocks[i].stop + 1 < r.start
    <3>1. SUFFICES ASSUME NEW i \in 1..n, i < p PROVE blocks[i].stop + 1 < r.start
      OBVIOUS
    <3>2. p - 1 \in 1..n /\ p - 1 \in 1..p - 1 /\ p > 1
      BY <1>0, <1>1, <3>1
    <3>3. blocks[p - 1].stop + 1 < r.start
      <4>1. blocks[p - 1].stop < r.start /\ blocks[p - 1].stop + 1 # r.start
        BY <3>2, <1>1, <2>1
      <4>2. blocks[p - 1].stop \in Nat /\ r.start \in Nat
        BY <3>2, <1>0
      <4>3. QED
        BY <4>1, <4>2
    <3>4. i = p - 1 \/ blocks[i].stop + 1 < blocks[p - 1].start
      <4>1. i = p - 1 \/ i < p - 1
        BY <3>1, <3>2, <1>0, <1>1
      <4>2. QED
        BY <3>1, <3>2, <4>1, <1>0
    <3>5. QED
      BY <3>2, <3>3, <3>4, <1>0, SMTT(30)
  <2>5. \A j \in 1..n : j >= p => r.stop + 1 < blocks[j].start
    <3>1. SUFFICES ASSUME NEW j \in 1..n, j >= p PROVE r.stop + 1 < blocks[j].start
      OBVIOUS
    <3>2. p \in 1..n /\ p \in p..n
      BY <1>0, <1>1, <3>1
    <3>3. r.stop + 1 < blocks[p].start
      BY <3>2, <1>0, <1>1, <2>1
    <3>4. j = p \/ blocks[p].stop + 1 < blocks[j].start
      BY <3>1, <3>2, <1>0, <1>1
    <3>5. QED
      BY <3>2, <3>3, <3>4, <1>0, SMTT(30)
  <2>6. ASSUME NEW i \in 1..Len(new), NEW j \in 1..Len(new), i < j
        PROVE  new[i].stop + 1 < new[j].start
    <3>1. i \in 1..n + 1 /\ j \in 1..n + 1
      BY <2>3
    <3>2. CASE i < p /\ j < p
      <4>1. i \in 1..n /\ j \in 1..n
        BY <3>1, <3>2, <1>0, <1>1
      <4>2. new[i] = blocks[i] /\ new[j] = blocks[j]
        BY <3>1, <3>2, <2>3
      <4>3. QED
        BY <4>1, <4>2, <1>0, <2>6
    <3>3. CASE i < p /\ j = p
      <4>1. i \in 1..n /\ new[i] = blocks[i] /\ new[j] = r
        BY <3>1, <3>3, <1>0, <1>1, <2>3
      <4>2. QED
        BY <4>1, <3>3, <2>4
    <3>4. CASE i < p /\ j > p
      <4>1. i \in 1..n /\ j - 1 \in 1..n /\ i < j - 1 /\ ~(j < p) /\ j # p
        BY <3>1, <3>4, <1>0, <1>1
      <4>2. new[i] = blocks[i] /\ new[j] = blocks[j - 1]
        BY <3>1, <3>4, <4>1, <2>3
      <4>3. QED
        BY <4>1, <4>2, <1>0
    <3>5. CASE i = p
      <4>1. j - 1 \in 1..n /\ j - 1 >= p /\ ~(i < p) /\ ~(j < p) /\ j # p
        BY <3>1, <3>5, <1>0, <1>1, <2>6
      <4>2. new[i] = r /\ new[j] = blocks[j - 1]
        BY <3>1, <3>5, <4>1, <2>3
      <4>3. QED
        BY <4>1, <4>2, <2>5
    <3>6. CASE i > p
      <4>1. /\ i - 1 \in 1..n /\ j - 1 \in 1..n /\ i - 1 < j - 1
            /\ ~(i < p) /\ i # p /\ ~(j < p) /\ j # p
        BY <3>1, <3>6, <1>0, <1>1, <2>6
      <4>2. new[i] = blocks[i - 1] /\ new[j] = blocks[j - 1]
        BY <3>1, <4>1, <2>3
      <4>3. QED
        BY <4>1, <4>2, <1>0
    <3>7. QED
      BY <3>1, <1>1, <3>2, <3>3, <3>4, <3>5, <3>6
  <2>7. ASSUME NEW x, NEW i \in 1..Len(new), x \in Ids(new[i])
        PROVE  x \in Ids(r) \/ \E k \in 1..n : x \in Ids(blocks[k])
    <3>1. CASE i < p
      BY <3>1, <1>0, <1>1, <2>3, <2>7, i \in 1..n
    <3>2. CASE i = p
      BY <3>2, <1>0, <1>1, <2>3, <2>7
    <3>3. CASE i > p
      BY <3>3, <1>0, <1>1, <2>3, <2>7, i - 1 \in 1..n
    <3>4. QED
      BY <1>1, <2>3, <3>1, <3>2, <3>3
  <2>8. ASSUME NEW x, x \in Ids(r) \/ \E k \in 1..n : x \in Ids(blocks[k])
        PROVE  \E i \in 1..Len(new) : x \in Ids(new[i])
    <3>1. CASE x \in Ids(r)
      BY <3>1, <1>0, <1>1, <2>3
    <3>2. ASSUME NEW k \in 1..n, x \in Ids(blocks[k]), k < p
          PROVE  \E i \in 1..Len(new) : x \in Ids(new[i])
      BY <3>2, <1>0, <1>1, <2>3, k \in 1..n + 1
    <3>3. ASSUME NEW k \in 1..n, x \in Ids(blocks[k]), k >= p
          PROVE  \E i \in 1..Len(new) : x \in Ids(new[i])
      <4>1. k + 1 \in 1..n + 1 /\ new[k + 1] = blocks[(k + 1) - 1] /\ (k + 1) - 1 = k
        BY <3>3, <1>0, <1>1, <2>3
      <4>2. QED
        BY <4>1, <3>3, <2>3
    <3>4. QED
      BY <1>0, <1>1, <2>8, <3>1, <3>2, <3>3
  <2>9. QED
    BY <2>3, <2>6, <2>7, <2>8, <1>5
<1>10. QED
  BY <1>4, <1>6, <1>7, <1>8, <1>9

-----------------------------------------------------------------------------
(***************************************************************************)
(* The invariant: what the files say in every state, and how what is in    *)
(* memory follows from the entries that are read, Known.                   *)
(***************************************************************************)
EntryOf(D) == [type : Types, mesh : MeshIds, name : Names \cup Classes,
               superclass : Superclasses \cup {"none"}, ranges : Seq(IdRange), data : D]

IsMesh(p)   == At(p).type = "MESH_NAME"
IsClass(p)  == At(p).type = "CLASS_DEF"
IsObject(p) == At(p).type \in ObjectTypes
Of(p, m, c) == At(p).mesh = m /\ At(p).name = c

Seen(p) == proc = "loading" => Earlier(p, at)
Known   == {p \in Places : Seen(p)}

\* The definition of a class that counts: a later one changes nothing.
FirstDef(q, m, c) ==
    /\ IsClass(q) /\ Of(q, m, c)
    /\ \A p \in Places : IsClass(p) /\ Of(p, m, c) => p = q \/ Earlier(q, p)

\* The superclass whose objects a type of entry defines.
Fits(type, s) == <<type, s>> \in {<<"NODES", "node">>, <<"ELEM_CONNS", "element">>,
                                  <<"CLASS_IDENTS", "ident">>, <<"SURFACE_CONNS", "surface">>}

FilesTyped ==
    /\ \E D : files \in Seq(Seq(EntryOf(D)))
    /\ files # << >>
    /\ \A i \in 2..Len(files) : files[i] # << >>
    /\ \A p \in Places : ~IsMesh(p) => At(p).name \in Classes

\* The meshes are named in the order of their ids, each once.
MeshesInOrder ==
    \A p \in Places : IsMesh(p) =>
        /\ At(p).name \in Names
        /\ \A q \in Places \ {p} : IsMesh(q) => At(q).mesh # At(p).mesh /\ At(q).name # At(p).name
        /\ \A k \in 1..At(p).mesh - 1 :
               \E q \in Places : IsMesh(q) /\ Earlier(q, p) /\ At(q).mesh = k

MeshesNamed ==
    \A p \in Places : ~IsMesh(p) =>
        \E q \in Places : IsMesh(q) /\ Earlier(q, p) /\ At(q).mesh = At(p).mesh

\* Objects come after the definition of their class, which has their superclass.
ClassesNamed ==
    /\ \A p \in Places : IsClass(p) => At(p).superclass \in Superclasses
    /\ \A p \in Places : IsObject(p) =>
           \E q \in Places : /\ FirstDef(q, At(p).mesh, At(p).name) /\ Earlier(q, p)
                             /\ Fits(At(p).type, At(q).superclass)

\* The ids of the surfaces of a class count their entries.
SurfacesInOrder ==
    \A p \in Places : At(p).type = "SURFACE_CONNS" =>
        \E s \in 1..MaxId :
            /\ At(p).ranges = <<[start |-> s, stop |-> s]>>
            /\ s > 1 => \E q \in Places : /\ IsObject(q) /\ Of(q, At(p).mesh, At(p).name)
                                          /\ Earlier(q, p) /\ s - 1 \in Covered(At(q).ranges)

IdsOnce ==
    \A p, q \in Places : \A k \in DOMAIN At(p).ranges, l \in DOMAIN At(q).ranges :
        /\ IsObject(p) /\ IsObject(q)
        /\ At(p).mesh = At(q).mesh /\ At(p).name = At(q).name
        /\ <<p, k>> # <<q, l>>
        => Ids(At(p).ranges[k]) \cap Ids(At(q).ranges[l]) = {}

FilesInv == /\ FilesTyped /\ MeshesInOrder /\ MeshesNamed /\ ClassesNamed
            /\ SurfacesInOrder /\ IdsOnce

\* The blocks of the entry in progress that are added.
Pending(m, c) ==
    IF doing # "none" /\ entry.mesh = m /\ entry.name = c
    THEN UNION {Ids(entry.ranges[k]) : k \in 1..added} ELSE {}

MeshesLoaded ==
    /\ meshes \in Seq([name : Names, table : [Classes -> ClassRecord]])
    /\ \A m, k \in DOMAIN meshes : m # k => meshes[m].name # meshes[k].name
    /\ proc \in {"open", "loading"} =>
           \A m \in MeshIds : m \in DOMAIN meshes <=>
               \E p \in Known : IsMesh(p) /\ At(p).mesh = m
    /\ \A p \in Known : proc \in {"open", "loading"} /\ IsMesh(p)
           => meshes[At(p).mesh].name = At(p).name

ClassLoaded(m, c) ==
    IF Class(m, c).superclass = "none"
    THEN /\ Class(m, c) = ClassData("none")
         /\ ~\E q \in Known : IsClass(q) /\ Of(q, m, c)
    ELSE \E q \in Known : /\ FirstDef(q, m, c)
                          /\ At(q).superclass = Class(m, c).superclass

BlocksLoaded(m, c) ==
    LET t == Class(m, c)
    IN  /\ Ordered(t.blocks)
        /\ Covered(t.blocks) = Recorded(m, c) \cup stranded[m][c] \cup Pending(m, c)
        /\ t.object_qty = Cardinality(Covered(t.blocks))
        /\ t.superclass = "surface" => /\ stranded[m][c] = {}
                                       /\ Covered(t.blocks) = 1..NextSurface(t.blocks) - 1

StrandedInv ==
    /\ stranded \in [MeshIds -> [Classes -> SUBSET (1..MaxId)]]
    /\ \A m \in MeshIds, c \in Classes :
           proc = "loading" \/ (proc = "open" /\ m \notin DOMAIN meshes) => stranded[m][c] = {}

MemoryInv ==
    /\ MeshesLoaded /\ StrandedInv
    /\ \A m \in DOMAIN meshes, c \in Classes : ClassLoaded(m, c) /\ BlocksLoaded(m, c)

\* A surface in progress gets the next id.
SurfaceInv ==
    entry.type = "SURFACE_CONNS" =>
        \E s \in 1..MaxId :
            /\ entry.ranges = <<[start |-> s, stop |-> s]>>
            /\ added = 0 => s = NextSurface(Class(entry.mesh, entry.name).blocks)
            /\ s > 1 => s - 1 \in Recorded(entry.mesh, entry.name)

EntryInv ==
    /\ entry.type \in ObjectTypes
    /\ entry.mesh \in DOMAIN meshes /\ entry.name \in Classes
    /\ entry.ranges \in Seq(IdRange)
    /\ added \in 0..Len(entry.ranges)
    /\ Fits(entry.type, Class(entry.mesh, entry.name).superclass)
    /\ SurfaceInv

\* The blocks a call has added are free.
DefineInv ==
    /\ proc = "open"
    /\ entry \in EntryOf({entry.data})
    /\ entry.type = "NODES" => Len(entry.ranges) = 1
    /\ \A k \in 1..added : Ids(entry.ranges[k]) \cap Recorded(entry.mesh, entry.name) = {}
    /\ \A k, l \in 1..added : k # l => Ids(entry.ranges[k]) \cap Ids(entry.ranges[l]) = {}

LoadInv ==
    /\ proc = "loading" /\ at \in Places
    /\ entry.type = At(at).type /\ entry.mesh = At(at).mesh
    /\ entry.name = At(at).name /\ entry.ranges = At(at).ranges

CallInv ==
    /\ proc \in {"open", "loading", "closed"}
    /\ proc = "loading" => at \in Places \/ at = <<Len(files) + 1, 1>>
    /\ proc = "closed" => meshes = << >> /\ doing = "none"
    /\ doing \in {"none", "define", "load"}
    /\ doing # "none" => EntryInv
    /\ doing = "define" => DefineInv
    /\ doing = "load" => LoadInv

IInv == FilesInv /\ MemoryInv /\ CallInv

-----------------------------------------------------------------------------
(***************************************************************************)
(* Places, and what a step does to them.                                   *)
(***************************************************************************)
\* A place is a file and an entry of it.
LEMMA PlaceIs ==
    ASSUME NEW S, files \in Seq(Seq(S))
    PROVE  /\ Len(files) \in Nat /\ DOMAIN files = 1..Len(files)
           /\ \A i \in 1..Len(files) : files[i] \in Seq(S) /\ Len(files[i]) \in Nat
           /\ \A p : p \in Places <=> \E i \in 1..Len(files) : \E j \in 1..Len(files[i]) : p = <<i, j>>
           /\ \A p \in Places : At(p) \in S
<1>1. /\ Len(files) \in Nat /\ DOMAIN files = 1..Len(files)
      /\ \A i \in 1..Len(files) : files[i] \in Seq(S) /\ Len(files[i]) \in Nat
                                  /\ DOMAIN files[i] = 1..Len(files[i])
  OBVIOUS
<1>2. \A p : p \in Places <=> \E i \in 1..Len(files) : \E j \in 1..Len(files[i]) : p = <<i, j>>
  <2>1. \A i, p : p \in {i} \X DOMAIN files[i] <=> \E j \in DOMAIN files[i] : p = <<i, j>>
    OBVIOUS
  <2>2. QED
    BY <1>1, <2>1 DEF Places
<1>3. \A p \in Places : At(p) \in S
  <2>1. SUFFICES ASSUME NEW i \in 1..Len(files), NEW j \in 1..Len(files[i])
                 PROVE  files[i][j] \in S
    BY <1>2 DEF At
  <2>2. QED
    BY <1>1
<1>4. QED
  BY <1>1, <1>2, <1>3

\* The same after a step.
LEMMA PlaceIsNext ==
    ASSUME NEW S, files' \in Seq(Seq(S))
    PROVE  /\ Len(files') \in Nat /\ DOMAIN files' = 1..Len(files')
           /\ \A i \in 1..Len(files') : files'[i] \in Seq(S) /\ Len(files'[i]) \in Nat
           /\ \A p : p \in Places' <=> \E i \in 1..Len(files') : \E j \in 1..Len(files'[i]) : p = <<i, j>>
<1>1. /\ Len(files') \in Nat /\ DOMAIN files' = 1..Len(files')
      /\ \A i \in 1..Len(files') : files'[i] \in Seq(S) /\ Len(files'[i]) \in Nat
                                  /\ DOMAIN files'[i] = 1..Len(files'[i])
  OBVIOUS
<1>2. \A p : p \in Places' <=> \E i \in 1..Len(files') : \E j \in 1..Len(files'[i]) : p = <<i, j>>
  <2>1. \A i, p : p \in {i} \X DOMAIN files'[i] <=> \E j \in DOMAIN files'[i] : p = <<i, j>>
    OBVIOUS
  <2>2. QED
    BY <1>1, <2>1 DEF Places
<1>3. QED
  BY <1>1, <1>2

\* Places are ordered.
LEMMA PlacesOrdered ==
    ASSUME NEW S, files \in Seq(Seq(S))
    PROVE  \A p, q \in Places : /\ ~(Earlier(p, q) /\ Earlier(q, p))
                                /\ p = q \/ Earlier(p, q) \/ Earlier(q, p)
                                /\ ~Earlier(p, p)
<1>1. SUFFICES ASSUME NEW i \in Nat, NEW j \in Nat, NEW k \in Nat, NEW l \in Nat
               PROVE  /\ ~(Earlier(<<i, j>>, <<k, l>>) /\ Earlier(<<k, l>>, <<i, j>>))
                      /\ <<i, j>> = <<k, l>> \/ Earlier(<<i, j>>, <<k, l>>) \/ Earlier(<<k, l>>, <<i, j>>)
                      /\ ~Earlier(<<i, j>>, <<i, j>>)
  <2>1. \A p \in Places : \E i, j \in Nat : p = <<i, j>>
    BY PlaceIs
  <2>2. QED
    BY <2>1, <1>1
<1>2. QED
  BY DEF Earlier

\* The entries that are read become one more.
Grows(n, e) ==
    /\ n \notin Known
    /\ Known' = Known \cup {n}
    /\ \A p \in Known : At(p)' = At(p)
    /\ At(n)' = e
    /\ \A q \in Known : \A m, c : FirstDef(q, m, c) => FirstDef(q, m, c)'
    /\ \A m, c : e.type = "CLASS_DEF" /\ e.mesh = m /\ e.name = c
                 /\ ~(\E q \in Known : IsClass(q) /\ Of(q, m, c))
                 => FirstDef(n, m, c)'

\* A new entry comes after all others.
Appended(n, e) ==
    /\ n \notin Places
    /\ Places' = Places \cup {n}
    /\ \A p \in Places : Earlier(p, n) /\ At(p)' = At(p)
    /\ At(n)' = e

\* add_dir_entry moves no entry: it appends one, to the file at work or a new one.
LEMMA EnterAppends ==
    ASSUME NEW D, files \in Seq(Seq(EntryOf(D))), files # << >>,
           \A i \in 2..Len(files) : files[i] # << >>,
           NEW e, e \in EntryOf({e.data}), Enter(e)
    PROVE  /\ \E n : Appended(n, e)
           /\ \E T : files' \in Seq(Seq(EntryOf(T)))
           /\ files' # << >>
           /\ \A i \in 2..Len(files') : files'[i] # << >>
<1> DEFINE T == D \cup {e.data}
           E == EntryOf(T)
           n == Len(files)
<1>1. e \in E /\ EntryOf(D) \subseteq E
  BY DEF EntryOf
<1>2. files \in Seq(Seq(E))
  <2>1. \A s \in Seq(EntryOf(D)) : s \in Seq(E)
    BY <1>1, SeqMonotonic
  <2> HIDE DEF E
  <2>2. QED
    BY <2>1, SeqMonotonic
<1> HIDE DEF E, T
<1>3. /\ n \in Nat \ {0} /\ DOMAIN files = 1..n
      /\ \A i \in 1..n : files[i] \in Seq(E) /\ Len(files[i]) \in Nat
      /\ \A p : p \in Places <=> \E i \in 1..n : \E j \in 1..Len(files[i]) : p = <<i, j>>
  BY <1>2, PlaceIs
<1>4. CASE fresh
  <2> DEFINE last == files[n]
             l == Len(last)
             new == Append(last, e)
             p0 == <<n, l + 1>>
  <2>1. files' = [files EXCEPT ![n] = new]
    BY <1>4 DEF Enter
  <2>2. n \in 1..n /\ last \in Seq(E) /\ l \in Nat
    BY <1>3
  <2>3. /\ new \in Seq(E) /\ Len(new) = l + 1 /\ new # << >>
        /\ \A j \in 1..l : new[j] = last[j]
        /\ new[l + 1] = e
    <3> HIDE DEF last
    <3>1. last \in Seq(E) /\ e \in E
      BY <1>1, <2>2
    <3>2. Append(last, e) \in Seq(E) /\ Len(Append(last, e)) = Len(last) + 1
      BY <3>1
    <3>3. /\ \A j \in 1..Len(last) : Append(last, e)[j] = last[j]
          /\ Append(last, e)[Len(last) + 1] = e
      BY <3>1
    <3>4. Append(last, e) # << >>
      <4>1. Len(last) \in Nat
        BY <3>1
      <4>2. Len(Append(last, e)) # 0
        BY <3>2, <4>1
      <4>3. Len(<< >>) = 0
        OBVIOUS
      <4>4. QED
        BY <4>2, <4>3, Zenon
    <3>5. QED
      BY <3>2, <3>3, <3>4
  <2> HIDE DEF new
  <2>4. /\ files' \in Seq(Seq(E)) /\ Len(files') = n
        /\ \A i \in 1..n : files'[i] = IF i = n THEN new ELSE files[i]
    BY <1>2, <1>3, <2>1, <2>2, <2>3
  <2>5. \A p : p \in Places' <=> \E i \in 1..n : \E j \in 1..Len(files'[i]) : p = <<i, j>>
    BY <2>4, PlaceIsNext
  <2>6. p0 \notin Places
    BY <1>3, <2>2
  <2>7. \A p : p \in Places' <=> p \in Places \/ p = p0
    <3>1. ASSUME NEW p, p \in Places PROVE p \in Places'
      <4>1. PICK i \in 1..n : \E j \in 1..Len(files[i]) : p = <<i, j>>
        BY <1>3, <3>1
      <4>2. PICK j \in 1..Len(files[i]) : p = <<i, j>>
        BY <4>1
      <4>3. j \in 1..Len(files'[i])
        <5>1. CASE i = n
          BY <5>1, <2>2, <2>3, <2>4
        <5>2. CASE i # n
          BY <5>2, <2>4
        <5>3. QED
          BY <5>1, <5>2
      <4>4. QED
        BY <2>5, <4>2, <4>3
    <3>2. p0 \in Places'
      BY <2>2, <2>3, <2>4, <2>5
    <3>3. ASSUME NEW p, p \in Places', p # p0 PROVE p \in Places
      <4>1. PICK i \in 1..n : \E j \in 1..Len(files'[i]) : p = <<i, j>>
        BY <2>5, <3>3
      <4>2. PICK j \in 1..Len(files'[i]) : p = <<i, j>>
        BY <4>1
      <4>3. j \in 1..Len(files[i])
        <5>1. CASE i = n
          <6>1. j \in 1..l + 1 /\ j # l + 1
            BY <5>1, <2>3, <2>4, <3>3, <4>2
          <6>2. QED
            BY <5>1, <6>1, <2>2
        <5>2. CASE i # n
          BY <5>2, <2>4
        <5>3. QED
          BY <5>1, <5>2
      <4>4. QED
        BY <1>3, <4>2, <4>3
    <3>4. QED
      BY <3>1, <3>2, <3>3
  <2>8. \A p \in Places : Earlier(p, p0) /\ At(p)' = At(p)
    <3>1. SUFFICES ASSUME NEW i \in 1..n, NEW j \in 1..Len(files[i])
                   PROVE  Earlier(<<i, j>>, p0) /\ files'[i][j] = files[i][j]
      <4>1. ASSUME NEW p \in Places PROVE Earlier(p, p0) /\ At(p)' = At(p)
        <5>1. PICK i \in 1..n : \E j \in 1..Len(files[i]) : p = <<i, j>>
          BY <1>3
        <5>2. PICK j \in 1..Len(files[i]) : p = <<i, j>>
          BY <5>1
        <5>3. QED
          BY <3>1, <5>2 DEF At
      <4>2. QED
        BY <4>1
    <3>2. CASE i = n
      <4>1. files'[i][j] = files[i][j]
        BY <3>2, <2>2, <2>3, <2>4
      <4>2. j < l + 1
        BY <3>2, <2>2
      <4>3. QED
        BY <3>2, <4>1, <4>2 DEF Earlier
    <3>3. CASE i # n
      <4>1. i < n
        <5>1. n \in Nat /\ i \in 1..n /\ i # n
          BY <3>3, <1>3
        <5> HIDE DEF n
        <5>2. QED
          BY <5>1
      <4>2. files'[i] = files[i]
        BY <3>3, <2>4
      <4>3. QED
        BY <4>1, <4>2 DEF Earlier
    <3>4. QED
      BY <3>2, <3>3
  <2>9. files'[p0[1]][p0[2]] = e
    BY <2>2, <2>3, <2>4 DEF At
  <2>10. \A i \in 2..Len(files') : files'[i] # << >>
    <3>1. SUFFICES ASSUME NEW i \in 2..n PROVE files'[i] # << >>
      BY <2>4
    <3>2. i \in 1..n /\ files[i] # << >>
      BY <1>3
    <3>3. QED
      BY <2>3, <2>4, <3>2
  <2>11. files' # << >>
    BY <1>3, <2>4
  <2>12. \E x : Appended(x, e)
    <3>1. \E x : x = p0
      OBVIOUS
    <3>2. PICK x : x = p0
      BY <3>1
    <3>3. At(x)' = e
      BY <3>2, <2>9 DEF At
    <3>4. Appended(x, e)
      BY <3>2, <3>3, <2>6, <2>7, <2>8 DEF Appended
    <3>5. QED
      BY <3>4
  <2>13. QED
    BY <2>4, <2>10, <2>11, <2>12 DEF E
<1>5. CASE ~fresh
  <2> DEFINE new == <<e>>
             p0 == <<n + 1, 1>>
  <2>1. files' = Append(files, new)
    BY <1>5 DEF Enter
  <2>2. new \in Seq(E) /\ Len(new) = 1 /\ new[1] = e /\ new # << >>
    BY <1>1
  <2> HIDE DEF new
  <2>4. /\ files' \in Seq(Seq(E)) /\ Len(files') = n + 1
        /\ \A i \in 1..n : files'[i] = files[i]
        /\ files'[n + 1] = new
    BY <1>2, <2>1, <2>2, AppendProperties
  <2>5. \A p : p \in Places' <=> \E i \in 1..n + 1 : \E j \in 1..Len(files'[i]) : p = <<i, j>>
    BY <2>4, PlaceIsNext
  <2>6. p0 \notin Places
    BY <1>3
  <2>7. \A p : p \in Places' <=> p \in Places \/ p = p0
    <3>1. ASSUME NEW p, p \in Places PROVE p \in Places'
      BY <1>3, <2>4, <2>5, <3>1
    <3>2. p0 \in Places'
      BY <1>3, <2>2, <2>4, <2>5
    <3>3. ASSUME NEW p, p \in Places', p # p0 PROVE p \in Places
      <4>1. PICK i \in 1..n + 1 : \E j \in 1..Len(files'[i]) : p = <<i, j>>
        BY <2>5, <3>3
      <4>2. PICK j \in 1..Len(files'[i]) : p = <<i, j>>
        BY <4>1
      <4>3. i # n + 1
        <5>1. SUFFICES ASSUME i = n + 1 PROVE FALSE
          OBVIOUS
        <5>2. j \in 1..1
          BY <5>1, <4>2, <2>2, <2>4
        <5>3. QED
          BY <5>1, <5>2, <3>3, <4>2
      <4>4. i \in 1..n /\ j \in 1..Len(files[i])
        BY <1>3, <2>4, <4>3
      <4>5. QED
        BY <1>3, <4>2, <4>4
    <3>4. QED
      BY <3>1, <3>2, <3>3
  <2>8. \A p \in Places : Earlier(p, p0) /\ At(p)' = At(p)
    <3>1. SUFFICES ASSUME NEW i \in 1..n, NEW j \in 1..Len(files[i])
                   PROVE  Earlier(<<i, j>>, p0) /\ files'[i][j] = files[i][j]
      <4>1. ASSUME NEW p \in Places PROVE Earlier(p, p0) /\ At(p)' = At(p)
        <5>1. PICK i \in 1..n : \E j \in 1..Len(files[i]) : p = <<i, j>>
          BY <1>3
        <5>2. PICK j \in 1..Len(files[i]) : p = <<i, j>>
          BY <5>1
        <5>3. QED
          BY <3>1, <5>2 DEF At
      <4>2. QED
        BY <4>1
    <3>2. i < n + 1 /\ files'[i] = files[i]
      BY <1>3, <2>4
    <3>3. QED
      BY <3>2 DEF Earlier
  <2>9. files'[p0[1]][p0[2]] = e
    BY <1>3, <2>2, <2>4 DEF At
  <2>10. \A i \in 2..Len(files') : files'[i] # << >>
    <3>1. SUFFICES ASSUME NEW i \in 2..n + 1 PROVE files'[i] # << >>
      BY <2>4
    <3>2. CASE i = n + 1
      BY <3>2, <2>2, <2>4, files'[n + 1] # << >>
    <3>3. CASE i # n + 1
      <4>1. i \in 1..n /\ i \in 2..n
        BY <3>3, <1>3
      <4>2. files'[i] = files[i] /\ files[i] # << >>
        BY <4>1, <2>4
      <4>3. QED
        BY <4>2
    <3>4. QED
      BY <3>2, <3>3
  <2>11. files' # << >>
    BY <1>3, <2>4
  <2>12. \E x : Appended(x, e)
    <3>1. \E x : x = p0
      OBVIOUS
    <3>2. PICK x : x = p0
      BY <3>1
    <3>3. At(x)' = e
      BY <3>2, <2>9 DEF At
    <3>4. Appended(x, e)
      BY <3>2, <3>3, <2>6, <2>7, <2>8 DEF Appended
    <3>5. QED
      BY <3>4
  <2>13. QED
    BY <2>4, <2>10, <2>11, <2>12 DEF E
<1>6. QED
  BY <1>4, <1>5

\* A function over 1..n is a sequence of length n.
LEMMA FunctionIsSeq ==
    ASSUME NEW S, NEW n \in Nat, NEW f \in [1..n -> S]
    PROVE  f \in Seq(S) /\ Len(f) = n
  OBVIOUS

\* Giving an entry other data moves nothing.
LEMMA RewriteKeeps ==
    ASSUME NEW D, files \in Seq(Seq(EntryOf(D))), NEW i, NEW j, NEW x,
           files' = [files EXCEPT ![i][j].data = x]
    PROVE  /\ \E T : files' \in Seq(Seq(EntryOf(T)))
           /\ Len(files') = Len(files)
           /\ \A k \in 1..Len(files) : Len(files'[k]) = Len(files[k])
           /\ Places' = Places
           /\ \A p \in Places : /\ At(p).type' = At(p).type /\ At(p).mesh' = At(p).mesh
                                /\ At(p).name' = At(p).name /\ At(p).ranges' = At(p).ranges
                                /\ At(p).superclass' = At(p).superclass
<1> DEFINE T == D \cup {x}
           E == EntryOf(T)
           n == Len(files)
<1>1. EntryOf(D) \subseteq E /\ \A e \in E : [e EXCEPT !.data = x] \in E
  BY DEF EntryOf
<1>2. files \in Seq(Seq(E))
  <2>1. \A s \in Seq(EntryOf(D)) : s \in Seq(E)
    BY <1>1, SeqMonotonic
  <2> HIDE DEF E
  <2>2. QED
    BY <2>1, SeqMonotonic
<1>3. \A e \in E : /\ [e EXCEPT !.data = x].type = e.type /\ [e EXCEPT !.data = x].mesh = e.mesh
                   /\ [e EXCEPT !.data = x].name = e.name /\ [e EXCEPT !.data = x].ranges = e.ranges
                   /\ [e EXCEPT !.data = x].superclass = e.superclass
  BY DEF EntryOf
<1> HIDE DEF E, T
<1>4. /\ n \in Nat /\ DOMAIN files = 1..n
      /\ \A k \in 1..n : files[k] \in Seq(E) /\ Len(files[k]) \in Nat /\ DOMAIN files[k] = 1..Len(files[k])
      /\ \A p : p \in Places <=> \E k \in 1..n : \E l \in 1..Len(files[k]) : p = <<k, l>>
  BY <1>2, PlaceIs
<1>5. \A k \in 1..n : files'[k] = IF k = i THEN [files[k] EXCEPT ![j] = [files[k][j] EXCEPT !.data = x]]
                                  ELSE files[k]
  BY <1>4
<1>6. ASSUME NEW k \in 1..n
      PROVE  /\ files'[k] \in Seq(E) /\ Len(files'[k]) = Len(files[k])
             /\ \A l \in 1..Len(files[k]) :
                    files'[k][l] = files[k][l] \/ files'[k][l] = [files[k][l] EXCEPT !.data = x]
  <2>1. CASE k # i \/ j \notin 1..Len(files[k])
    <3>1. files'[k] = files[k]
      BY <2>1, <1>4, <1>5
    <3>2. QED
      BY <3>1, <1>4
  <2>2. CASE k = i /\ j \in 1..Len(files[k])
    <3> DEFINE f == files[k]
               y == [files[k][j] EXCEPT !.data = x]
    <3>1. f \in Seq(E) /\ f[j] \in E /\ y \in E
      BY <2>2, <1>1, <1>4
    <3>2. files'[k] = [f EXCEPT ![j] = y]
      BY <2>2, <1>5
    <3> HIDE DEF f
    <3>3. /\ [f EXCEPT ![j] = y] \in Seq(E) /\ Len([f EXCEPT ![j] = y]) = Len(f)
          /\ \A l \in 1..Len(f) : [f EXCEPT ![j] = y][l] = IF l = j THEN y ELSE f[l]
      <4> HIDE DEF y
      <4>1. j \in 1..Len(f)
        BY <2>2 DEF f
      <4>2. QED
        BY <3>1, <4>1, ExceptSeq
    <3>4. QED
      BY <3>2, <3>3 DEF f
  <2>3. QED
    BY <2>1, <2>2
<1>7. /\ files' \in Seq(Seq(E)) /\ Len(files') = n
  <2>1. files' \in [1..n -> Seq(E)]
    <3>1. files' = [k \in 1..n |-> files'[k]]
      BY <1>4
    <3>2. QED
      BY <3>1, <1>6
  <2>2. n \in Nat
    BY <1>4
  <2> HIDE DEF n
  <2>3. QED
    BY <2>1, <2>2, FunctionIsSeq
<1>8. \A p : p \in Places' <=> \E k \in 1..n : \E l \in 1..Len(files'[k]) : p = <<k, l>>
  BY <1>7, PlaceIsNext
<1>9. Places' = Places
  <2>1. \A k \in 1..n : Len(files'[k]) = Len(files[k])
    BY <1>6
  <2>2. \A p : p \in Places' <=> p \in Places
    BY <1>4, <1>8, <2>1
  <2>3. QED
    BY <2>2
<1>10. ASSUME NEW p \in Places
       PROVE  /\ At(p).type' = At(p).type /\ At(p).mesh' = At(p).mesh
              /\ At(p).name' = At(p).name /\ At(p).ranges' = At(p).ranges
              /\ At(p).superclass' = At(p).superclass
  <2>1. PICK k \in 1..n : \E l \in 1..Len(files[k]) : p = <<k, l>>
    BY <1>4
  <2>2. PICK l \in 1..Len(files[k]) : p = <<k, l>>
    BY <2>1
  <2>3. files[k][l] \in E
    BY <1>4
  <2>4. files'[k][l] = files[k][l] \/ files'[k][l] = [files[k][l] EXCEPT !.data = x]
    BY <1>6
  <2>5. /\ files'[k][l].type = files[k][l].type /\ files'[k][l].mesh = files[k][l].mesh
        /\ files'[k][l].name = files[k][l].name /\ files'[k][l].ranges = files[k][l].ranges
        /\ files'[k][l].superclass = files[k][l].superclass
    BY <1>3, <2>3, <2>4
  <2>6. QED
    BY <2>2, <2>5 DEF At
<1>11. QED
  BY <1>6, <1>7, <1>9, <1>10 DEF E

\* The place init_meshes comes to next.
LEMMA NextPlaceIs ==
    ASSUME NEW S, files \in Seq(Seq(S)), \A i \in 2..Len(files) : files[i] # << >>,
           at \in Places
    PROVE  /\ NextPlace \in Places \/ NextPlace = <<Len(files) + 1, 1>>
           /\ \A p \in Places : Earlier(p, NextPlace) <=> Earlier(p, at) \/ p = at
<1>1. /\ Len(files) \in Nat
      /\ \A i \in 1..Len(files) : files[i] \in Seq(S) /\ Len(files[i]) \in Nat
      /\ \A p : p \in Places <=> \E i \in 1..Len(files) : \E j \in 1..Len(files[i]) : p = <<i, j>>
  BY PlaceIs
<1>2. PICK i \in 1..Len(files) : \E j \in 1..Len(files[i]) : at = <<i, j>>
  BY <1>1
<1>3. PICK j \in 1..Len(files[i]) : at = <<i, j>>
  BY <1>2
<1>4. i \in Nat /\ j \in Nat /\ Len(files[i]) \in Nat
  BY <1>1
<1>5. CASE j < Len(files[i])
  <2>1. NextPlace = <<i, j + 1>>
    BY <1>3, <1>5 DEF NextPlace
  <2>2. j + 1 \in 1..Len(files[i])
    BY <1>4, <1>5
  <2>3. NextPlace \in Places
    BY <1>1, <2>1, <2>2
  <2>4. ASSUME NEW p \in Places PROVE Earlier(p, NextPlace) <=> Earlier(p, at) \/ p = at
    <3>1. PICK k \in 1..Len(files) : \E l \in 1..Len(files[k]) : p = <<k, l>>
      BY <1>1
    <3>2. PICK l \in 1..Len(files[k]) : p = <<k, l>>
      BY <3>1
    <3>3. k \in Nat /\ l \in Nat
      BY <1>1
    <3>4. QED
      BY <1>3, <1>4, <2>1, <3>2, <3>3 DEF Earlier
  <2>5. QED
    BY <2>3, <2>4
<1>6. CASE ~(j < Len(files[i]))
  <2>1. NextPlace = <<i + 1, 1>> /\ j = Len(files[i])
    BY <1>3, <1>4, <1>6 DEF NextPlace
  <2>2. NextPlace \in Places \/ NextPlace = <<Len(files) + 1, 1>>
    <3>1. CASE i = Len(files)
      BY <2>1, <3>1
    <3>2. CASE i # Len(files)
      <4>1. i + 1 \in 2..Len(files) /\ i + 1 \in 1..Len(files)
        BY <1>1, <3>2
      <4>2. files[i + 1] # << >> /\ files[i + 1] \in Seq(S)
        BY <1>1, <4>1
      <4>3. 1 \in 1..Len(files[i + 1])
        BY <4>2
      <4>4. QED
        BY <1>1, <2>1, <4>1, <4>3
    <3>3. QED
      BY <3>1, <3>2
  <2>4. ASSUME NEW p \in Places PROVE Earlier(p, NextPlace) <=> Earlier(p, at) \/ p = at
    <3>1. PICK k \in 1..Len(files) : \E l \in 1..Len(files[k]) : p = <<k, l>>
      BY <1>1
    <3>2. PICK l \in 1..Len(files[k]) : p = <<k, l>>
      BY <3>1
    <3>3. k \in Nat /\ l \in Nat /\ 1 <= l /\ (k = i => l <= j)
      BY <1>1, <2>1
    <3>4. QED
      BY <1>3, <1>4, <2>1, <3>2, <3>3 DEF Earlier
  <2>5. QED
    BY <2>2, <2>4
<1>7. QED
  BY <1>5, <1>6

\* Where init_meshes starts, nothing is read; where it ends, all is.
LEMMA Bounds ==
    ASSUME NEW S, files \in Seq(Seq(S)), files # << >>, \A i \in 2..Len(files) : files[i] # << >>
    PROVE  /\ \A p \in Places : Earlier(p, <<Len(files) + 1, 1>>)
           /\ ~AtEnd /\ at = <<Len(files) + 1, 1>> => FALSE
           /\ at \in Places => ~AtEnd
           /\ LET first == IF files[1] = << >> THEN <<2, 1>> ELSE <<1, 1>>
              IN  /\ first \in Places \/ first = <<Len(files) + 1, 1>>
                  /\ \A p \in Places : ~Earlier(p, first)
<1>1. /\ Len(files) \in Nat \ {0}
      /\ \A i \in 1..Len(files) : files[i] \in Seq(S) /\ Len(files[i]) \in Nat
      /\ \A p : p \in Places <=> \E i \in 1..Len(files) : \E j \in 1..Len(files[i]) : p = <<i, j>>
  BY PlaceIs
<1>2. ASSUME NEW p \in Places
      PROVE  \E i \in 1..Len(files), j \in Nat : p = <<i, j>> /\ 1 <= j /\ j <= Len(files[i])
  BY <1>1
<1>3. \A p \in Places : Earlier(p, <<Len(files) + 1, 1>>)
  <2>1. SUFFICES ASSUME NEW p \in Places PROVE Earlier(p, <<Len(files) + 1, 1>>)
    OBVIOUS
  <2>2. PICK i \in 1..Len(files), j \in Nat : p = <<i, j>>
    BY <1>2
  <2>3. Len(files) \in Nat
    BY <1>1
  <2>4. i < Len(files) + 1
    BY <2>3
  <2>5. QED
    BY <2>2, <2>4 DEF Earlier
<1>4. ~AtEnd /\ at = <<Len(files) + 1, 1>> => FALSE
  BY <1>1 DEF AtEnd
<1>5. at \in Places => ~AtEnd
  BY <1>1, <1>2 DEF AtEnd
<1>6. CASE files[1] = << >>
  <2>1. <<2, 1>> \in Places \/ <<2, 1>> = <<Len(files) + 1, 1>>
    <3>1. CASE Len(files) = 1
      BY <3>1
    <3>2. CASE Len(files) # 1
      <4>1. 2 \in 2..Len(files) /\ 2 \in 1..Len(files)
        <5>1. Len(files) \in Nat /\ Len(files) # 0
          BY <1>1
        <5> DEFINE k == Len(files)
        <5>2. k \in Nat /\ k # 0 /\ k # 1
          BY <3>2, <5>1
        <5> HIDE DEF k
        <5>3. 2 \in 2..k /\ 2 \in 1..k
          BY <5>2
        <5>4. QED
          BY <5>3 DEF k
      <4>2. files[2] \in Seq(S) /\ files[2] # << >>
        BY <1>1, <4>1
      <4>3. 1 \in 1..Len(files[2])
        BY <4>2
      <4>4. QED
        BY <1>1, <4>1, <4>3
    <3>3. QED
      BY <3>1, <3>2
  <2>2. ASSUME NEW p \in Places PROVE ~Earlier(p, <<2, 1>>)
    <3>1. PICK i \in 1..Len(files), j \in Nat : p = <<i, j>> /\ 1 <= j /\ j <= Len(files[i])
      BY <1>2
    <3>2. i # 1
      <4>1. SUFFICES ASSUME i = 1 PROVE FALSE
        OBVIOUS
      <4>2. Len(files[i]) = 0
        BY <1>6, <4>1
      <4>3. QED
        BY <3>1, <4>2
    <3>3. QED
      BY <1>1, <3>1, <3>2 DEF Earlier
  <2>3. QED
    BY <1>3, <1>4, <1>5, <1>6, <2>1, <2>2
<1>7. CASE files[1] # << >>
  <2>1. 1 \in 1..Len(files) /\ files[1] \in Seq(S) /\ 1 \in 1..Len(files[1])
    BY <1>1, <1>7
  <2>2. <<1, 1>> \in Places
    BY <1>1, <2>1
  <2>3. ASSUME NEW p \in Places PROVE ~Earlier(p, <<1, 1>>)
    <3>1. PICK i \in 1..Len(files), j \in Nat : p = <<i, j>> /\ 1 <= j
      BY <1>2
    <3>2. QED
      BY <1>1, <3>1 DEF Earlier
  <2>4. QED
    BY <1>3, <1>4, <1>5, <1>7, <2>2, <2>3
<1>8. QED
  BY <1>6, <1>7

\* A call's new entry, or the next of init_meshes, is known beside the others.
LEMMA AppendGrows ==
    ASSUME NEW n, NEW e, Appended(n, e), proc # "loading", proc' # "loading"
    PROVE  Grows(n, e)
<1>1. Known = Places /\ Known' = Places'
  BY DEF Known, Seen
<1>2. /\ n \notin Places /\ Places' = Places \cup {n}
      /\ \A p \in Places : Earlier(p, n) /\ At(p)' = At(p)
      /\ At(n)' = e
  BY DEF Appended
<1>3. ASSUME NEW q \in Places, NEW m, NEW c, FirstDef(q, m, c) PROVE FirstDef(q, m, c)'
  <2>1. /\ IsClass(q) /\ Of(q, m, c)
        /\ \A p \in Places : IsClass(p) /\ Of(p, m, c) => p = q \/ Earlier(q, p)
    BY <1>3 DEF FirstDef
  <2>2. IsClass(q)' /\ Of(q, m, c)'
    BY <1>2, <2>1 DEF IsClass, Of
  <2>3. ASSUME NEW p \in Places', IsClass(p)', Of(p, m, c)' PROVE p = q \/ Earlier(q, p)
    <3>1. CASE p = n
      BY <1>2, <3>1
    <3>2. CASE p # n
      BY <1>2, <2>1, <2>3, <3>2 DEF IsClass, Of
    <3>3. QED
      BY <3>1, <3>2
  <2>4. QED
    BY <2>2, <2>3 DEF FirstDef, Earlier
<1>4. ASSUME NEW m, NEW c, e.type = "CLASS_DEF" /\ e.mesh = m /\ e.name = c,
             ~\E q \in Places : IsClass(q) /\ Of(q, m, c)
      PROVE  FirstDef(n, m, c)'
  <2>1. IsClass(n)' /\ Of(n, m, c)'
    BY <1>2, <1>4 DEF IsClass, Of
  <2>2. ASSUME NEW p \in Places', IsClass(p)', Of(p, m, c)' PROVE p = n
    BY <1>2, <1>4, <2>2 DEF IsClass, Of
  <2>3. QED
    BY <2>1, <2>2 DEF FirstDef
<1>5. QED
  BY <1>1, <1>2, <1>3, <1>4 DEF Grows

\* A step of init_meshes makes the entry it is at known, and moves to the next.
LEMMA LoadGrows ==
    ASSUME NEW S, files \in Seq(Seq(S)), \A i \in 2..Len(files) : files[i] # << >>,
           at \in Places, at' = NextPlace, files' = files,
           proc = "loading", proc' = "loading"
    PROVE  /\ \E n : n = at /\ Grows(n, At(at))
           /\ at' \in Places' \/ at' = <<Len(files') + 1, 1>>
<1>1. /\ NextPlace \in Places \/ NextPlace = <<Len(files) + 1, 1>>
      /\ \A p \in Places : Earlier(p, NextPlace) <=> Earlier(p, at) \/ p = at
  BY NextPlaceIs
<1>2. PICK n : n = at
  OBVIOUS
<1>3. \A p : p \in Known <=> p \in Places /\ Earlier(p, n)
  BY <1>2 DEF Known, Seen
<1>4. \A p : p \in Known' <=> p \in Places /\ (Earlier(p, n) \/ p = n)
  <2>1. Places' = Places
    BY DEF Places
  <2>2. \A p : p \in Known' <=> p \in Places /\ Earlier(p, at')
    BY <2>1 DEF Known, Seen, Earlier
  <2>3. QED
    BY <1>1, <1>2, <2>2
<1>5. n \notin Known /\ Known' = Known \cup {n}
  BY <1>2, <1>3, <1>4, PlacesOrdered
<1>6. \A p : At(p)' = At(p)
  BY DEF At
<1>7. \A q, m, c : FirstDef(q, m, c)' <=> FirstDef(q, m, c)
  BY DEF FirstDef, IsClass, Of, At, Places, Earlier
<1>8. ASSUME NEW m, NEW c, At(n).type = "CLASS_DEF" /\ At(n).mesh = m /\ At(n).name = c,
             ~\E q \in Known : IsClass(q) /\ Of(q, m, c)
      PROVE  FirstDef(n, m, c)
  <2>1. ASSUME NEW p \in Places, IsClass(p), Of(p, m, c) PROVE p = n \/ Earlier(n, p)
    <3>1. p \notin Known
      BY <1>8, <2>1
    <3>2. QED
      BY <1>2, <1>3, <3>1, PlacesOrdered
  <2>2. QED
    BY <1>8, <2>1 DEF FirstDef, IsClass, Of
<1>9. Grows(n, At(at))
  BY <1>2, <1>5, <1>6, <1>7, <1>8 DEF Grows
<1>10. at' \in Places' \/ at' = <<Len(files') + 1, 1>>
  BY <1>1 DEF Places
<1>11. QED
  BY <1>2, <1>9, <1>10

\* What is recorded, by the entries that are read.
LEMMA RecordedIs ==
    /\ \A m, c, x : x \in Recorded(m, c) <=>
           \E p \in Known : IsObject(p) /\ Of(p, m, c) /\ x \in Covered(At(p).ranges)
    /\ \A m, c, x : x \in Recorded(m, c)' <=>
           \E p \in Known' : (IsObject(p) /\ Of(p, m, c))' /\ x \in Covered(At(p).ranges)'
<1>1. ASSUME NEW m, NEW c, NEW x
      PROVE  x \in Recorded(m, c) <=>
                 \E p \in Known : IsObject(p) /\ Of(p, m, c) /\ x \in Covered(At(p).ranges)
  BY DEF Recorded, ObjectPlaces, Known, Seen, IsObject, Of
<1>2. ASSUME NEW m, NEW c, NEW x
      PROVE  x \in Recorded(m, c)' <=>
                 \E p \in Known' : (IsObject(p) /\ Of(p, m, c))' /\ x \in Covered(At(p).ranges)'
  BY DEF Recorded, ObjectPlaces, Known, Seen, IsObject, Of
<1>3. QED
  BY <1>1, <1>2

\* The ids recorded of a class become those of the new entry besides.
LEMMA RecordedGrows ==
    ASSUME NEW n, NEW e, Grows(n, e), NEW m, NEW c
    PROVE  Recorded(m, c)' = Recorded(m, c) \cup
               (IF e.type \in ObjectTypes /\ e.mesh = m /\ e.name = c THEN Covered(e.ranges) ELSE {})
<1>1. /\ Known' = Known \cup {n} /\ \A p \in Known : At(p)' = At(p) /\ At(n)' = e
  BY DEF Grows
<1>2. \A p \in Known : /\ (IsObject(p) /\ Of(p, m, c))' <=> (IsObject(p) /\ Of(p, m, c))
                       /\ Covered(At(p).ranges)' = Covered(At(p).ranges)
  BY <1>1 DEF IsObject, Of, Covered
<1>3. At(n)' = e
  BY DEF Grows
<1>4. /\ (IsObject(n) /\ Of(n, m, c))' <=> (e.type \in ObjectTypes /\ e.mesh = m /\ e.name = c)
      /\ Covered(At(n).ranges)' = Covered(e.ranges)
  BY <1>3 DEF IsObject, Of, Covered
<1>5. \A x : x \in Recorded(m, c)' <=>
          \/ x \in Recorded(m, c)
          \/ e.type \in ObjectTypes /\ e.mesh = m /\ e.name = c /\ x \in Covered(e.ranges)
  BY <1>1, <1>2, <1>4, RecordedIs
<1>6. QED
  BY <1>5

-----------------------------------------------------------------------------
(***************************************************************************)
(* The files.                                                              *)
(***************************************************************************)
\* What an entry has to satisfy to go behind the others.
EntryFits(e) ==
    /\ e \in EntryOf({e.data})
    /\ e.type # "MESH_NAME" => /\ e.name \in Classes
                               /\ \E q \in Places : IsMesh(q) /\ At(q).mesh = e.mesh
    /\ e.type = "MESH_NAME" =>
           /\ e.name \in Names
           /\ \A q \in Places : IsMesh(q) => At(q).mesh # e.mesh /\ At(q).name # e.name
           /\ \A k \in 1..e.mesh - 1 : \E q \in Places : IsMesh(q) /\ At(q).mesh = k
    /\ e.type = "CLASS_DEF" => e.superclass \in Superclasses
    /\ e.type \in ObjectTypes =>
           /\ \E q \in Places : FirstDef(q, e.mesh, e.name) /\ Fits(e.type, At(q).superclass)
           /\ \A p \in Places : IsObject(p) /\ Of(p, e.mesh, e.name) =>
                  \A k \in DOMAIN At(p).ranges, l \in DOMAIN e.ranges :
                      Ids(At(p).ranges[k]) \cap Ids(e.ranges[l]) = {}
           /\ \A k, l \in DOMAIN e.ranges : k # l => Ids(e.ranges[k]) \cap Ids(e.ranges[l]) = {}
    /\ e.type = "SURFACE_CONNS" =>
           \E s \in 1..MaxId :
               /\ e.ranges = <<[start |-> s, stop |-> s]>>
               /\ s > 1 => \E q \in Places : /\ IsObject(q) /\ Of(q, e.mesh, e.name)
                                             /\ s - 1 \in Covered(At(q).ranges)

\* What the files satisfy, they satisfy as long as they do not change.
LEMMA FilesSame ==
    ASSUME FilesInv, files' = files
    PROVE  FilesInv' /\ Places' = Places
<1>1. Places' = Places
  BY DEF Places
<1>2. FilesTyped'
  BY <1>1 DEF FilesInv, FilesTyped, IsMesh, At
<1>3. MeshesInOrder'
  BY <1>1 DEF FilesInv, MeshesInOrder, IsMesh, At, Earlier
<1>4. MeshesNamed'
  BY <1>1 DEF FilesInv, MeshesNamed, IsMesh, At, Earlier
<1>5. ClassesNamed'
  BY <1>1 DEF FilesInv, ClassesNamed, IsClass, IsObject, FirstDef, Of, At, Earlier
<1>6. SurfacesInOrder'
  <2>1. \A p : At(p)' = At(p)
    BY DEF At
  <2>2. \A p : /\ IsObject(p)' <=> IsObject(p)
              /\ Covered(At(p).ranges)' = Covered(At(p).ranges)
    BY <2>1 DEF IsObject, Covered
  <2>3. ASSUME NEW p \in Places, At(p).type = "SURFACE_CONNS"
        PROVE  \E s \in 1..MaxId :
                   /\ At(p).ranges' = <<[start |-> s, stop |-> s]>>
                   /\ s > 1 => \E q \in Places : /\ IsObject(q)' /\ Of(q, At(p).mesh, At(p).name)'
                                                 /\ Earlier(q, p) /\ s - 1 \in Covered(At(q).ranges)'
    <3>1. PICK s \in 1..MaxId :
             /\ At(p).ranges = <<[start |-> s, stop |-> s]>>
             /\ s > 1 => \E q \in Places : /\ IsObject(q) /\ Of(q, At(p).mesh, At(p).name)
                                           /\ Earlier(q, p) /\ s - 1 \in Covered(At(q).ranges)
      BY <2>3 DEF FilesInv, SurfacesInOrder
    <3>2. ASSUME s > 1
          PROVE  \E q \in Places : /\ IsObject(q)' /\ Of(q, At(p).mesh, At(p).name)'
                                   /\ Earlier(q, p) /\ s - 1 \in Covered(At(q).ranges)'
      <4>1. PICK q \in Places : /\ IsObject(q) /\ Of(q, At(p).mesh, At(p).name)
                                /\ Earlier(q, p) /\ s - 1 \in Covered(At(q).ranges)
        BY <3>1, <3>2
      <4>2. Of(q, At(p).mesh, At(p).name)'
        BY <2>1, <4>1 DEF Of
      <4>3. IsObject(q)' /\ s - 1 \in Covered(At(q).ranges)'
        BY <2>2, <4>1
      <4>4. QED
        BY <4>1, <4>2, <4>3
    <3>3. QED
      BY <2>1, <3>1, <3>2
  <2>4. ASSUME NEW p \in Places, At(p).type' = "SURFACE_CONNS" PROVE At(p).type = "SURFACE_CONNS"
    BY <2>1, <2>4
  <2>5. QED
    BY <1>1, <2>1, <2>3, <2>4 DEF SurfacesInOrder, Earlier
<1>7. IdsOnce'
  BY <1>1, SMTT(30) DEF FilesInv, IdsOnce, IsObject, At
<1>8. QED
  BY <1>1, <1>2, <1>3, <1>4, <1>5, <1>6, <1>7 DEF FilesInv

\* An entry given other data satisfies what it did.
LEMMA FilesRewritten ==
    ASSUME FilesInv, NEW i, NEW j, NEW x, files' = [files EXCEPT ![i][j].data = x]
    PROVE  /\ FilesInv' /\ Places' = Places /\ Len(files') = Len(files)
           /\ \A m, c : \A q \in Places : FirstDef(q, m, c)' <=> FirstDef(q, m, c)
           /\ \A m, c : \A q \in Places : (IsObject(q) /\ Of(q, m, c))' <=> (IsObject(q) /\ Of(q, m, c))
           /\ \A p \in Places : /\ At(p).type' = At(p).type /\ At(p).mesh' = At(p).mesh
                                /\ At(p).name' = At(p).name /\ At(p).ranges' = At(p).ranges
                                /\ At(p).superclass' = At(p).superclass
<1>1. PICK D : files \in Seq(Seq(EntryOf(D)))
  BY DEF FilesInv, FilesTyped
<1>2. /\ \E T : files' \in Seq(Seq(EntryOf(T)))
      /\ Len(files') = Len(files)
      /\ \A k \in 1..Len(files) : Len(files'[k]) = Len(files[k])
      /\ Places' = Places
      /\ \A p \in Places : /\ At(p).type' = At(p).type /\ At(p).mesh' = At(p).mesh
                           /\ At(p).name' = At(p).name /\ At(p).ranges' = At(p).ranges
                           /\ At(p).superclass' = At(p).superclass
  BY <1>1, RewriteKeeps
<1>3. \A p \in Places : /\ IsMesh(p)' <=> IsMesh(p)
                        /\ IsClass(p)' <=> IsClass(p)
                        /\ IsObject(p)' <=> IsObject(p)
                        /\ \A m, c : Of(p, m, c)' <=> Of(p, m, c)
                        /\ Covered(At(p).ranges)' = Covered(At(p).ranges)
  BY <1>2 DEF IsMesh, IsClass, IsObject, Of, Covered
<1>4. \A m, c : \A q \in Places : FirstDef(q, m, c)' <=> FirstDef(q, m, c)
  BY <1>2, <1>3 DEF FirstDef, Earlier
<1>5. FilesTyped'
  <2>1. files' # << >> /\ \A k \in 2..Len(files') : files'[k] # << >>
    <3>1. /\ files # << >> /\ Len(files) \in Nat
          /\ \A k \in 1..Len(files) : files[k] \in Seq(EntryOf(D))
      BY <1>1 DEF FilesInv, FilesTyped
    <3>2. Len(files') # 0
      BY <1>1, <1>2, <3>1, EmptySeq
    <3>3. PICK T : files' \in Seq(Seq(EntryOf(T)))
      BY <1>2
    <3>4. ASSUME NEW k \in 2..Len(files') PROVE files'[k] # << >>
      <4>1. k \in 1..Len(files) /\ k \in 2..Len(files)
        BY <1>2, <3>1
      <4>2. files[k] # << >> /\ files[k] \in Seq(EntryOf(D))
        BY <3>1, <4>1 DEF FilesInv, FilesTyped
      <4>3. Len(files[k]) # 0
        BY <4>2
      <4>4. Len(files'[k]) # 0
        BY <1>2, <4>1, <4>3
      <4>5. Len(<< >>) = 0
        OBVIOUS
      <4>6. QED
        BY <4>4, <4>5, Zenon
    <3>5. Len(<< >>) = 0
      OBVIOUS
    <3>6. files' # << >>
      BY <3>2, <3>5, Zenon
    <3>7. QED
      BY <3>4, <3>6
  <2>2. \A p \in Places' : ~IsMesh(p)' => At(p).name' \in Classes
    BY <1>2, <1>3 DEF FilesInv, FilesTyped
  <2>3. QED
    BY <1>2, <2>1, <2>2 DEF FilesTyped
<1>6. MeshesInOrder'
  <2>1. MeshesInOrder
    BY DEF FilesInv
  <2>2. ASSUME NEW p \in Places, IsMesh(p)
        PROVE  /\ At(p).name' \in Names
               /\ \A q \in Places \ {p} : IsMesh(q)' => At(q).mesh' # At(p).mesh' /\ At(q).name' # At(p).name'
               /\ \A k \in 1..At(p).mesh' - 1 :
                      \E q \in Places : IsMesh(q)' /\ Earlier(q, p) /\ At(q).mesh' = k
    <3>1. /\ At(p).name \in Names
          /\ \A q \in Places \ {p} : IsMesh(q) => At(q).mesh # At(p).mesh /\ At(q).name # At(p).name
          /\ \A k \in 1..At(p).mesh - 1 :
                 \E q \in Places : IsMesh(q) /\ Earlier(q, p) /\ At(q).mesh = k
      BY <2>1, <2>2 DEF MeshesInOrder
    <3>2. /\ At(p).name' = At(p).name /\ At(p).mesh' = At(p).mesh
          /\ \A q \in Places : /\ IsMesh(q)' <=> IsMesh(q)
                               /\ At(q).mesh' = At(q).mesh /\ At(q).name' = At(q).name
      BY <1>2, <1>3
    <3>3. \A k \in 1..At(p).mesh' - 1 :
              \E q \in Places : IsMesh(q)' /\ Earlier(q, p) /\ At(q).mesh' = k
      BY <3>1, <3>2
    <3>4. \A q \in Places \ {p} : IsMesh(q)' => At(q).mesh' # At(p).mesh' /\ At(q).name' # At(p).name'
      BY <3>1, <3>2
    <3>5. QED
      BY <3>1, <3>2, <3>3, <3>4
  <2>3. QED
    BY <1>2, <1>3, <2>2 DEF MeshesInOrder, Earlier
<1>7. MeshesNamed'
  BY <1>2, <1>3 DEF FilesInv, MeshesNamed, Earlier
<1>8. ClassesNamed'
  BY <1>2, <1>3, <1>4 DEF FilesInv, ClassesNamed, Earlier
<1>9. SurfacesInOrder'
  <2>1. ASSUME NEW p \in Places, At(p).type = "SURFACE_CONNS"
        PROVE  \E s \in 1..MaxId :
                   /\ At(p).ranges' = <<[start |-> s, stop |-> s]>>
                   /\ s > 1 => \E q \in Places : /\ IsObject(q)' /\ Of(q, At(p).mesh, At(p).name)'
                                                 /\ Earlier(q, p) /\ s - 1 \in Covered(At(q).ranges)'
    <3>1. PICK s \in 1..MaxId :
             /\ At(p).ranges = <<[start |-> s, stop |-> s]>>
             /\ s > 1 => \E q \in Places : /\ IsObject(q) /\ Of(q, At(p).mesh, At(p).name)
                                           /\ Earlier(q, p) /\ s - 1 \in Covered(At(q).ranges)
      BY <2>1 DEF FilesInv, SurfacesInOrder
    <3>2. ASSUME s > 1
          PROVE  \E q \in Places : /\ IsObject(q)' /\ Of(q, At(p).mesh, At(p).name)'
                                   /\ Earlier(q, p) /\ s - 1 \in Covered(At(q).ranges)'
      <4>1. PICK q \in Places : /\ IsObject(q) /\ Of(q, At(p).mesh, At(p).name)
                                /\ Earlier(q, p) /\ s - 1 \in Covered(At(q).ranges)
        BY <3>1, <3>2
      <4>2. Of(q, At(p).mesh, At(p).name)'
        BY <1>2, <4>1 DEF Of
      <4>3. IsObject(q)' /\ s - 1 \in Covered(At(q).ranges)'
        BY <1>3, <4>1
      <4>4. QED
        BY <4>1, <4>2, <4>3
    <3>3. QED
      BY <1>2, <3>1, <3>2
  <2>2. ASSUME NEW p \in Places, At(p).type' = "SURFACE_CONNS" PROVE At(p).type = "SURFACE_CONNS"
    BY <1>2, <2>2
  <2>3. QED
    BY <1>2, <2>1, <2>2 DEF SurfacesInOrder, Earlier
<1>10. IdsOnce'
  <2>1. ASSUME NEW p \in Places, NEW q \in Places, IsObject(p)', IsObject(q)',
               At(p).mesh' = At(q).mesh', At(p).name' = At(q).name',
               NEW k \in DOMAIN At(p).ranges', NEW l \in DOMAIN At(q).ranges',
               <<p, k>> # <<q, l>>
        PROVE  Ids(At(p).ranges'[k]) \cap Ids(At(q).ranges'[l]) = {}
    <3>1. /\ At(p).mesh = At(q).mesh /\ At(p).name = At(q).name /\ IsObject(p) /\ IsObject(q)
          /\ At(p).ranges' = At(p).ranges /\ At(q).ranges' = At(q).ranges
      BY <1>2, <1>3, <2>1
    <3>2. QED
      BY <2>1, <3>1 DEF FilesInv, IdsOnce
  <2>2. QED
    BY <1>2, <2>1 DEF IdsOnce
<1>11. QED
  BY <1>2, <1>3, <1>4, <1>5, <1>6, <1>7, <1>8, <1>9, <1>10 DEF FilesInv

\* An entry that fits leaves the files as they have to be.
LEMMA FilesAppended ==
    ASSUME FilesInv, NEW e, EntryFits(e), Enter(e)
    PROVE  FilesInv' /\ \E n : Appended(n, e)
<1>1. PICK D : files \in Seq(Seq(EntryOf(D)))
  BY DEF FilesInv, FilesTyped
<1>2. /\ \E n : Appended(n, e)
      /\ \E T : files' \in Seq(Seq(EntryOf(T)))
      /\ files' # << >>
      /\ \A i \in 2..Len(files') : files'[i] # << >>
  BY <1>1, EnterAppends DEF FilesInv, FilesTyped, EntryFits
<1>3. PICK n : Appended(n, e)
  BY <1>2
<1>4. /\ n \notin Places /\ Places' = Places \cup {n}
      /\ \A p \in Places : Earlier(p, n) /\ At(p)' = At(p)
      /\ At(n)' = e
  BY <1>3 DEF Appended
<1>5. \A p \in Places : /\ IsMesh(p)' <=> IsMesh(p)
                        /\ IsClass(p)' <=> IsClass(p)
                        /\ IsObject(p)' <=> IsObject(p)
                        /\ \A m, c : Of(p, m, c)' <=> Of(p, m, c)
                        /\ Covered(At(p).ranges)' = Covered(At(p).ranges)
  BY <1>4 DEF IsMesh, IsClass, IsObject, Of, Covered
<1>6. /\ IsMesh(n)' <=> e.type = "MESH_NAME"
      /\ IsClass(n)' <=> e.type = "CLASS_DEF"
      /\ IsObject(n)' <=> e.type \in ObjectTypes
      /\ \A m, c : Of(n, m, c)' <=> e.mesh = m /\ e.name = c
      /\ Covered(At(n).ranges)' = Covered(e.ranges)
  BY <1>4 DEF IsMesh, IsClass, IsObject, Of, Covered
<1>7. \A m, c : \A q \in Places : FirstDef(q, m, c) => FirstDef(q, m, c)'
  <2>1. SUFFICES ASSUME NEW m, NEW c, NEW q \in Places, FirstDef(q, m, c) PROVE FirstDef(q, m, c)'
    OBVIOUS
  <2>2. ASSUME NEW p \in Places', IsClass(p)', Of(p, m, c)' PROVE p = q \/ Earlier(q, p)
    BY <1>4, <1>5, <2>1, <2>2 DEF FirstDef
  <2>3. IsClass(q)' /\ Of(q, m, c)'
    BY <1>5, <2>1 DEF FirstDef
  <2>4. QED
    BY <2>2, <2>3 DEF FirstDef, Earlier
<1>8. FilesTyped'
  <2>1. ASSUME NEW p \in Places', ~IsMesh(p)' PROVE At(p).name' \in Classes
    BY <1>4, <1>5, <1>6, <2>1 DEF FilesInv, FilesTyped, EntryFits
  <2>2. QED
    BY <1>2, <2>1 DEF FilesTyped
<1>9. MeshesInOrder'
  <2>1. ASSUME NEW p \in Places', IsMesh(p)'
        PROVE  /\ At(p).name' \in Names
               /\ \A q \in Places' \ {p} : IsMesh(q)' => At(q).mesh' # At(p).mesh' /\ At(q).name' # At(p).name'
               /\ \A k \in 1..At(p).mesh' - 1 :
                      \E q \in Places' : IsMesh(q)' /\ Earlier(q, p) /\ At(q).mesh' = k
    <3>1. CASE p = n
      <4>1. e.type = "MESH_NAME" /\ At(p)' = e
        BY <1>4, <1>6, <2>1, <3>1
      <4>2. QED
        BY <1>4, <1>5, <3>1, <4>1 DEF EntryFits
    <3>2. CASE p # n
      <4>1. p \in Places /\ IsMesh(p) /\ At(p)' = At(p)
        BY <1>4, <1>5, <2>1, <3>2
      <4>2. /\ At(p).name \in Names
            /\ \A q \in Places \ {p} : IsMesh(q) => At(q).mesh # At(p).mesh /\ At(q).name # At(p).name
            /\ \A k \in 1..At(p).mesh - 1 :
                   \E q \in Places : IsMesh(q) /\ Earlier(q, p) /\ At(q).mesh = k
        BY <4>1 DEF FilesInv, MeshesInOrder
      <4>3. IsMesh(n)' => /\ At(n).mesh' = e.mesh /\ At(n).name' = e.name
                          /\ e.mesh # At(p).mesh /\ e.name # At(p).name
        BY <1>4, <1>6, <4>1 DEF EntryFits
      <4>4. \A k \in 1..At(p).mesh - 1 :
                   \E q \in Places' : IsMesh(q)' /\ Earlier(q, p) /\ At(q).mesh' = k
        BY <1>4, <1>5, <4>2
      <4>5. \A q \in Places' \ {p} : IsMesh(q)' => At(q).mesh' # At(p).mesh' /\ At(q).name' # At(p).name'
        BY <1>4, <1>5, <4>1, <4>2, <4>3
      <4>6. QED
        BY <4>1, <4>2, <4>4, <4>5
    <3>3. QED
      BY <3>1, <3>2
  <2>2. QED
    BY <2>1 DEF MeshesInOrder, Earlier
<1>10. MeshesNamed'
  <2>1. ASSUME NEW p \in Places', ~IsMesh(p)'
        PROVE  \E q \in Places' : IsMesh(q)' /\ Earlier(q, p) /\ At(q).mesh' = At(p).mesh'
    <3>1. CASE p = n
      <4>1. e.type # "MESH_NAME" /\ At(p)' = e
        BY <1>4, <1>6, <2>1, <3>1
      <4>2. PICK q \in Places : IsMesh(q) /\ At(q).mesh = e.mesh
        BY <4>1 DEF EntryFits
      <4>3. QED
        BY <1>4, <1>5, <3>1, <4>1, <4>2
    <3>2. CASE p # n
      <4>1. p \in Places /\ ~IsMesh(p)
        BY <1>4, <1>5, <2>1, <3>2
      <4>2. PICK q \in Places : IsMesh(q) /\ Earlier(q, p) /\ At(q).mesh = At(p).mesh
        BY <4>1 DEF FilesInv, MeshesNamed
      <4>3. QED
        BY <1>4, <1>5, <4>1, <4>2
    <3>3. QED
      BY <3>1, <3>2
  <2>2. QED
    BY <2>1 DEF MeshesNamed, Earlier
<1>11. ClassesNamed'
  <2>1. ASSUME NEW p \in Places', IsClass(p)' PROVE At(p).superclass' \in Superclasses
    BY <1>4, <1>5, <1>6, <2>1 DEF FilesInv, ClassesNamed, EntryFits
  <2>2. ASSUME NEW p \in Places', IsObject(p)'
        PROVE  \E q \in Places' : /\ FirstDef(q, At(p).mesh, At(p).name)' /\ Earlier(q, p)
                                  /\ Fits(At(p).type', At(q).superclass')
    <3>1. CASE p = n
      <4>1. e.type \in ObjectTypes /\ At(p)' = e
        BY <1>4, <1>6, <2>2, <3>1
      <4>2. PICK q \in Places : FirstDef(q, e.mesh, e.name) /\ Fits(e.type, At(q).superclass)
        BY <4>1 DEF EntryFits
      <4>3. At(q)' = At(q) /\ Earlier(q, p) /\ q \in Places'
        BY <1>4, <3>1
      <4>4. FirstDef(q, e.mesh, e.name)'
        <5>1. \A m, c : FirstDef(q, m, c) => FirstDef(q, m, c)'
          BY <1>7
        <5>2. PICK m, c : m = e.mesh /\ c = e.name
          OBVIOUS
        <5>3. FirstDef(q, m, c)'
          BY <4>2, <5>1, <5>2
        <5>4. QED
          BY <5>2, <5>3 DEF FirstDef, Of
      <4>5. QED
        BY <4>1, <4>2, <4>3, <4>4 DEF FirstDef, Of
    <3>2. CASE p # n
      <4>1. p \in Places /\ IsObject(p) /\ At(p)' = At(p)
        BY <1>4, <1>5, <2>2, <3>2
      <4>2. PICK q \in Places : /\ FirstDef(q, At(p).mesh, At(p).name) /\ Earlier(q, p)
                                /\ Fits(At(p).type, At(q).superclass)
        BY <4>1 DEF FilesInv, ClassesNamed
      <4>3. At(q)' = At(q) /\ q \in Places'
        BY <1>4
      <4>4. PICK m, c : m = At(p).mesh /\ c = At(p).name
        OBVIOUS
      <4>5. FirstDef(q, m, c)'
        BY <1>7, <4>2, <4>4
      <4>6. QED
        BY <4>1, <4>2, <4>3, <4>4, <4>5 DEF FirstDef, Of
    <3>3. QED
      BY <3>1, <3>2
  <2>3. QED
    BY <2>1, <2>2 DEF ClassesNamed, Earlier
<1>12. SurfacesInOrder'
  <2>1. ASSUME NEW p \in Places', At(p).type' = "SURFACE_CONNS"
        PROVE  \E s \in 1..MaxId :
                   /\ At(p).ranges' = <<[start |-> s, stop |-> s]>>
                   /\ s > 1 => \E q \in Places' : /\ IsObject(q)' /\ Of(q, At(p).mesh, At(p).name)'
                                                  /\ Earlier(q, p) /\ s - 1 \in Covered(At(q).ranges)'
    <3>1. CASE p = n
      <4>1. At(p)' = e /\ e.type = "SURFACE_CONNS"
        BY <1>4, <2>1, <3>1
      <4>2. PICK s \in 1..MaxId :
               /\ e.ranges = <<[start |-> s, stop |-> s]>>
               /\ s > 1 => \E q \in Places : /\ IsObject(q) /\ Of(q, e.mesh, e.name)
                                             /\ s - 1 \in Covered(At(q).ranges)
        BY <4>1 DEF EntryFits
      <4>3. ASSUME s > 1
            PROVE  \E q \in Places' : /\ IsObject(q)' /\ Of(q, At(p).mesh, At(p).name)'
                                      /\ Earlier(q, p) /\ s - 1 \in Covered(At(q).ranges)'
        <5>1. PICK q \in Places : IsObject(q) /\ Of(q, e.mesh, e.name) /\ s - 1 \in Covered(At(q).ranges)
          BY <4>2, <4>3
        <5>2. q \in Places' /\ IsObject(q)' /\ Earlier(q, p) /\ s - 1 \in Covered(At(q).ranges)'
          BY <1>4, <1>5, <3>1, <5>1
        <5>3. Of(q, At(p).mesh, At(p).name)'
          BY <1>4, <4>1, <5>1 DEF Of
        <5>4. QED
          BY <5>2, <5>3
      <4>4. QED
        BY <4>1, <4>2, <4>3
    <3>2. CASE p # n
      <4>1. p \in Places /\ At(p)' = At(p) /\ At(p).type = "SURFACE_CONNS"
        BY <1>4, <2>1, <3>2
      <4>2. PICK s \in 1..MaxId :
               /\ At(p).ranges = <<[start |-> s, stop |-> s]>>
               /\ s > 1 => \E q \in Places : /\ IsObject(q) /\ Of(q, At(p).mesh, At(p).name)
                                             /\ Earlier(q, p) /\ s - 1 \in Covered(At(q).ranges)
        BY <4>1 DEF FilesInv, SurfacesInOrder
      <4>3. ASSUME s > 1
            PROVE  \E q \in Places' : /\ IsObject(q)' /\ Of(q, At(p).mesh, At(p).name)'
                                      /\ Earlier(q, p) /\ s - 1 \in Covered(At(q).ranges)'
        <5>1. PICK q \in Places : /\ IsObject(q) /\ Of(q, At(p).mesh, At(p).name)
                                  /\ Earlier(q, p) /\ s - 1 \in Covered(At(q).ranges)
          BY <4>2, <4>3
        <5>2. q \in Places' /\ IsObject(q)' /\ s - 1 \in Covered(At(q).ranges)'
          BY <1>4, <1>5, <5>1
        <5>3. Of(q, At(p).mesh, At(p).name)'
          BY <1>4, <4>1, <5>1 DEF Of
        <5>4. QED
          BY <5>1, <5>2, <5>3
      <4>4. QED
        BY <4>1, <4>2, <4>3
    <3>3. QED
      BY <3>1, <3>2
  <2>2. QED
    BY <2>1 DEF SurfacesInOrder, Earlier
<1>13. IdsOnce'
  <2>1. ASSUME NEW p \in Places', NEW q \in Places', IsObject(p)', IsObject(q)',
               At(p).mesh' = At(q).mesh', At(p).name' = At(q).name',
               NEW k \in DOMAIN At(p).ranges', NEW l \in DOMAIN At(q).ranges',
               <<p, k>> # <<q, l>>
        PROVE  Ids(At(p).ranges'[k]) \cap Ids(At(q).ranges'[l]) = {}
    <3>1. CASE p # n /\ q # n
      <4>1. /\ p \in Places /\ q \in Places /\ IsObject(p) /\ IsObject(q)
            /\ At(p)' = At(p) /\ At(q)' = At(q)
        BY <1>4, <1>5, <2>1, <3>1
      <4>2. QED
        BY <2>1, <4>1 DEF FilesInv, IdsOnce
    <3>2. CASE p = n /\ q = n
      <4>1. e.type \in ObjectTypes /\ At(p)' = e /\ At(q)' = e /\ k # l
        BY <1>4, <1>6, <2>1, <3>2
      <4>2. QED
        BY <2>1, <4>1 DEF EntryFits
    <3>3. CASE p # n /\ q = n
      <4>1. /\ p \in Places /\ IsObject(p) /\ At(p)' = At(p) /\ At(q)' = e /\ e.type \in ObjectTypes
        BY <1>4, <1>5, <1>6, <2>1, <3>3
      <4>2. Of(p, e.mesh, e.name)
        BY <2>1, <4>1 DEF Of
      <4>3. QED
        BY <2>1, <4>1, <4>2 DEF EntryFits
    <3>4. CASE p = n /\ q # n
      <4>1. /\ q \in Places /\ IsObject(q) /\ At(q)' = At(q) /\ At(p)' = e /\ e.type \in ObjectTypes
        BY <1>4, <1>5, <1>6, <2>1, <3>4
      <4>2. Of(q, e.mesh, e.name)
        BY <2>1, <4>1 DEF Of
      <4>3. Ids(At(q).ranges[l]) \cap Ids(e.ranges[k]) = {}
        BY <2>1, <4>1, <4>2 DEF EntryFits
      <4>4. QED
        BY <4>1, <4>3
    <3>5. QED
      BY <3>1, <3>2, <3>3, <3>4
  <2>2. QED
    BY <2>1 DEF IdsOnce
<1>14. QED
  BY <1>2, <1>8, <1>9, <1>10, <1>11, <1>12, <1>13 DEF FilesInv

-----------------------------------------------------------------------------
(***************************************************************************)
(* The meshes in memory.                                                   *)
(***************************************************************************)
MeshRecord == [name : Names, table : [Classes -> ClassRecord]]

\* Meshes of different names are no more than the names.
LEMMA Pigeons ==
    ASSUME NEW k \in Nat, NEW f \in [1..k -> Names],
           \A i, j \in 1..k : i # j => f[i] # f[j]
    PROVE  Cardinality(Names) \in Nat /\ k <= Cardinality(Names)
<1>1. IsFiniteSet(Names)
  BY MeshAssumption
<1>2. f \in Injection(1..k, Names)
  BY DEF Injection, IsInjective
<1>3. Cardinality(1..k) <= Cardinality(Names)
  BY <1>1, <1>2, FS_Injection
<1>4. Cardinality(1..k) = k
  <2>1. 1 \in Int /\ k \in Int
    OBVIOUS
  <2>2. Cardinality(1..k) = IF 1 > k THEN 0 ELSE k - 1 + 1
    BY <2>1, FS_Interval
  <2>3. QED
    BY <2>2
<1>5. QED
  BY <1>1, <1>3, <1>4, FS_CardinalityType

\* There are no more meshes than ids of meshes.
LEMMA FewMeshes ==
    ASSUME MeshesLoaded
    PROVE  /\ Len(meshes) \in Nat /\ DOMAIN meshes = 1..Len(meshes)
           /\ Cardinality(Names) \in Nat
           /\ DOMAIN meshes \subseteq MeshIds
           /\ \A n \in Names : (\A m \in DOMAIN meshes : meshes[m].name # n) => Len(meshes) + 1 \in MeshIds
<1> DEFINE k == Len(meshes)
           f == [m \in 1..k |-> meshes[m].name]
<1>1. /\ k \in Nat /\ DOMAIN meshes = 1..k
      /\ \A m \in 1..k : meshes[m] \in MeshRecord /\ meshes[m].name \in Names
      /\ \A m, l \in 1..k : m # l => meshes[m].name # meshes[l].name
  <2>1. meshes \in Seq(MeshRecord)
    BY DEF MeshesLoaded, MeshRecord
  <2>2. k \in Nat /\ DOMAIN meshes = 1..k /\ \A m \in 1..k : meshes[m] \in MeshRecord
    BY <2>1
  <2>3. \A x \in MeshRecord : x.name \in Names
    BY DEF MeshRecord
  <2>4. \A m, l \in DOMAIN meshes : m # l => meshes[m].name # meshes[l].name
    BY DEF MeshesLoaded
  <2>5. QED
    BY <2>2, <2>3, <2>4
<1> HIDE DEF k
<1>2. Cardinality(Names) \in Nat /\ k <= Cardinality(Names)
  <2>1. f \in [1..k -> Names] /\ \A i, j \in 1..k : i # j => f[i] # f[j]
    BY <1>1
  <2> HIDE DEF f
  <2>2. QED
    BY <1>1, <2>1, Pigeons
<1>3. ASSUME NEW n \in Names, \A m \in DOMAIN meshes : meshes[m].name # n
      PROVE  k + 1 <= Cardinality(Names)
  <2> DEFINE g == [m \in 1..k + 1 |-> IF m = k + 1 THEN n ELSE meshes[m].name]
  <2>1. \A m \in 1..k + 1 : m = k + 1 \/ m \in 1..k
    BY <1>1
  <2>2. g \in [1..k + 1 -> Names] /\ \A i, j \in 1..k + 1 : i # j => g[i] # g[j]
    BY <1>1, <1>3, <2>1
  <2>3. k + 1 \in Nat
    BY <1>1
  <2> HIDE DEF g
  <2>4. QED
    BY <2>2, <2>3, Pigeons
<1>4. QED
  BY <1>1, <1>2, <1>3 DEF MeshIds, k

\* What changing one class of one mesh changes.
LEMMA UpdateClass ==
    ASSUME meshes \in Seq(MeshRecord), NEW m \in DOMAIN meshes, NEW c \in Classes, NEW x \in ClassRecord,
           meshes' = [meshes EXCEPT ![m].table[c] = x]
    PROVE  /\ meshes' \in Seq(MeshRecord) /\ DOMAIN meshes' = DOMAIN meshes /\ Len(meshes') = Len(meshes)
           /\ \A k \in DOMAIN meshes : meshes'[k].name = meshes[k].name
           /\ Class(m, c)' = x
           /\ \A k \in DOMAIN meshes, d \in Classes : <<k, d>> # <<m, c>> => Class(k, d)' = Class(k, d)
<1>1. Len(meshes) \in Nat /\ DOMAIN meshes = 1..Len(meshes) /\ m \in 1..Len(meshes) /\ meshes[m] \in MeshRecord
  OBVIOUS
<1> DEFINE y == [meshes[m] EXCEPT !.table = [meshes[m].table EXCEPT ![c] = x]]
<1>2. y \in MeshRecord /\ y.name = meshes[m].name /\ y.table = [meshes[m].table EXCEPT ![c] = x]
  BY <1>1 DEF MeshRecord
<1>3. meshes' = [meshes EXCEPT ![m] = y]
  BY <1>1
<1>4. meshes[m].table \in [Classes -> ClassRecord]
  BY <1>1 DEF MeshRecord
<1> HIDE DEF y
<1>5. /\ meshes' \in Seq(MeshRecord) /\ Len(meshes') = Len(meshes)
      /\ \A k \in 1..Len(meshes) : meshes'[k] = IF k = m THEN y ELSE meshes[k]
  BY <1>1, <1>2, <1>3, ExceptSeq
<1>6. DOMAIN meshes' = DOMAIN meshes
  BY <1>3
<1>7. \A k \in DOMAIN meshes : meshes'[k].name = meshes[k].name
  BY <1>1, <1>2, <1>5
<1>8. Class(m, c)' = x
  BY <1>1, <1>2, <1>4, <1>5 DEF Class
<1>9. \A k \in DOMAIN meshes, d \in Classes : <<k, d>> # <<m, c>> => Class(k, d)' = Class(k, d)
  BY <1>1, <1>2, <1>4, <1>5 DEF Class
<1>10. QED
  BY <1>5, <1>6, <1>7, <1>8, <1>9

\* A class nothing happens to stays right.
KnownSame ==
    /\ Known' = Known
    /\ \A q \in Known : /\ At(q).type' = At(q).type /\ At(q).mesh' = At(q).mesh
                        /\ At(q).name' = At(q).name /\ At(q).superclass' = At(q).superclass
    /\ \A q \in Known : \A m, c : FirstDef(q, m, c)' <=> FirstDef(q, m, c)

\* A class whose definitions are known as before, and which is as before, is right.
LEMMA ClassKept ==
    ASSUME NEW m, NEW c, ClassLoaded(m, c), Class(m, c)' = Class(m, c),
           \/ KnownSame
           \/ \E n, e : /\ Grows(n, e)
                        /\ e.type = "CLASS_DEF" /\ e.mesh = m /\ e.name = c
                           => Class(m, c).superclass # "none"
    PROVE  ClassLoaded(m, c)'
<1>1. CASE KnownSame
  <2>1. \A q \in Known : (IsClass(q) /\ Of(q, m, c))' <=> (IsClass(q) /\ Of(q, m, c))
    BY <1>1 DEF KnownSame, IsClass, Of
  <2>2. CASE Class(m, c).superclass = "none"
    <3>1. Class(m, c) = ClassData("none") /\ ~\E q \in Known : IsClass(q) /\ Of(q, m, c)
      BY <2>2 DEF ClassLoaded
    <3>2. Class(m, c)' = ClassData("none") /\ ~\E q \in Known' : IsClass(q)' /\ Of(q, m, c)'
      BY <1>1, <2>1, <3>1 DEF KnownSame
    <3>3. Class(m, c).superclass' = "none"
      BY <2>2
    <3>4. QED
      BY <3>2, <3>3 DEF ClassLoaded, ClassData
  <2>3. CASE Class(m, c).superclass # "none"
    <3>1. PICK q \in Known : FirstDef(q, m, c) /\ At(q).superclass = Class(m, c).superclass
      BY <2>3 DEF ClassLoaded
    <3>2. q \in Known' /\ FirstDef(q, m, c)' /\ At(q).superclass' = Class(m, c).superclass'
      BY <1>1, <3>1 DEF KnownSame
    <3>3. Class(m, c).superclass' # "none"
      BY <2>3
    <3>4. QED
      BY <3>2, <3>3 DEF ClassLoaded
  <2>4. QED
    BY <2>2, <2>3
<1>2. CASE ~KnownSame
  <2>0. PICK n, e : /\ Grows(n, e)
                    /\ e.type = "CLASS_DEF" /\ e.mesh = m /\ e.name = c
                       => Class(m, c).superclass # "none"
    BY <1>2
  <2>1. /\ Known' = Known \cup {n} /\ \A q \in Known : At(q)' = At(q)
        /\ At(n)' = e
        /\ \A q \in Known : FirstDef(q, m, c) => FirstDef(q, m, c)'
    BY <2>0 DEF Grows
  <2>2. CASE Class(m, c).superclass = "none"
    <3>1. Class(m, c) = ClassData("none") /\ ~\E q \in Known : IsClass(q) /\ Of(q, m, c)
      BY <2>2 DEF ClassLoaded
    <3>2. \A q \in Known : ~(IsClass(q)' /\ Of(q, m, c)')
      BY <2>1, <3>1 DEF IsClass, Of
    <3>3. ~(IsClass(n)' /\ Of(n, m, c)')
      BY <2>0, <2>1, <2>2 DEF IsClass, Of
    <3>4. Class(m, c)' = ClassData("none") /\ ~\E q \in Known' : IsClass(q)' /\ Of(q, m, c)'
      BY <2>1, <3>1, <3>2, <3>3
    <3>5. Class(m, c).superclass' = "none"
      BY <2>2
    <3>6. QED
      BY <3>4, <3>5 DEF ClassLoaded, ClassData
  <2>3. CASE Class(m, c).superclass # "none"
    <3>1. PICK q \in Known : FirstDef(q, m, c) /\ At(q).superclass = Class(m, c).superclass
      BY <2>3 DEF ClassLoaded
    <3>2. q \in Known' /\ FirstDef(q, m, c)' /\ At(q)' = At(q)
      BY <2>1, <3>1
    <3>3. Class(m, c).superclass' # "none" /\ At(q).superclass' = Class(m, c).superclass'
      BY <2>3, <3>1, <3>2
    <3>4. QED
      BY <3>2, <3>3 DEF ClassLoaded
  <2>4. QED
    BY <2>2, <2>3
<1>3. QED
  BY <1>1, <1>2

\* So are its blocks.
LEMMA BlocksKept ==
    ASSUME NEW m, NEW c, BlocksLoaded(m, c), Class(m, c)' = Class(m, c),
           Recorded(m, c)' \cup stranded'[m][c] \cup Pending(m, c)'
               = Recorded(m, c) \cup stranded[m][c] \cup Pending(m, c),
           Class(m, c).superclass = "surface" => stranded'[m][c] = {}
    PROVE  BlocksLoaded(m, c)'
<1> DEFINE t == Class(m, c)
<1>1. /\ Ordered(t.blocks)
      /\ Covered(t.blocks) = Recorded(m, c) \cup stranded[m][c] \cup Pending(m, c)
      /\ t.object_qty = Cardinality(Covered(t.blocks))
      /\ t.superclass = "surface" => Covered(t.blocks) = 1..NextSurface(t.blocks) - 1
  BY DEF BlocksLoaded
<1>2. /\ Ordered(t.blocks)' <=> Ordered(t.blocks)
      /\ Covered(t.blocks)' = Covered(t.blocks)
      /\ Cardinality(Covered(t.blocks))' = Cardinality(Covered(t.blocks))
      /\ NextSurface(t.blocks)' = NextSurface(t.blocks)
      /\ t.object_qty' = t.object_qty /\ t.superclass' = t.superclass
  BY DEF Ordered, Covered, NextSurface
<1> HIDE DEF t
<1>3. QED
  BY <1>1, <1>2 DEF BlocksLoaded, t

\* What is known has its type, and comes before what is not.
LEMMA KnownTyped ==
    ASSUME FilesInv
    PROVE  \A p \in Places : /\ At(p).type \in Types /\ At(p).mesh \in MeshIds
                             /\ At(p).ranges \in Seq(IdRange)
                             /\ ~IsMesh(p) => At(p).name \in Classes
<1>1. PICK D : files \in Seq(Seq(EntryOf(D)))
  BY DEF FilesInv, FilesTyped
<1>2. \A p \in Places : At(p) \in EntryOf(D)
  BY <1>1, PlaceIs
<1>3. QED
  BY <1>2 DEF FilesInv, FilesTyped, EntryOf

\* What comes before a known entry is known too.
LEMMA KnownClosed ==
    ASSUME FilesInv, CallInv, NEW p \in Known, NEW q \in Places, Earlier(q, p)
    PROVE  q \in Known
<1>1. PICK D : files \in Seq(Seq(EntryOf(D)))
  BY DEF FilesInv, FilesTyped
<1>2. \A r \in Places : \E i, j \in Nat : r = <<i, j>>
  BY <1>1, PlaceIs
<1>3. CASE proc = "loading"
  <2>1. PICK i, j \in Nat : p = <<i, j>>
    BY <1>2 DEF Known
  <2>2. PICK k, l \in Nat : q = <<k, l>>
    BY <1>2
  <2>3. \E a, b \in Nat : at = <<a, b>>
    <3>1. Len(files) + 1 \in Nat
      BY <1>1
    <3>2. QED
      BY <1>2, <1>3, <3>1 DEF CallInv
  <2>4. PICK a, b \in Nat : at = <<a, b>>
    BY <2>3
  <2>5. Earlier(p, at)
    BY <1>3 DEF Known, Seen
  <2>6. Earlier(q, at)
    BY <2>1, <2>2, <2>4, <2>5 DEF Earlier
  <2>7. QED
    BY <2>6 DEF Known, Seen
<1>4. CASE proc # "loading"
  BY <1>4 DEF Known, Seen
<1>5. QED
  BY <1>3, <1>4

\* The meshes that are known, in the order of their ids.
LEMMA KnownMeshes ==
    ASSUME FilesInv, CallInv, MeshesLoaded, proc \in {"open", "loading"}, NEW p \in Known
    PROVE  At(p).mesh \in DOMAIN meshes
<1>1. p \in Places /\ At(p).mesh \in MeshIds
  BY KnownTyped DEF Known
<1>2. \E q \in Known : IsMesh(q) /\ At(q).mesh = At(p).mesh
  <2>1. CASE IsMesh(p)
    BY <2>1
  <2>2. CASE ~IsMesh(p)
    <3>1. PICK q \in Places : IsMesh(q) /\ Earlier(q, p) /\ At(q).mesh = At(p).mesh
      BY <1>1, <2>2 DEF FilesInv, MeshesNamed
    <3>2. QED
      BY <3>1, KnownClosed
  <2>3. QED
    BY <2>1, <2>2
<1>3. QED
  BY <1>1, <1>2 DEF MeshesLoaded

\* The meshes stay right when no entry of a mesh becomes known.
LEMMA MeshesKept ==
    ASSUME FilesInv, CallInv, MeshesLoaded, meshes' \in Seq(MeshRecord), DOMAIN meshes' = DOMAIN meshes,
           \A k \in DOMAIN meshes : meshes'[k].name = meshes[k].name,
           proc' \in {"open", "loading"} => proc \in {"open", "loading"},
           \/ KnownSame
           \/ \E n, e : Grows(n, e) /\ e.type # "MESH_NAME"
    PROVE  MeshesLoaded'
<1>1. /\ \A q \in Known : q \in Known' /\ (IsMesh(q)' <=> IsMesh(q)) /\ At(q).mesh' = At(q).mesh
                          /\ At(q).name' = At(q).name
      /\ \A q \in Known' : IsMesh(q)' => q \in Known
  <2>1. CASE KnownSame
    BY <2>1 DEF KnownSame, IsMesh
  <2>2. CASE \E n, e : Grows(n, e) /\ e.type # "MESH_NAME"
    <3>1. PICK n, e : Grows(n, e) /\ e.type # "MESH_NAME"
      BY <2>2
    <3>2. Known' = Known \cup {n} /\ (\A q \in Known : At(q)' = At(q)) /\ At(n)' = e
      BY <3>1 DEF Grows
    <3>3. QED
      BY <3>1, <3>2 DEF IsMesh
  <2>3. QED
    BY <2>1, <2>2
<1>2. ASSUME NEW m \in MeshIds, proc' \in {"open", "loading"}
      PROVE  m \in DOMAIN meshes' <=> \E p \in Known' : IsMesh(p)' /\ At(p).mesh' = m
  <2>1. m \in DOMAIN meshes <=> \E p \in Known : IsMesh(p) /\ At(p).mesh = m
    BY <1>2 DEF MeshesLoaded
  <2>2. QED
    BY <1>1, <2>1
<1>3. ASSUME NEW p \in Known', proc' \in {"open", "loading"}, IsMesh(p)'
      PROVE  meshes'[At(p).mesh'].name = At(p).name'
  <2>1. /\ p \in Known /\ IsMesh(p) /\ At(p).mesh' = At(p).mesh /\ At(p).name' = At(p).name
        /\ proc \in {"open", "loading"}
    BY <1>1, <1>3
  <2>2. At(p).mesh \in DOMAIN meshes /\ meshes[At(p).mesh].name = At(p).name
    BY <2>1, KnownMeshes DEF MeshesLoaded
  <2>3. QED
    BY <2>1, <2>2
<1>4. ASSUME NEW m \in DOMAIN meshes', NEW k \in DOMAIN meshes', m # k
      PROVE  meshes'[m].name # meshes'[k].name
  BY <1>4 DEF MeshesLoaded
<1>5. MeshIds' = MeshIds
  BY DEF MeshIds
<1>6. QED
  BY <1>2, <1>3, <1>4, <1>5 DEF MeshesLoaded, MeshRecord

\* A mesh whose name is read, or given by a call, is the next one.
LEMMA MeshesGrown ==
    ASSUME FilesInv, CallInv, MeshesLoaded, NEW n, NEW e, Grows(n, e), e.type = "MESH_NAME",
           e.name \in Names, e.mesh = Len(meshes) + 1,
           \A k \in DOMAIN meshes : meshes[k].name # e.name,
           proc \in {"open", "loading"}, proc' = proc,
           meshes' = Append(meshes, [name |-> e.name, table |-> NoClasses])
    PROVE  /\ MeshesLoaded'
           /\ e.mesh \in MeshIds /\ e.mesh \notin DOMAIN meshes
           /\ DOMAIN meshes' = DOMAIN meshes \cup {e.mesh}
           /\ \A k \in DOMAIN meshes, c \in Classes : Class(k, c)' = Class(k, c)
           /\ \A c \in Classes : Class(e.mesh, c)' = ClassData("none")
<1> DEFINE x == [name |-> e.name, table |-> NoClasses]
           l == Len(meshes)
<1>1. meshes \in Seq(MeshRecord) /\ l \in Nat /\ DOMAIN meshes = 1..l
  BY DEF MeshesLoaded, MeshRecord
<1>2. x \in MeshRecord /\ x.name = e.name /\ x.table = NoClasses
  BY DEF MeshRecord, NoClasses, ClassRecord, ClassData
<1> HIDE DEF x
<1>3. /\ meshes' \in Seq(MeshRecord) /\ Len(meshes') = l + 1 /\ DOMAIN meshes' = 1..l + 1
      /\ \A k \in 1..l : meshes'[k] = meshes[k]
      /\ meshes'[l + 1] = x
  <2>1. meshes' = Append(meshes, x)
    BY DEF x
  <2>2. QED
    BY <1>1, <1>2, <2>1
<1>4. PICK M : M = e.mesh /\ M = l + 1
  OBVIOUS
<1> HIDE DEF l
<1>5. M \in MeshIds /\ M \notin DOMAIN meshes /\ DOMAIN meshes' = DOMAIN meshes \cup {M}
  <2>1. M \in MeshIds
    BY <1>4, FewMeshes DEF l
  <2>2. QED
    BY <1>1, <1>3, <1>4, <2>1
<1>6. \A k \in DOMAIN meshes, c \in Classes : Class(k, c)' = Class(k, c)
  BY <1>1, <1>3 DEF Class
<1>7. \A c \in Classes : Class(M, c)' = ClassData("none")
  BY <1>2, <1>3, <1>4 DEF Class, NoClasses
<1>8. /\ Known' = Known \cup {n} /\ (\A q \in Known : At(q)' = At(q)) /\ At(n)' = e
  BY DEF Grows
<1>9. ASSUME NEW m \in MeshIds
      PROVE  m \in DOMAIN meshes' <=> \E p \in Known' : IsMesh(p)' /\ At(p).mesh' = m
  <2>1. m \in DOMAIN meshes <=> \E p \in Known : IsMesh(p) /\ At(p).mesh = m
    BY DEF MeshesLoaded
  <2>2. QED
    BY <1>4, <1>5, <1>8, <2>1 DEF IsMesh
<1>10. ASSUME NEW p \in Known', IsMesh(p)'
       PROVE  meshes'[At(p).mesh'].name = At(p).name'
  <2>1. CASE p = n
    BY <1>2, <1>3, <1>4, <1>8, <2>1
  <2>2. CASE p # n
    <3>1. p \in Known /\ IsMesh(p) /\ At(p)' = At(p)
      BY <1>8, <1>10, <2>2 DEF IsMesh
    <3>2. At(p).mesh \in DOMAIN meshes /\ meshes[At(p).mesh].name = At(p).name
      BY <3>1, KnownMeshes DEF MeshesLoaded
    <3>3. QED
      BY <1>1, <1>3, <3>1, <3>2
  <2>3. QED
    BY <2>1, <2>2
<1>11. ASSUME NEW m \in DOMAIN meshes', NEW k \in DOMAIN meshes', m # k
       PROVE  meshes'[m].name # meshes'[k].name
  <2>1. \A i \in DOMAIN meshes' : i = l + 1 \/ i \in DOMAIN meshes
    BY <1>4, <1>5
  <2>2. \A i \in DOMAIN meshes : meshes'[i] = meshes[i]
    BY <1>1, <1>3
  <2>3. QED
    BY <1>2, <1>3, <1>11, <2>1, <2>2 DEF MeshesLoaded
<1>12. MeshIds' = MeshIds
  BY DEF MeshIds
<1>13. MeshesLoaded'
  BY <1>3, <1>9, <1>10, <1>11, <1>12 DEF MeshesLoaded, MeshRecord
<1>14. QED
  BY <1>4, <1>5, <1>6, <1>7, <1>13

\* A class of a new mesh has no blocks and no objects.
LEMMA EmptyClass ==
    /\ Ordered(<< >>) /\ Covered(<< >>) = {} /\ NextSurface(<< >>) = 1
    /\ Cardinality({}) = 0
    /\ \A s : ClassData(s).blocks = << >> /\ ClassData(s).object_qty = 0 /\ ClassData(s).superclass = s
<1>1. Ordered(<< >>)
  BY DEF Ordered
<1>2. Covered(<< >>) = {}
  BY DEF Covered
<1>3. QED
  BY <1>1, <1>2, FS_EmptySet DEF NextSurface, ClassData

\* What MakeUmesh adds.
LEMMA FreshMesh ==
    ASSUME FilesInv, CallInv, MeshesLoaded, proc \in {"open", "loading"}, NEW m, m \notin DOMAIN meshes, NEW c
    PROVE  Recorded(m, c) = {} /\ ~\E q \in Known : Of(q, m, c)
<1>1. \A q \in Known : At(q).mesh \in DOMAIN meshes
  BY KnownMeshes
<1>2. ~\E q \in Known : Of(q, m, c)
  BY <1>1 DEF Of
<1>3. \A x : x \notin Recorded(m, c)
  BY <1>2, RecordedIs
<1>4. QED
  BY <1>2, <1>3

\* Entries that do not change are the same at every place.
LEMMA SameAt ==
    ASSUME files' = files, proc' = proc, at' = at
    PROVE  KnownSame /\ \A m, c : Recorded(m, c)' = Recorded(m, c)
<1>1. Places' = Places /\ Known' = Known
  BY DEF Places, Known, Seen, Earlier
<1>2. \A p : At(p)' = At(p)
  BY DEF At
<1>3. \A q, m, c : FirstDef(q, m, c)' <=> FirstDef(q, m, c)
  BY <1>1 DEF FirstDef, IsClass, Of, At, Earlier
<1>4. KnownSame
  BY <1>1, <1>2, <1>3 DEF KnownSame
<1>5. \A m, c : Recorded(m, c)' = Recorded(m, c)
  BY DEF Recorded, ObjectPlaces, Places, At, Earlier, Covered
<1>6. QED
  BY <1>4, <1>5

\* What is in memory stays right when nothing becomes known.
LEMMA MemorySame ==
    ASSUME FilesInv, CallInv, MemoryInv, KnownSame, meshes' = meshes, stranded' = stranded,
           \A m, c : Recorded(m, c)' = Recorded(m, c) /\ Pending(m, c)' = Pending(m, c),
           proc' \in {"open", "loading"} => proc \in {"open", "loading"},
           proc' = "loading" => proc = "loading"
    PROVE  MemoryInv'
<1>1. MeshesLoaded'
  BY MeshesKept DEF MemoryInv, MeshesLoaded, MeshRecord
<1>2. StrandedInv'
  BY DEF MemoryInv, StrandedInv, MeshIds
<1>3. ASSUME NEW m \in DOMAIN meshes', NEW c \in Classes
      PROVE  ClassLoaded(m, c)' /\ BlocksLoaded(m, c)'
  <2>1. m \in DOMAIN meshes /\ Class(m, c)' = Class(m, c) /\ ClassLoaded(m, c) /\ BlocksLoaded(m, c)
    BY DEF Class, MemoryInv
  <2>2. ClassLoaded(m, c)'
    BY <2>1, ClassKept
  <2>3. Class(m, c).superclass = "surface" => stranded'[m][c] = {}
    BY <2>1 DEF BlocksLoaded
  <2>4. BlocksLoaded(m, c)'
    BY <2>1, <2>3, BlocksKept
  <2>5. QED
    BY <2>2, <2>4
<1>4. QED
  BY <1>1, <1>2, <1>3 DEF MemoryInv

-----------------------------------------------------------------------------
(***************************************************************************)
(* The actions.                                                            *)
(***************************************************************************)
\* Queries, writing to disk and stuttering change nothing the invariant is about.
LEMMA OthersKeep ==
    ASSUME IInv, UNCHANGED <<meshes, files, proc, doing, entry, added, at, stranded>>
    PROVE  IInv'
<1>1. FilesInv' /\ Places' = Places
  BY FilesSame DEF IInv
<1>2. KnownSame /\ \A m, c : Recorded(m, c)' = Recorded(m, c)
  BY SameAt
<1>3. \A m, c : Pending(m, c)' = Pending(m, c)
  BY DEF Pending, Ids
<1>4. MemoryInv'
  BY <1>2, <1>3, MemorySame DEF IInv
<1>5. CallInv'
  <2>1. EntryInv => EntryInv'
    BY <1>2 DEF EntryInv, SurfaceInv, NextSurface, Class
  <2>2. DefineInv => DefineInv'
    BY <1>2 DEF DefineInv, EntryOf, MeshIds
  <2>3. LoadInv => LoadInv'
    BY <1>1 DEF LoadInv, At
  <2>4. QED
    BY <1>1, <2>1, <2>2, <2>3 DEF IInv, CallInv
<1>6. QED
  BY <1>1, <1>4, <1>5 DEF IInv

\* Between calls no block waits for its entry.
LEMMA NothingPending ==
    /\ doing = "none" => \A m, c : Pending(m, c) = {}
    /\ doing' = "none" => \A m, c : Pending(m, c)' = {}
    /\ added = 0 => \A m, c : Pending(m, c) = {}
    /\ added' = 0 => \A m, c : Pending(m, c)' = {}
  BY DEF Pending


\* A mesh that is known beside the others has no classes yet.
LEMMA MeshAdded ==
    ASSUME FilesInv, CallInv, MemoryInv, NEW n, NEW e, Grows(n, e), e.type = "MESH_NAME",
           e.name \in Names, e.mesh = Len(meshes) + 1,
           \A k \in DOMAIN meshes : meshes[k].name # e.name,
           proc \in {"open", "loading"}, proc' = proc, doing = "none", doing' = "none",
           stranded' = stranded,
           meshes' = Append(meshes, [name |-> e.name, table |-> NoClasses])
    PROVE  MemoryInv'
<1>1. MeshesLoaded /\ StrandedInv
  BY DEF MemoryInv
<1>2. /\ MeshesLoaded'
      /\ e.mesh \in MeshIds /\ e.mesh \notin DOMAIN meshes
      /\ DOMAIN meshes' = DOMAIN meshes \cup {e.mesh}
      /\ \A k \in DOMAIN meshes, c \in Classes : Class(k, c)' = Class(k, c)
      /\ \A c \in Classes : Class(e.mesh, c)' = ClassData("none")
  BY <1>1, MeshesGrown
<1>3. \A m, c : Recorded(m, c)' = Recorded(m, c)
  <2>1. SUFFICES ASSUME NEW m, NEW c PROVE Recorded(m, c)' = Recorded(m, c)
    OBVIOUS
  <2>2. e.type \notin ObjectTypes
    BY DEF ObjectTypes
  <2>3. Recorded(m, c)' = Recorded(m, c) \cup
            (IF e.type \in ObjectTypes /\ e.mesh = m /\ e.name = c THEN Covered(e.ranges) ELSE {})
    BY RecordedGrows
  <2>4. QED
    BY <2>2, <2>3
<1>4. \A m, c : Pending(m, c) = {} /\ Pending(m, c)' = {}
  BY NothingPending
<1>5. StrandedInv'
  BY <1>1, <1>2 DEF StrandedInv, MeshIds
<1>6. ASSUME NEW m \in DOMAIN meshes', NEW c \in Classes
      PROVE  ClassLoaded(m, c)' /\ BlocksLoaded(m, c)'
  <2>1. CASE m \in DOMAIN meshes
    <3>1. Class(m, c)' = Class(m, c) /\ ClassLoaded(m, c) /\ BlocksLoaded(m, c)
      BY <1>2, <2>1 DEF MemoryInv
    <3>2. ClassLoaded(m, c)'
      BY <3>1, ClassKept
    <3>3. BlocksLoaded(m, c)'
      BY <1>3, <1>4, <3>1, BlocksKept DEF BlocksLoaded
    <3>4. QED
      BY <3>2, <3>3
  <2>2. CASE m \notin DOMAIN meshes
    <3>1. m = e.mesh /\ Class(m, c)' = ClassData("none")
      BY <1>2, <1>6, <2>2
    <3>2. Recorded(m, c) = {} /\ ~\E q \in Known : Of(q, m, c)
      BY <1>1, <2>2, FreshMesh
    <3>3. stranded'[m][c] = {}
      BY <1>1, <1>2, <2>2, <3>1 DEF StrandedInv
    <3>4. ~\E q \in Known' : IsClass(q)' /\ Of(q, m, c)'
      <4>1. Known' = Known \cup {n} /\ (\A q \in Known : At(q)' = At(q)) /\ At(n)' = e
        BY DEF Grows
      <4>2. QED
        BY <3>2, <4>1 DEF IsClass, Of
    <3>5. ClassLoaded(m, c)'
      BY <3>1, <3>4, EmptyClass DEF ClassLoaded
    <3>6. BlocksLoaded(m, c)'
      <4>1. /\ Class(m, c).blocks' = << >> /\ Class(m, c).object_qty' = 0
            /\ Class(m, c).superclass' = "none"
        BY <3>1, EmptyClass
      <4>2. Ordered(Class(m, c).blocks)'
        BY <4>1, EmptyClass DEF Ordered
      <4>3. Covered(Class(m, c).blocks)' = {}
        BY <4>1, EmptyClass DEF Covered
      <4>4. QED
        BY <1>3, <1>4, <3>2, <3>3, <4>1, <4>2, <4>3, EmptyClass DEF BlocksLoaded
    <3>7. QED
      BY <3>5, <3>6
  <2>3. QED
    BY <2>1, <2>2
<1>7. QED
  BY <1>2, <1>5, <1>6 DEF MemoryInv

\* mc_make_umesh keeps the invariant.
LEMMA MakeUmeshKeeps ==
    ASSUME IInv, NEW nm \in Names, MakeUmesh(nm)
    PROVE  IInv'
<1> DEFINE e0 == [NoEntry EXCEPT !.mesh = Len(meshes) + 1, !.name = nm]
<1>1. PICK e : e = e0
  OBVIOUS
<1>2. /\ proc = "open" /\ doing = "none"
      /\ \A m \in DOMAIN meshes : meshes[m].name # nm
      /\ meshes' = Append(meshes, [name |-> nm, table |-> NoClasses])
      /\ Enter(e)
      /\ UNCHANGED <<proc, doing, entry, added, at, stranded>>
  BY <1>1 DEF MakeUmesh, Idle
<1>3. /\ FilesInv /\ MemoryInv /\ CallInv /\ MeshesLoaded
  BY DEF IInv, MemoryInv
<1>4. /\ e.type = "MESH_NAME" /\ e.mesh = Len(meshes) + 1 /\ e.name = nm /\ e.superclass = "none"
      /\ e.ranges = << >> /\ e.data = << >>
      /\ e = [type |-> "MESH_NAME", mesh |-> Len(meshes) + 1, name |-> nm, superclass |-> "none",
              ranges |-> << >>, data |-> << >>]
  BY <1>1 DEF NoEntry
<1>5. /\ Len(meshes) \in Nat /\ DOMAIN meshes = 1..Len(meshes) /\ DOMAIN meshes \subseteq MeshIds
      /\ e.mesh \in MeshIds
  BY <1>2, <1>3, <1>4, FewMeshes
<1>6. Known = Places
  BY <1>2 DEF Known, Seen
<1>7. EntryFits(e)
  <2>1. e \in EntryOf({e.data})
    <3>1. << >> \in Seq(IdRange)
      OBVIOUS
    <3>2. QED
      BY <1>4, <1>5, <3>1 DEF EntryOf, Types
  <2>2. ASSUME NEW q \in Places, IsMesh(q) PROVE At(q).mesh # e.mesh /\ At(q).name # e.name
    <3>1. At(q).mesh \in DOMAIN meshes /\ meshes[At(q).mesh].name = At(q).name
      BY <1>2, <1>3, <1>6, <2>2, KnownMeshes DEF MeshesLoaded
    <3>2. QED
      BY <1>2, <1>4, <1>5, <3>1
  <2>3. ASSUME NEW k \in 1..e.mesh - 1 PROVE \E q \in Places : IsMesh(q) /\ At(q).mesh = k
    <3>1. k \in DOMAIN meshes /\ k \in MeshIds
      BY <1>4, <1>5
    <3>2. QED
      BY <1>2, <1>3, <1>6, <3>1 DEF MeshesLoaded
  <2>4. QED
    BY <1>4, <2>1, <2>2, <2>3 DEF EntryFits, ObjectTypes
<1>8. PICK n : FilesInv' /\ Appended(n, e)
  BY <1>2, <1>3, <1>7, FilesAppended
<1>9. Grows(n, e)
  BY <1>2, <1>8, AppendGrows
<1>10. MemoryInv'
  BY <1>2, <1>3, <1>4, <1>9, MeshAdded
<1>11. CallInv'
  BY <1>2, <1>3 DEF CallInv
<1>12. QED
  BY <1>8, <1>10, <1>11 DEF IInv

\* AddClass gives a class that is not defined its superclass.
LEMMA ClassMade ==
    ASSUME meshes \in Seq(MeshRecord), NEW m \in DOMAIN meshes, NEW c \in Classes, NEW s \in Superclasses
    PROVE  meshes' = AddClass(m, c, s) =>
           /\ meshes' \in Seq(MeshRecord) /\ DOMAIN meshes' = DOMAIN meshes
           /\ \A k \in DOMAIN meshes : meshes'[k].name = meshes[k].name
           /\ Class(m, c).superclass = "none" => Class(m, c)' = ClassData(s)
           /\ Class(m, c).superclass # "none" => Class(m, c)' = Class(m, c)
           /\ \A k \in DOMAIN meshes, d \in Classes : <<k, d>> # <<m, c>> => Class(k, d)' = Class(k, d)
<1>1. PICK x : x = ClassData(s)
  OBVIOUS
<1>2. x \in ClassRecord
  BY <1>1 DEF Superclasses, ClassData, ClassRecord
<1>3. ASSUME meshes' = [meshes EXCEPT ![m].table[c] = x]
      PROVE  /\ meshes' \in Seq(MeshRecord) /\ DOMAIN meshes' = DOMAIN meshes
             /\ \A k \in DOMAIN meshes : meshes'[k].name = meshes[k].name
             /\ Class(m, c)' = x
             /\ \A k \in DOMAIN meshes, d \in Classes : <<k, d>> # <<m, c>> => Class(k, d)' = Class(k, d)
  BY <1>2, <1>3, UpdateClass, ZenonT(60)
<1>4. CASE Class(m, c).superclass = "none"
  <2>1. meshes' = AddClass(m, c, s) => meshes' = [meshes EXCEPT ![m].table[c] = x]
    BY <1>1, <1>4 DEF AddClass
  <2>2. QED
    BY <1>1, <1>3, <1>4, <2>1
<1>5. CASE Class(m, c).superclass # "none"
  <2>1. meshes' = AddClass(m, c, s) => meshes' = meshes
    BY <1>5 DEF AddClass
  <2>2. QED
    BY <1>5, <2>1 DEF Class
<1>6. QED
  BY <1>4, <1>5

\* A definition of a class, given or read: it makes the class, or nothing.
LEMMA ClassAdded ==
    ASSUME FilesInv, CallInv, MemoryInv, NEW n, NEW e, Grows(n, e), e.type = "CLASS_DEF",
           NEW m, m = e.mesh, m \in DOMAIN meshes, NEW c \in Classes, c = e.name,
           e.superclass \in Superclasses,
           meshes' = AddClass(m, c, e.superclass), stranded' = stranded,
           proc \in {"open", "loading"}, proc' = proc, doing = "none", doing' = "none"
    PROVE  MemoryInv'
<1>1. PICK s : s = e.superclass /\ s \in Superclasses
  OBVIOUS
<1>2. MeshesLoaded /\ StrandedInv /\ meshes \in Seq(MeshRecord)
  BY DEF MemoryInv, MeshesLoaded, MeshRecord
<1>3. s # "none" /\ ClassData(s) \in ClassRecord
  BY <1>1 DEF Superclasses, ClassData, ClassRecord
<1>4. \A k, d : Recorded(k, d)' = Recorded(k, d)
  <2>1. SUFFICES ASSUME NEW k, NEW d PROVE Recorded(k, d)' = Recorded(k, d)
    OBVIOUS
  <2>2. e.type \notin ObjectTypes
    BY DEF ObjectTypes
  <2>3. Recorded(k, d)' = Recorded(k, d) \cup
            (IF e.type \in ObjectTypes /\ e.mesh = k /\ e.name = d THEN Covered(e.ranges) ELSE {})
    BY RecordedGrows
  <2>4. QED
    BY <2>2, <2>3
<1>5. \A k, d : Pending(k, d) = {} /\ Pending(k, d)' = {}
  BY NothingPending
<1>6. /\ meshes' \in Seq(MeshRecord) /\ DOMAIN meshes' = DOMAIN meshes
      /\ \A k \in DOMAIN meshes : meshes'[k].name = meshes[k].name
      /\ Class(m, c).superclass = "none" => Class(m, c)' = ClassData(s)
      /\ Class(m, c).superclass # "none" => Class(m, c)' = Class(m, c)
      /\ \A k \in DOMAIN meshes, d \in Classes : <<k, d>> # <<m, c>> => Class(k, d)' = Class(k, d)
  <2>1. meshes' = AddClass(m, c, s)
    BY <1>1
  <2>2. QED
    BY <1>1, <1>2, <2>1, ClassMade
<1>7. MeshesLoaded'
  <2>1. e.type # "MESH_NAME"
    OBVIOUS
  <2>2. QED
    BY <1>2, <1>6, <2>1, MeshesKept
<1>8. StrandedInv'
  BY <1>2, <1>6 DEF StrandedInv, MeshIds
<1>9. ASSUME NEW k \in DOMAIN meshes', NEW d \in Classes
      PROVE  ClassLoaded(k, d)' /\ BlocksLoaded(k, d)'
  <2>1. k \in DOMAIN meshes /\ ClassLoaded(k, d) /\ BlocksLoaded(k, d)
    BY <1>6 DEF MemoryInv
  <2>2. CASE <<k, d>> # <<m, c>> \/ Class(m, c).superclass # "none"
    <3>1. /\ Class(k, d)' = Class(k, d)
          /\ e.type = "CLASS_DEF" /\ e.mesh = k /\ e.name = d => Class(k, d).superclass # "none"
      BY <1>6, <2>1, <2>2
    <3>2. ClassLoaded(k, d)'
      BY <2>1, <3>1, ClassKept
    <3>3. BlocksLoaded(k, d)'
      BY <1>4, <1>5, <2>1, <3>1, BlocksKept DEF BlocksLoaded
    <3>4. QED
      BY <3>2, <3>3
  <2>3. CASE k = m /\ d = c /\ Class(m, c).superclass = "none"
    <3>1. Class(m, c) = ClassData("none") /\ ~\E q \in Known : IsClass(q) /\ Of(q, m, c)
      BY <2>1, <2>3 DEF ClassLoaded
    <3>2. n \in Known' /\ FirstDef(n, m, c)' /\ At(n).superclass' = s
      BY <1>1, <3>1 DEF Grows
    <3>3. Class(m, c)' = ClassData(s)
      BY <1>6, <2>3
    <3>4. /\ Class(m, c).superclass' = s /\ Class(m, c).blocks' = << >>
          /\ Class(m, c).object_qty' = 0
      BY <3>3, EmptyClass
    <3>5. ClassLoaded(m, c)'
      BY <1>3, <3>2, <3>4 DEF ClassLoaded
    <3>6. Recorded(m, c) = {} /\ stranded[m][c] = {}
      <4>1. Covered(Class(m, c).blocks) = Recorded(m, c) \cup stranded[m][c] \cup Pending(m, c)
        BY <2>1, <2>3 DEF BlocksLoaded
      <4>2. Class(m, c).blocks = << >>
        BY <3>1, EmptyClass
      <4>3. Covered(Class(m, c).blocks) = {}
        BY <4>2, EmptyClass
      <4>4. QED
        BY <4>1, <4>3
    <3>7. BlocksLoaded(m, c)'
      <4>1. Ordered(Class(m, c).blocks)'
        BY <3>4, EmptyClass DEF Ordered
      <4>2. Covered(Class(m, c).blocks)' = {}
        BY <3>4, EmptyClass DEF Covered
      <4>3. NextSurface(Class(m, c).blocks)' = 1
        BY <3>4, EmptyClass DEF NextSurface
      <4>4. 1..1 - 1 = {}
        OBVIOUS
      <4>5. Recorded(m, c)' = {} /\ stranded'[m][c] = {} /\ Pending(m, c)' = {}
        BY <1>4, <1>5, <3>6
      <4>6. QED
        BY <3>4, <4>1, <4>2, <4>3, <4>4, <4>5, EmptyClass DEF BlocksLoaded
    <3>8. QED
      BY <2>3, <3>5, <3>7
  <2>4. QED
    BY <2>2, <2>3
<1>10. QED
  BY <1>7, <1>8, <1>9 DEF MemoryInv

\* mc_def_class keeps the invariant.
LEMMA DefClassKeeps ==
    ASSUME IInv, NEW m, NEW c \in Classes, NEW s \in Superclasses, DefClass(m, c, s)
    PROVE  IInv'
<1> DEFINE e0 == [NoEntry EXCEPT !.type = "CLASS_DEF", !.mesh = m, !.name = c, !.superclass = s]
<1>1. PICK e : e = e0
  OBVIOUS
<1>2. /\ proc = "open" /\ doing = "none" /\ m \in DOMAIN meshes
      /\ meshes' = AddClass(m, c, s)
      /\ Enter(e)
      /\ UNCHANGED <<proc, doing, entry, added, at, stranded>>
  BY <1>1 DEF DefClass, Idle
<1>3. FilesInv /\ MemoryInv /\ CallInv /\ MeshesLoaded
  BY DEF IInv, MemoryInv
<1>4. e = [type |-> "CLASS_DEF", mesh |-> m, name |-> c, superclass |-> s,
           ranges |-> << >>, data |-> << >>]
  BY <1>1 DEF NoEntry
<1>5. m \in MeshIds
  BY <1>2, <1>3, FewMeshes
<1>6. EntryFits(e)
  <2>1. e \in EntryOf({e.data})
    <3>1. << >> \in Seq(IdRange)
      OBVIOUS
    <3>2. QED
      BY <1>4, <1>5, <3>1 DEF EntryOf, Types
  <2>2. PICK q \in Known : IsMesh(q) /\ At(q).mesh = m
    BY <1>2, <1>3, <1>5 DEF MeshesLoaded
  <2>3. QED
    BY <1>4, <2>1, <2>2 DEF EntryFits, ObjectTypes, Known
<1>7. PICK n : FilesInv' /\ Appended(n, e)
  BY <1>2, <1>3, <1>6, FilesAppended
<1>8. Grows(n, e)
  BY <1>2, <1>7, AppendGrows
<1>9. MemoryInv'
  <2>1. e.type = "CLASS_DEF" /\ e.mesh = m /\ e.name = c /\ e.superclass = s
    BY <1>4
  <2>2. QED
    BY <1>2, <1>3, <1>8, <2>1, ClassAdded
<1>10. CallInv'
  BY <1>2, <1>3 DEF CallInv
<1>11. QED
  BY <1>7, <1>9, <1>10 DEF IInv

\* The surfaces of a class are its first ids.
LEMMA SurfaceNext ==
    ASSUME NEW blocks, Ordered(blocks), NEW k \in Nat, Covered(blocks) = 1..k
    PROVE  NextSurface(blocks) = k + 1
<1>1. /\ blocks \in Seq(IdRange) /\ Len(blocks) \in Nat /\ DOMAIN blocks = 1..Len(blocks)
      /\ \A i, j \in 1..Len(blocks) : i < j => blocks[i].stop + 1 < blocks[j].start
  BY DEF Ordered
<1>2. \A i \in 1..Len(blocks) : /\ blocks[i].start \in Nat /\ blocks[i].stop \in Nat
                                /\ blocks[i].start <= blocks[i].stop
  BY <1>1, RangeType
<1>3. \A x : x \in 1..k <=> \E i \in 1..Len(blocks) : x \in blocks[i].start..blocks[i].stop
  BY <1>1 DEF Covered, Ids
<1>4. CASE blocks = << >>
  <2>1. Len(blocks) = 0
    BY <1>4
  <2>2. 1 \notin 1..k
    BY <1>3, <2>1
  <2>3. k = 0
    BY <2>2
  <2>4. QED
    BY <1>4, <2>3 DEF NextSurface
<1>5. CASE blocks # << >>
  <2>1. 1 \in 1..Len(blocks)
    BY <1>1, <1>5
  <2>2. PICK b : b = blocks[1].stop
    OBVIOUS
  <2>3. b \in 1..k
    BY <1>2, <1>3, <2>1, <2>2
  <2>4. b + 1 \notin 1..k
    <3>1. SUFFICES ASSUME b + 1 \in 1..k PROVE FALSE
      OBVIOUS
    <3>2. PICK i \in 1..Len(blocks) : b + 1 \in blocks[i].start..blocks[i].stop
      BY <1>3, <3>1
    <3>3. CASE i = 1
      BY <1>2, <2>1, <2>2, <3>2, <3>3
    <3>4. CASE i # 1
      <4>1. b + 1 < blocks[i].start
        BY <1>1, <2>1, <2>2, <3>2, <3>4
      <4>2. QED
        BY <1>2, <2>3, <3>2, <4>1
    <3>5. QED
      BY <3>3, <3>4
  <2>5. b = k
    BY <2>3, <2>4
  <2>6. QED
    BY <1>5, <2>2, <2>5 DEF NextSurface
<1>6. QED
  BY <1>4, <1>5

\* The next id of a surface is positive.
LEMMA SurfacePositive ==
    ASSUME NEW blocks, Ordered(blocks)
    PROVE  NextSurface(blocks) \in Nat /\ NextSurface(blocks) >= 1
<1>1. CASE blocks = << >>
  BY <1>1 DEF NextSurface
<1>2. CASE blocks # << >>
  <2>1. blocks \in Seq(IdRange)
    BY DEF Ordered
  <2>2. blocks[1] \in IdRange
    BY <1>2, <2>1
  <2>3. blocks[1].stop \in Nat
    BY <2>2, RangeType
  <2>4. NextSurface(blocks) = blocks[1].stop + 1
    BY <1>2 DEF NextSurface
  <2>5. QED
    BY <2>3, <2>4
<1>3. QED
  BY <1>1, <1>2

\* A call that may define objects begins.
LEMMA DefineKeeps ==
    ASSUME IInv, NEW type \in ObjectTypes, NEW m \in DOMAIN meshes, NEW c \in Classes,
           NEW ranges \in Seq(IdRange), Define(type, m, c, ranges),
           Fits(type, Class(m, c).superclass),
           type = "NODES" => Len(ranges) = 1,
           type = "SURFACE_CONNS" =>
               \E s \in 1..MaxId : /\ ranges = <<[start |-> s, stop |-> s]>>
                                   /\ s = NextSurface(Class(m, c).blocks)
    PROVE  IInv'
<1>1. FilesInv /\ MemoryInv /\ CallInv /\ MeshesLoaded
  BY DEF IInv, MemoryInv
<1>2. /\ proc = "open" /\ doing = "none" /\ doing' = "define" /\ added' = 0
      /\ UNCHANGED <<meshes, files, proc, at, stranded>>
  BY DEF Define, Idle
<1>3. PICK x : entry' = [type |-> type, mesh |-> m, name |-> c, superclass |-> "none",
                         ranges |-> ranges, data |-> x]
  BY DEF Define
<1>4. FilesInv'
  BY <1>1, <1>2, FilesSame
<1>5. KnownSame /\ \A k, d : Recorded(k, d)' = Recorded(k, d)
  BY <1>2, SameAt
<1>6. \A k, d : Pending(k, d)' = {} /\ Pending(k, d) = {}
  BY <1>2, NothingPending
<1>7. MemoryInv'
  BY <1>1, <1>2, <1>5, <1>6, MemorySame
<1>8. m \in MeshIds
  BY <1>1, FewMeshes
<1>9. SurfaceInv'
  <2>1. ASSUME type = "SURFACE_CONNS"
        PROVE  \E s \in 1..MaxId : /\ ranges = <<[start |-> s, stop |-> s]>>
                                   /\ s = NextSurface(Class(m, c).blocks)
                                   /\ s > 1 => s - 1 \in Recorded(m, c)
    <3>1. PICK s \in 1..MaxId : /\ ranges = <<[start |-> s, stop |-> s]>>
                                /\ s = NextSurface(Class(m, c).blocks)
      BY <2>1
    <3>2. Class(m, c).superclass = "surface"
      BY <2>1 DEF Fits
    <3>3. BlocksLoaded(m, c)
      BY <1>1 DEF MemoryInv
    <3>4. /\ Covered(Class(m, c).blocks) = Recorded(m, c) \cup stranded[m][c] \cup Pending(m, c)
          /\ stranded[m][c] = {} /\ Covered(Class(m, c).blocks) = 1..s - 1
      BY <3>1, <3>2, <3>3 DEF BlocksLoaded
    <3>5. Recorded(m, c) = 1..s - 1
      BY <1>6, <3>4
    <3>6. s > 1 => s - 1 \in Recorded(m, c)
      <4>1. s \in Int
        OBVIOUS
      <4>2. QED
        BY <3>5, <4>1
    <3>7. QED
      BY <3>1, <3>6
  <2>2. /\ entry'.type = type /\ entry'.mesh = m /\ entry'.name = c /\ entry'.ranges = ranges
    BY <1>3
  <2>3. NextSurface(Class(m, c).blocks)' = NextSurface(Class(m, c).blocks)
    BY <1>2 DEF NextSurface, Class
  <2>4. NextSurface(Class(entry.mesh, entry.name).blocks)' = NextSurface(Class(m, c).blocks)
    BY <1>2, <2>2 DEF NextSurface, Class
  <2>5. Recorded(entry.mesh, entry.name)' = Recorded(m, c)'
    BY <2>2 DEF Recorded, ObjectPlaces
  <2>6. QED
    BY <1>2, <1>5, <2>1, <2>2, <2>4, <2>5 DEF SurfaceInv
<1>10. EntryInv'
  <2>1. Len(ranges) \in Nat
    OBVIOUS
  <2>2. Class(entry.mesh, entry.name).superclass' = Class(m, c).superclass
    BY <1>2, <1>3 DEF Class
  <2>3. QED
    BY <1>2, <1>3, <1>9, <2>1, <2>2 DEF EntryInv
<1>11. DefineInv'
  <2>1. entry' \in EntryOf({entry'.data})
    BY <1>3, <1>8 DEF EntryOf, Types
  <2>2. entry' \in EntryOf({entry.data})'
    BY <2>1 DEF EntryOf, MeshIds
  <2>3. QED
    BY <1>2, <1>3, <2>2 DEF DefineInv
<1>12. CallInv'
  <2>1. at' \in Places' \/ at' = <<Len(files') + 1, 1>> \/ proc' # "loading"
    BY <1>2
  <2>2. QED
    BY <1>2, <1>10, <1>11 DEF CallInv
<1>13. QED
  BY <1>4, <1>7, <1>12 DEF IInv

\* The call's next block, its class, and what is there before it.
LEMMA NextBlock ==
    ASSUME IInv, doing # "none", added < Len(entry.ranges)
    PROVE  /\ Block \in IdRange
           /\ entry.mesh \in DOMAIN meshes /\ entry.name \in Classes
           /\ added \in Nat /\ added + 1 \in 1..Len(entry.ranges) /\ Len(entry.ranges) \in Nat
           /\ Class(entry.mesh, entry.name) \in ClassRecord
           /\ ClassLoaded(entry.mesh, entry.name) /\ BlocksLoaded(entry.mesh, entry.name)
           /\ Class(entry.mesh, entry.name).superclass # "none"
           /\ Pending(entry.mesh, entry.name) = UNION {Ids(entry.ranges[k]) : k \in 1..added}
           /\ entry.type = "SURFACE_CONNS" \/ Class(entry.mesh, entry.name).superclass = "surface"
              => /\ added = 0 /\ Block = [start |-> NextSurface(Class(entry.mesh, entry.name).blocks),
                                          stop |-> NextSurface(Class(entry.mesh, entry.name).blocks)]
                 /\ Len(entry.ranges) = 1 /\ entry.type = "SURFACE_CONNS"
                 /\ Class(entry.mesh, entry.name).superclass = "surface"
<1>1. /\ entry.mesh \in DOMAIN meshes /\ entry.name \in Classes
      /\ entry.ranges \in Seq(IdRange) /\ added \in 0..Len(entry.ranges)
      /\ Fits(entry.type, Class(entry.mesh, entry.name).superclass) /\ SurfaceInv
  BY DEF IInv, CallInv, EntryInv
<1>2. /\ Len(entry.ranges) \in Nat /\ added \in Nat /\ added + 1 \in 1..Len(entry.ranges)
      /\ Block \in IdRange
  BY <1>1 DEF Block
<1>3. Class(entry.mesh, entry.name) \in ClassRecord
  <2>1. meshes \in Seq(MeshRecord)
    BY DEF IInv, MemoryInv, MeshesLoaded, MeshRecord
  <2>2. meshes[entry.mesh] \in MeshRecord
    BY <1>1, <2>1
  <2>3. meshes[entry.mesh].table \in [Classes -> ClassRecord]
    BY <2>2 DEF MeshRecord
  <2>4. QED
    BY <1>1, <2>3 DEF Class
<1>4. ClassLoaded(entry.mesh, entry.name) /\ BlocksLoaded(entry.mesh, entry.name)
  BY <1>1 DEF IInv, MemoryInv
<1>5. Class(entry.mesh, entry.name).superclass # "none"
  BY <1>1 DEF Fits
<1>6. entry.type = "SURFACE_CONNS" <=> Class(entry.mesh, entry.name).superclass = "surface"
  BY <1>1 DEF Fits
<1>7. ASSUME entry.type = "SURFACE_CONNS"
      PROVE  /\ added = 0 /\ Block = [start |-> NextSurface(Class(entry.mesh, entry.name).blocks),
                                      stop |-> NextSurface(Class(entry.mesh, entry.name).blocks)]
             /\ Len(entry.ranges) = 1
  <2>1. PICK s \in 1..MaxId :
            /\ entry.ranges = <<[start |-> s, stop |-> s]>>
            /\ added = 0 => s = NextSurface(Class(entry.mesh, entry.name).blocks)
    BY <1>1, <1>7 DEF SurfaceInv
  <2>2. Len(entry.ranges) = 1
    BY <2>1
  <2>3. added = 0
    BY <1>2, <2>2
  <2>4. Block = [start |-> s, stop |-> s]
    BY <2>1, <2>3 DEF Block
  <2>5. QED
    BY <2>1, <2>2, <2>3, <2>4
<1>8. Pending(entry.mesh, entry.name) = UNION {Ids(entry.ranges[k]) : k \in 1..added}
  BY DEF Pending
<1>9. QED
  BY <1>1, <1>2, <1>3, <1>4, <1>5, <1>6, <1>7, <1>8

\* A block that is not refused is added.
LEMMA AddBlockKeeps ==
    ASSUME IInv, AddBlock
    PROVE  IInv'
<1>1. PICK m, c : m = entry.mesh /\ c = entry.name
  OBVIOUS
<1>2. PICK r : r = Block
  OBVIOUS
<1>3. /\ doing # "none" /\ added < Len(entry.ranges)
      /\ ~Refused(Class(m, c).blocks, r)
      /\ meshes' = [meshes EXCEPT ![m].table[c] = InsertRange(@, r)]
      /\ added' = added + 1
      /\ UNCHANGED <<files, proc, doing, entry, at, stranded>>
  BY <1>1, <1>2 DEF AddBlock
<1>4. FilesInv /\ MemoryInv /\ CallInv /\ MeshesLoaded /\ StrandedInv /\ meshes \in Seq(MeshRecord)
  BY DEF IInv, MemoryInv, MeshesLoaded, MeshRecord
<1>5. /\ r \in IdRange /\ m \in DOMAIN meshes /\ c \in Classes
      /\ added \in Nat /\ added + 1 \in 1..Len(entry.ranges) /\ Len(entry.ranges) \in Nat
      /\ Class(m, c) \in ClassRecord
      /\ ClassLoaded(m, c) /\ BlocksLoaded(m, c) /\ Class(m, c).superclass # "none"
      /\ Pending(m, c) = UNION {Ids(entry.ranges[k]) : k \in 1..added}
      /\ Class(m, c).superclass = "surface" =>
             r = [start |-> NextSurface(Class(m, c).blocks), stop |-> NextSurface(Class(m, c).blocks)]
      /\ entry.type = "SURFACE_CONNS" => added = 0
  BY <1>1, <1>2, <1>3, NextBlock
<1>6. PICK t, bl : t = Class(m, c) /\ bl = t.blocks
  OBVIOUS
<1>7. /\ Ordered(bl) /\ bl \in Seq(IdRange) /\ t.object_qty = Cardinality(Covered(bl))
      /\ Covered(bl) = Recorded(m, c) \cup stranded[m][c] \cup Pending(m, c)
      /\ t.superclass = "surface" => stranded[m][c] = {} /\ Covered(bl) = 1..NextSurface(bl) - 1
  BY <1>5, <1>6 DEF BlocksLoaded, Ordered
<1>8. PICK new : new = InsertBlock(bl, r)
  OBVIOUS
<1>9. /\ Ordered(new) /\ new \in Seq(IdRange) /\ Covered(new) = Covered(bl) \cup Ids(r)
      /\ Ids(r) \cap Covered(bl) = {}
  <2>1. ~Refused(bl, r)
    BY <1>3, <1>6
  <2>2. Ordered(new) /\ Covered(new) = Covered(bl) \cup Ids(r)
    BY <1>5, <1>7, <1>8, <2>1, Inserted
  <2>3. Ids(r) \cap Covered(bl) = {}
    BY <1>5, <1>7, <2>1, Refusal
  <2>4. QED
    BY <2>2, <2>3 DEF Ordered
<1>10. /\ r.start \in Nat /\ r.stop \in Nat /\ r.start <= r.stop
       /\ IsFiniteSet(Ids(r)) /\ Cardinality(Ids(r)) = r.stop - r.start + 1
  BY <1>5, RangeType
<1>11. PICK q : q = t.object_qty + (r.stop - r.start + 1)
  OBVIOUS
<1>12. q = Cardinality(Covered(new)) /\ q \in Nat
  <2>1. IsFiniteSet(Covered(bl))
    <3>1. Covered(bl) \subseteq 1..MaxId
      <4>1. \A i \in DOMAIN bl : Ids(bl[i]) \subseteq 1..MaxId
        BY <1>7, RangeType
      <4>2. QED
        BY <4>1 DEF Covered
    <3>2. IsFiniteSet(1..MaxId)
      BY MeshAssumption, FS_Interval
    <3>3. QED
      BY <3>1, <3>2, FS_Subset
  <2>2. PICK S, T : S = Covered(bl) /\ T = Ids(r)
    OBVIOUS
  <2>3. /\ IsFiniteSet(S) /\ IsFiniteSet(T) /\ S \cap T = {}
        /\ Cardinality(T) = r.stop - r.start + 1 /\ t.object_qty = Cardinality(S)
    BY <1>7, <1>9, <1>10, <2>1, <2>2
  <2>4. /\ Cardinality(S \cup T) = Cardinality(S) + Cardinality(T) - Cardinality(S \cap T)
        /\ Cardinality(S) \in Nat /\ Cardinality(S \cap T) = 0
    <3>1. Cardinality(S \cup T) = Cardinality(S) + Cardinality(T) - Cardinality(S \cap T)
      BY <2>3, FS_Union
    <3>2. Cardinality(S \cap T) = 0
      BY <2>3, FS_EmptySet
    <3>3. QED
      BY <2>3, <3>1, <3>2, FS_CardinalityType
  <2>5. Cardinality(S \cup T) = q /\ q \in Nat
    <3>1. PICK u, a, b : u = Cardinality(S \cup T) /\ a = Cardinality(S) /\ b = r.stop - r.start + 1
      OBVIOUS
    <3>2. u = a + b - 0 /\ q = a + b /\ a \in Nat /\ b \in Nat
      BY <1>10, <1>11, <2>3, <2>4, <3>1
    <3>3. QED
      BY <3>1, <3>2
  <2>6. QED
    BY <1>9, <2>2, <2>5
<1>13. PICK x : x = [superclass |-> t.superclass, blocks |-> new, object_qty |-> q]
  OBVIOUS
<1>14. x \in ClassRecord
  BY <1>5, <1>6, <1>9, <1>12, <1>13 DEF ClassRecord
<1>15. meshes' = [meshes EXCEPT ![m].table[c] = x]
  <2>1. InsertRange(t, r) = x
    <3>1. t = [superclass |-> t.superclass, blocks |-> t.blocks, object_qty |-> t.object_qty]
      BY <1>5, <1>6 DEF ClassRecord
    <3>2. InsertRange(t, r) = [t EXCEPT !.blocks = InsertBlock(t.blocks, r),
                                        !.object_qty = t.object_qty + (r.stop - r.start + 1)]
      BY DEF InsertRange
    <3>3. InsertRange(t, r) = [t EXCEPT !.blocks = new, !.object_qty = q]
      BY <1>6, <1>8, <1>11, <3>2
    <3>4. QED
      BY <1>13, <3>1, <3>3
  <2>2. meshes' = [meshes EXCEPT ![m].table[c] = InsertRange(t, r)]
    BY <1>3, <1>6 DEF Class
  <2>3. QED
    BY <2>1, <2>2
<1>16. /\ meshes' \in Seq(MeshRecord) /\ DOMAIN meshes' = DOMAIN meshes
       /\ \A k \in DOMAIN meshes : meshes'[k].name = meshes[k].name
       /\ Class(m, c)' = x
       /\ \A k \in DOMAIN meshes, d \in Classes : <<k, d>> # <<m, c>> => Class(k, d)' = Class(k, d)
  BY <1>4, <1>5, <1>14, <1>15, UpdateClass
<1>17. KnownSame /\ \A k, d : Recorded(k, d)' = Recorded(k, d)
  BY <1>3, SameAt
<1>18. /\ Pending(m, c)' = Pending(m, c) \cup Ids(r)
       /\ \A k, d : <<k, d>> # <<m, c>> => Pending(k, d)' = Pending(k, d)
  <2>1. \A k : Ids(entry.ranges[k])' = Ids(entry.ranges[k])
    BY <1>3 DEF Ids
  <2>2. Pending(m, c)' = UNION {Ids(entry.ranges[k]) : k \in 1..added + 1}
    BY <1>1, <1>3, <2>1 DEF Pending
  <2>3. 1..added + 1 = (1..added) \cup {added + 1}
    BY <1>5
  <2>4. r = entry.ranges[added + 1]
    BY <1>2 DEF Block
  <2>5. \A k, d : <<k, d>> # <<m, c>> => Pending(k, d)' = {} /\ Pending(k, d) = {}
    BY <1>1, <1>3 DEF Pending
  <2>6. QED
    BY <1>5, <2>2, <2>3, <2>4, <2>5, ZenonT(60)
<1>19. FilesInv' /\ Places' = Places
  BY <1>3, <1>4, FilesSame
<1>20. MeshesLoaded'
  BY <1>3, <1>4, <1>16, <1>17, MeshesKept
<1>21. StrandedInv'
  BY <1>3, <1>4, <1>16 DEF StrandedInv, MeshIds
<1>22. ClassLoaded(m, c)' /\ BlocksLoaded(m, c)'
  <2>1. /\ Class(m, c).superclass' = t.superclass /\ Class(m, c).blocks' = new
        /\ Class(m, c).object_qty' = q
    BY <1>13, <1>16
  <2>2. ClassLoaded(m, c)'
    <3>1. PICK p \in Known : FirstDef(p, m, c) /\ At(p).superclass = t.superclass
      BY <1>5, <1>6 DEF ClassLoaded
    <3>2. p \in Known' /\ FirstDef(p, m, c)' /\ At(p).superclass' = t.superclass
      BY <1>17, <3>1 DEF KnownSame
    <3>3. QED
      BY <1>5, <1>6, <2>1, <3>2 DEF ClassLoaded
  <2>3. Ordered(Class(m, c).blocks)'
    BY <1>9, <2>1 DEF Ordered
  <2>4. Covered(Class(m, c).blocks)' = Covered(new)
    BY <2>1 DEF Covered
  <2>5. Covered(new) = Recorded(m, c)' \cup stranded'[m][c] \cup Pending(m, c)'
    BY <1>3, <1>7, <1>9, <1>17, <1>18
  <2>6. ASSUME t.superclass = "surface" PROVE Covered(new) = 1..NextSurface(new) - 1
    <3>1. PICK s : s = NextSurface(bl)
      OBVIOUS
    <3>2. r = [start |-> s, stop |-> s] /\ Covered(bl) = 1..s - 1
      BY <1>5, <1>6, <1>7, <2>6, <3>1
    <3>3. s \in Nat /\ s >= 1 /\ Ids(r) = s..s
      BY <1>5, <3>2, RangeType DEF Ids
    <3>4. Covered(new) = 1..s
      BY <1>9, <3>2, <3>3
    <3>5. NextSurface(new) = s + 1
      BY <1>9, <3>3, <3>4, SurfaceNext
    <3>6. QED
      BY <3>3, <3>4, <3>5
  <2>7. NextSurface(Class(m, c).blocks)' = NextSurface(new)
    BY <2>1 DEF NextSurface
  <2>8. t.superclass = "surface" => stranded'[m][c] = {}
    BY <1>3, <1>7
  <2>9. BlocksLoaded(m, c)'
    BY <1>12, <2>1, <2>3, <2>4, <2>5, <2>6, <2>7, <2>8 DEF BlocksLoaded
  <2>10. QED
    BY <2>2, <2>9
<1>23. ASSUME NEW k \in DOMAIN meshes', NEW d \in Classes
       PROVE  ClassLoaded(k, d)' /\ BlocksLoaded(k, d)'
  <2>1. CASE <<k, d>> = <<m, c>>
    BY <1>22, <2>1
  <2>2. CASE <<k, d>> # <<m, c>>
    <3>1. Class(k, d)' = Class(k, d) /\ ClassLoaded(k, d) /\ BlocksLoaded(k, d)
      BY <1>4, <1>16, <1>23, <2>2 DEF MemoryInv
    <3>2. ClassLoaded(k, d)'
      BY <1>17, <3>1, ClassKept
    <3>3. Pending(k, d)' = Pending(k, d) /\ Recorded(k, d)' = Recorded(k, d)
      BY <1>17, <1>18, <2>2
    <3>4. Class(k, d).superclass = "surface" => stranded'[k][d] = {}
      BY <1>3, <3>1 DEF BlocksLoaded
    <3>5. BlocksLoaded(k, d)'
      BY <1>3, <3>1, <3>3, <3>4, BlocksKept
    <3>6. QED
      BY <3>2, <3>5
  <2>3. QED
    BY <2>1, <2>2
<1>24. EntryInv'
  <2>1. SurfaceInv'
    <3>1. /\ entry' = entry /\ added' # 0
          /\ Recorded(entry.mesh, entry.name)' = Recorded(entry.mesh, entry.name)
      <4>1. Recorded(entry.mesh, entry.name)' = Recorded(m, c)'
        BY <1>1, <1>3 DEF Recorded, ObjectPlaces
      <4>2. QED
        BY <1>1, <1>3, <1>5, <1>17, <4>1
    <3>2. QED
      BY <1>3, <1>4, <3>1 DEF CallInv, EntryInv, SurfaceInv
  <2>2. Class(entry.mesh, entry.name).superclass' = Class(entry.mesh, entry.name).superclass
    <3>1. Class(entry.mesh, entry.name)' = Class(m, c)'
      BY <1>1, <1>3 DEF Class
    <3>2. QED
      BY <1>1, <1>6, <1>13, <1>16, <3>1
  <2>3. added' \in 0..Len(entry'.ranges)
    BY <1>3, <1>5
  <2>4. QED
    BY <1>3, <1>4, <1>16, <2>1, <2>2, <2>3 DEF CallInv, EntryInv
<1>25. ASSUME doing = "define" PROVE DefineInv'
  <2>1. DefineInv
    BY <1>4, <1>25 DEF CallInv
  <2>2. entry' \in EntryOf({entry.data})'
    BY <1>3, <2>1 DEF DefineInv, EntryOf, MeshIds
  <2>3. Recorded(entry.mesh, entry.name)' = Recorded(m, c)
    <3>1. Recorded(entry.mesh, entry.name)' = Recorded(m, c)'
      BY <1>1, <1>3 DEF Recorded, ObjectPlaces
    <3>2. QED
      BY <1>17, <3>1
  <2>4. r = entry.ranges[added + 1]
    BY <1>2 DEF Block
  <2>5. \A k \in 1..added + 1 : k \in 1..added \/ k = added + 1
    BY <1>5
  <2>6. Ids(r) \cap Recorded(m, c) = {}
    BY <1>7, <1>9
  <2>7. \A k \in 1..added : Ids(r) \cap Ids(entry.ranges[k]) = {}
    BY <1>5, <1>7, <1>9
  <2>8. \A k \in 1..added + 1 : Ids(entry.ranges[k]) \cap Recorded(m, c) = {}
    BY <1>1, <2>1, <2>4, <2>5, <2>6 DEF DefineInv
  <2>9. \A k, l \in 1..added + 1 : k # l => Ids(entry.ranges[k]) \cap Ids(entry.ranges[l]) = {}
    <3>1. SUFFICES ASSUME NEW k \in 1..added + 1, NEW l \in 1..added + 1, k # l
                   PROVE  Ids(entry.ranges[k]) \cap Ids(entry.ranges[l]) = {}
      OBVIOUS
    <3>2. CASE k \in 1..added /\ l \in 1..added
      BY <2>1, <3>1, <3>2 DEF DefineInv
    <3>3. CASE k = added + 1 /\ l \in 1..added
      BY <2>4, <2>7, <3>3
    <3>4. CASE l = added + 1 /\ k \in 1..added
      BY <2>4, <2>7, <3>4
    <3>5. QED
      BY <2>5, <3>1, <3>2, <3>3, <3>4
  <2>10. \A k : Ids(entry.ranges[k])' = Ids(entry.ranges[k])
    BY <1>3 DEF Ids
  <2>11. QED
    BY <1>3, <2>1, <2>2, <2>3, <2>8, <2>9, <2>10 DEF DefineInv
<1>26. ASSUME doing = "load" PROVE LoadInv'
  BY <1>3, <1>4, <1>19, <1>26 DEF CallInv, LoadInv, At
<1>27. CallInv'
  <2>1. proc' # "closed"
    BY <1>3, <1>4 DEF CallInv
  <2>2. QED
    BY <1>3, <1>4, <1>19, <1>24, <1>25, <1>26, <2>1 DEF CallInv
<1>28. QED
  BY <1>19, <1>20, <1>21, <1>23, <1>27 DEF IInv, MemoryInv

\* A definition that is refused leaves what it has added; none is refused when
\* the family is opened.
LEMMA RefuseBlockKeeps ==
    ASSUME IInv, RefuseBlock
    PROVE  IInv'
<1>1. PICK m, c : m = entry.mesh /\ c = entry.name
  OBVIOUS
<1>2. PICK r : r = Block
  OBVIOUS
<1>3. PICK ids : ids = Covered(SubSeq(entry.ranges, 1, added))
  OBVIOUS
<1>4. /\ doing # "none" /\ added < Len(entry.ranges)
      /\ Refused(Class(m, c).blocks, r)
      /\ proc' = IF doing = "load" THEN "failed" ELSE proc
      /\ stranded' = [stranded EXCEPT ![m][c] = @ \cup ids]
      /\ doing' = "none"
      /\ UNCHANGED <<meshes, files, at>>
  BY <1>1, <1>2, <1>3 DEF RefuseBlock, Done
<1>5. FilesInv /\ MemoryInv /\ CallInv /\ MeshesLoaded /\ StrandedInv
  BY DEF IInv, MemoryInv
<1>6. /\ r \in IdRange /\ m \in DOMAIN meshes /\ c \in Classes
      /\ added \in Nat /\ added + 1 \in 1..Len(entry.ranges) /\ Len(entry.ranges) \in Nat
      /\ BlocksLoaded(m, c)
      /\ Pending(m, c) = UNION {Ids(entry.ranges[k]) : k \in 1..added}
      /\ Class(m, c).superclass = "surface" => added = 0
  BY <1>1, <1>2, <1>4, NextBlock
<1>7. r = entry.ranges[added + 1]
  BY <1>2 DEF Block
<1>8. /\ Ordered(Class(m, c).blocks)
      /\ Covered(Class(m, c).blocks) = Recorded(m, c) \cup stranded[m][c] \cup Pending(m, c)
  BY <1>6 DEF BlocksLoaded
<1>9. Ids(r) \cap Covered(Class(m, c).blocks) # {}
  BY <1>4, <1>6, <1>8, Refusal
<1>10. entry.ranges \in Seq(IdRange) /\ entry.type \in ObjectTypes
  BY <1>4, <1>5 DEF CallInv, EntryInv
<1>11. ASSUME doing = "load" PROVE FALSE
  <2>1. /\ proc = "loading" /\ at \in Places /\ entry.ranges = At(at).ranges
        /\ entry.type = At(at).type /\ m = At(at).mesh /\ c = At(at).name
    BY <1>1, <1>5, <1>11 DEF CallInv, LoadInv
  <2>2. stranded[m][c] = {}
    BY <1>5, <1>6, <2>1, FewMeshes DEF StrandedInv
  <2>3. PICK x \in Ids(r) : x \in Recorded(m, c) \/ x \in Pending(m, c)
    BY <1>8, <1>9, <2>2
  <2>4. added + 1 \in DOMAIN At(at).ranges /\ DOMAIN At(at).ranges = 1..Len(entry.ranges)
    BY <1>6, <1>10, <2>1
  <2>5. IsObject(at)
    BY <1>10, <2>1 DEF IsObject
  <2>6. CASE x \in Recorded(m, c)
    <3>1. PICK p \in Known : IsObject(p) /\ Of(p, m, c) /\ x \in Covered(At(p).ranges)
      BY <2>6, RecordedIs
    <3>2. p \in Places /\ Earlier(p, at)
      BY <2>1, <3>1 DEF Known, Seen
    <3>3. p # at
      <4>1. PICK D : files \in Seq(Seq(EntryOf(D)))
        BY <1>5 DEF FilesInv, FilesTyped
      <4>2. ~Earlier(at, at)
        BY <2>1, <4>1, PlacesOrdered
      <4>3. QED
        BY <3>2, <4>2
    <3>4. PICK k \in DOMAIN At(p).ranges : x \in Ids(At(p).ranges[k])
      BY <3>1 DEF Covered
    <3>5. At(p).mesh = At(at).mesh /\ At(p).name = At(at).name
      BY <2>1, <3>1 DEF Of
    <3>6. <<p, k>> # <<at, added + 1>>
      BY <3>3
    <3>7. Ids(At(p).ranges[k]) \cap Ids(At(at).ranges[added + 1]) = {}
      BY <1>5, <2>1, <2>4, <2>5, <3>1, <3>2, <3>4, <3>5, <3>6 DEF FilesInv, IdsOnce
    <3>8. QED
      BY <1>7, <2>1, <2>3, <3>4, <3>7
  <2>7. CASE x \in Pending(m, c)
    <3>1. PICK k \in 1..added : x \in Ids(entry.ranges[k])
      BY <1>6, <2>7
    <3>2. k \in DOMAIN At(at).ranges /\ k # added + 1
      BY <1>6, <2>4
    <3>3. Ids(At(at).ranges[k]) \cap Ids(At(at).ranges[added + 1]) = {}
      BY <1>5, <2>1, <2>4, <2>5, <3>2 DEF FilesInv, IdsOnce
    <3>4. QED
      BY <1>7, <2>1, <2>3, <3>1, <3>3
  <2>8. QED
    BY <2>3, <2>6, <2>7
<1>12. doing = "define" /\ proc' = proc /\ proc = "open"
  BY <1>4, <1>5, <1>11 DEF CallInv, DefineInv
<1>13. ids = Pending(m, c) /\ ids \subseteq 1..MaxId /\ (added = 0 => ids = {})
  <2>1. PICK s : s = SubSeq(entry.ranges, 1, added)
    OBVIOUS
  <2>2. DOMAIN s = 1..added /\ \A k \in 1..added : s[k] = entry.ranges[k]
    BY <1>6, <1>10, <2>1
  <2>3. ids = UNION {Ids(entry.ranges[k]) : k \in 1..added}
    BY <1>3, <2>1, <2>2 DEF Covered
  <2>4. \A k \in 1..added : Ids(entry.ranges[k]) \subseteq 1..MaxId
    <3>1. SUFFICES ASSUME NEW k \in 1..added PROVE Ids(entry.ranges[k]) \subseteq 1..MaxId
      OBVIOUS
    <3>2. entry.ranges[k] \in IdRange
      BY <1>6, <1>10
    <3>3. QED
      BY <3>2, RangeType
  <2>5. QED
    BY <1>6, <2>3, <2>4
<1>14. m \in MeshIds
  BY <1>5, <1>6, FewMeshes
<1>15. /\ stranded' \in [MeshIds -> [Classes -> SUBSET (1..MaxId)]]
       /\ stranded'[m][c] = stranded[m][c] \cup ids
       /\ \A k \in MeshIds, d \in Classes : <<k, d>> # <<m, c>> => stranded'[k][d] = stranded[k][d]
  BY <1>4, <1>5, <1>6, <1>13, <1>14 DEF StrandedInv
<1>16. KnownSame /\ \A k, d : Recorded(k, d)' = Recorded(k, d)
  BY <1>4, <1>12, SameAt
<1>17. \A k, d : Pending(k, d)' = {}
  BY <1>4, NothingPending
<1>18. FilesInv'
  BY <1>4, <1>5, FilesSame
<1>19. MeshesLoaded'
  BY <1>4, <1>5, <1>12, <1>16, MeshesKept DEF MeshesLoaded, MeshRecord
<1>20. StrandedInv'
  <2>1. MeshIds' = MeshIds
    BY DEF MeshIds
  <2>2. ASSUME NEW k \in MeshIds, NEW d \in Classes, k \notin DOMAIN meshes
        PROVE  stranded'[k][d] = {}
    BY <1>5, <1>6, <1>12, <1>15, <2>2 DEF StrandedInv
  <2>3. QED
    BY <1>4, <1>12, <1>15, <2>1, <2>2 DEF StrandedInv
<1>21. ASSUME NEW k \in DOMAIN meshes', NEW d \in Classes
       PROVE  ClassLoaded(k, d)' /\ BlocksLoaded(k, d)'
  <2>1. /\ k \in DOMAIN meshes /\ k \in MeshIds /\ Class(k, d)' = Class(k, d)
        /\ ClassLoaded(k, d) /\ BlocksLoaded(k, d)
    BY <1>4, <1>5, <1>21, FewMeshes DEF Class, MemoryInv
  <2>2. ClassLoaded(k, d)'
    BY <1>16, <2>1, ClassKept
  <2>3. /\ stranded'[k][d] = stranded[k][d] \cup Pending(k, d)
        /\ Class(k, d).superclass = "surface" => stranded'[k][d] = {}
    <3>1. CASE <<k, d>> = <<m, c>>
      <4>1. Class(m, c).superclass = "surface" => stranded[m][c] = {} /\ ids = {}
        BY <1>6, <1>13 DEF BlocksLoaded
      <4>2. QED
        BY <1>13, <1>15, <3>1, <4>1
    <3>2. CASE <<k, d>> # <<m, c>>
      <4>1. Pending(k, d) = {}
        BY <1>1, <3>2 DEF Pending
      <4>2. QED
        BY <1>15, <2>1, <3>2, <4>1 DEF BlocksLoaded
    <3>3. QED
      BY <3>1, <3>2
  <2>4. BlocksLoaded(k, d)'
    BY <1>16, <1>17, <2>1, <2>3, BlocksKept
  <2>5. QED
    BY <2>2, <2>4
<1>22. CallInv'
  BY <1>4, <1>12 DEF CallInv
<1>23. QED
  BY <1>18, <1>19, <1>20, <1>21, <1>22 DEF IInv, MemoryInv

\* Giving coordinates again changes data only.
LEMMA UpdateNodesKeeps ==
    ASSUME IInv, UpdateNodes
    PROVE  IInv'
<1>1. FilesInv /\ MemoryInv /\ CallInv
  BY DEF IInv
<1>2. /\ doing = "define" /\ added < Len(entry.ranges) /\ entry.type = "NODES"
      /\ doing' = "none" /\ UNCHANGED <<meshes, proc, at, stranded>>
      /\ files' = files \/ \E i, j, x : files' = [files EXCEPT ![i][j].data = x]
  <2>1. PICK hits : hits = Containing(entry.mesh, entry.name, Block)
    OBVIOUS
  <2>2. PICK hit : hit = FirstOf(hits)
    OBVIOUS
  <2>3. /\ doing = "define" /\ added < Len(entry.ranges) /\ entry.type = "NODES"
        /\ doing' = "none" /\ UNCHANGED <<meshes, proc, at, stranded>>
        /\ files' = IF hits = {} THEN files
                    ELSE [files EXCEPT ![hit[1]][hit[2]].data =
                              Overwrite(@, At(hit).ranges[1], entry)]
    BY <2>1, <2>2 DEF UpdateNodes, Done
  <2>4. PICK i, j, x : /\ i = hit[1] /\ j = hit[2]
                       /\ x = Overwrite(files[i][j].data, At(hit).ranges[1], entry)
    OBVIOUS
  <2>5. files' = files \/ files' = [files EXCEPT ![i][j].data = x]
    BY <2>3, <2>4
  <2>6. QED
    BY <2>3, <2>5
<1>3. added = 0
  <2>1. added \in 0..Len(entry.ranges) /\ Len(entry.ranges) = 1
    BY <1>1, <1>2 DEF CallInv, EntryInv, DefineInv
  <2>2. QED
    BY <1>2, <2>1
<1>4. \A m, c : Pending(m, c) = {} /\ Pending(m, c)' = {}
  BY <1>2, <1>3, NothingPending
<1>5. proc = "open"
  BY <1>1, <1>2 DEF CallInv, DefineInv
<1>6. FilesInv' /\ KnownSame /\ \A m, c : Recorded(m, c)' = Recorded(m, c)
  <2>1. CASE files' = files
    BY <1>1, <1>2, <2>1, FilesSame, SameAt
  <2>2. CASE files' # files
    <3>1. PICK i, j, x : files' = [files EXCEPT ![i][j].data = x]
      BY <1>2, <2>2
    <3>2. /\ FilesInv' /\ Places' = Places
          /\ \A m, c : \A q \in Places : FirstDef(q, m, c)' <=> FirstDef(q, m, c)
          /\ \A m, c : \A q \in Places : (IsObject(q) /\ Of(q, m, c))' <=> (IsObject(q) /\ Of(q, m, c))
          /\ \A p \in Places : /\ At(p).type' = At(p).type /\ At(p).mesh' = At(p).mesh
                               /\ At(p).name' = At(p).name /\ At(p).ranges' = At(p).ranges
                               /\ At(p).superclass' = At(p).superclass
      BY <1>1, <3>1, FilesRewritten
    <3>3. Known = Places /\ Known' = Places
      BY <1>2, <1>5, <3>2 DEF Known, Seen
    <3>4. KnownSame
      BY <3>2, <3>3 DEF KnownSame
    <3>5. ASSUME NEW m, NEW c PROVE Recorded(m, c)' = Recorded(m, c)
      <4>1. \A p \in Places : Covered(At(p).ranges)' = Covered(At(p).ranges)
        BY <3>2 DEF Covered
      <4>2. \A x0 : x0 \in Recorded(m, c)' <=> x0 \in Recorded(m, c)
        BY <3>2, <3>3, <4>1, RecordedIs
      <4>3. QED
        BY <4>2
    <3>6. QED
      BY <3>2, <3>4, <3>5
  <2>3. QED
    BY <2>1, <2>2
<1>7. MemoryInv'
  BY <1>1, <1>2, <1>4, <1>6, MemorySame
<1>8. CallInv'
  BY <1>2, <1>5 DEF CallInv
<1>9. QED
  BY <1>6, <1>7, <1>8 DEF IInv

\* An entry with all its blocks added becomes known: its ids are recorded.
LEMMA ObjectsAdded ==
    ASSUME FilesInv, CallInv, MemoryInv, NEW n, NEW e, Grows(n, e), e.type \in ObjectTypes,
           e.mesh = entry.mesh, e.name = entry.name, e.ranges = entry.ranges,
           doing # "none", added = Len(entry.ranges), doing' = "none",
           meshes' = meshes, stranded' = stranded, proc' = proc, proc \in {"open", "loading"}
    PROVE  MemoryInv'
<1>1. MeshesLoaded /\ StrandedInv /\ entry.ranges \in Seq(IdRange)
  BY DEF MemoryInv, CallInv, EntryInv
<1>2. e.type # "MESH_NAME" /\ e.type # "CLASS_DEF"
  BY DEF ObjectTypes
<1>3. MeshesLoaded'
  BY <1>1, <1>2, MeshesKept DEF MeshesLoaded, MeshRecord
<1>4. StrandedInv'
  BY <1>1 DEF StrandedInv, MeshIds
<1>5. ASSUME NEW m \in DOMAIN meshes', NEW c \in Classes
      PROVE  ClassLoaded(m, c)' /\ BlocksLoaded(m, c)'
  <2>1. m \in DOMAIN meshes /\ Class(m, c)' = Class(m, c) /\ ClassLoaded(m, c) /\ BlocksLoaded(m, c)
    BY DEF Class, MemoryInv
  <2>2. ClassLoaded(m, c)'
    BY <1>2, <2>1, ClassKept
  <2>3. Recorded(m, c)' = Recorded(m, c) \cup Pending(m, c)
    <3>1. Recorded(m, c)' = Recorded(m, c) \cup
              (IF e.type \in ObjectTypes /\ e.mesh = m /\ e.name = c THEN Covered(e.ranges) ELSE {})
      BY RecordedGrows
    <3>2. DOMAIN entry.ranges = 1..added
      BY <1>1
    <3>3. Covered(entry.ranges) = UNION {Ids(entry.ranges[k]) : k \in 1..added}
      BY <3>2 DEF Covered
    <3>4. Pending(m, c) = IF e.mesh = m /\ e.name = c THEN Covered(e.ranges) ELSE {}
      BY <3>3 DEF Pending
    <3>5. QED
      BY <3>1, <3>4
  <2>4. Pending(m, c)' = {}
    BY NothingPending
  <2>5. Class(m, c).superclass = "surface" => stranded'[m][c] = {}
    BY <2>1 DEF BlocksLoaded
  <2>6. Recorded(m, c)' \cup stranded'[m][c] \cup Pending(m, c)'
            = Recorded(m, c) \cup stranded[m][c] \cup Pending(m, c)
    BY <2>3, <2>4
  <2>7. BlocksLoaded(m, c)'
    BY <2>1, <2>5, <2>6, BlocksKept
  <2>8. QED
    BY <2>2, <2>7
<1>6. QED
  BY <1>3, <1>4, <1>5 DEF MemoryInv

\* The superclass of a class is that of its first definition.
LEMMA SuperclassIs ==
    ASSUME FilesInv, NEW m, NEW c, ClassLoaded(m, c), NEW q \in Known, FirstDef(q, m, c)
    PROVE  Class(m, c).superclass = At(q).superclass /\ Class(m, c).superclass # "none"
<1>1. Class(m, c).superclass # "none"
  BY DEF ClassLoaded, FirstDef
<1>2. PICK p \in Known : FirstDef(p, m, c) /\ At(p).superclass = Class(m, c).superclass
  BY <1>1 DEF ClassLoaded
<1>3. PICK D : files \in Seq(Seq(EntryOf(D)))
  BY DEF FilesInv, FilesTyped
<1>4. p = q
  <2>1. p \in Places /\ q \in Places
    BY DEF Known
  <2>2. (p = q \/ Earlier(p, q)) /\ (p = q \/ Earlier(q, p))
    BY <1>2, <2>1 DEF FirstDef
  <2>3. ~(Earlier(p, q) /\ Earlier(q, p))
    BY <1>3, <2>1, PlacesOrdered
  <2>4. QED
    BY <2>2, <2>3
<1>5. QED
  BY <1>1, <1>2, <1>4

\* A call that ends writes its entry behind the others.
LEMMA DefinesKeeps ==
    ASSUME IInv, Defines
    PROVE  IInv'
<1>1. PICK e : e = entry
  OBVIOUS
<1>2. /\ doing = "define" /\ added = Len(e.ranges) /\ Enter(e)
      /\ doing' = "none" /\ UNCHANGED <<meshes, proc, at, stranded>>
  BY <1>1 DEF Defines, Done
<1>3. FilesInv /\ MemoryInv /\ CallInv /\ MeshesLoaded /\ EntryInv /\ DefineInv
  BY <1>2 DEF IInv, MemoryInv, CallInv
<1>4. PICK m, c : m = e.mesh /\ c = e.name
  OBVIOUS
<1>5. /\ proc = "open" /\ e \in EntryOf({e.data}) /\ e.type \in ObjectTypes
      /\ m \in DOMAIN meshes /\ c \in Classes /\ e.ranges \in Seq(IdRange)
      /\ Fits(e.type, Class(m, c).superclass) /\ SurfaceInv
      /\ \A k \in 1..added : Ids(e.ranges[k]) \cap Recorded(m, c) = {}
      /\ \A k, l \in 1..added : k # l => Ids(e.ranges[k]) \cap Ids(e.ranges[l]) = {}
  BY <1>1, <1>3, <1>4 DEF EntryInv, DefineInv
<1>6. Known = Places
  BY <1>5 DEF Known, Seen
<1>7. m \in MeshIds
  BY <1>3, <1>5, FewMeshes
<1>8. EntryFits(e)
  <2>1. \E q \in Places : IsMesh(q) /\ At(q).mesh = m
    BY <1>3, <1>5, <1>6, <1>7 DEF MeshesLoaded
  <2>2. \E q \in Places : FirstDef(q, m, c) /\ Fits(e.type, At(q).superclass)
    <3>1. ClassLoaded(m, c)
      BY <1>3, <1>5 DEF MemoryInv
    <3>2. Class(m, c).superclass # "none"
      BY <1>5 DEF Fits
    <3>3. PICK q \in Known : FirstDef(q, m, c) /\ At(q).superclass = Class(m, c).superclass
      BY <3>1, <3>2 DEF ClassLoaded
    <3>4. QED
      BY <1>5, <1>6, <3>3
  <2>3. DOMAIN e.ranges = 1..added
    BY <1>2, <1>5
  <2>4. ASSUME NEW p \in Places, IsObject(p), Of(p, m, c),
               NEW k \in DOMAIN At(p).ranges, NEW l \in DOMAIN e.ranges
        PROVE  Ids(At(p).ranges[k]) \cap Ids(e.ranges[l]) = {}
    <3>1. \A x : x \in Ids(At(p).ranges[k]) => x \in Covered(At(p).ranges)
      BY <2>4 DEF Covered
    <3>2. \A x : x \in Ids(At(p).ranges[k]) => x \in Recorded(m, c)
      BY <1>6, <2>4, <3>1, RecordedIs
    <3>3. Ids(e.ranges[l]) \cap Recorded(m, c) = {}
      BY <1>5, <2>3, <2>4
    <3>4. QED
      BY <3>2, <3>3
  <2>5. ASSUME e.type = "SURFACE_CONNS"
        PROVE  \E s \in 1..MaxId :
                   /\ e.ranges = <<[start |-> s, stop |-> s]>>
                   /\ s > 1 => \E q \in Places : /\ IsObject(q) /\ Of(q, m, c)
                                                 /\ s - 1 \in Covered(At(q).ranges)
    <3>1. PICK s \in 1..MaxId : /\ e.ranges = <<[start |-> s, stop |-> s]>>
                                /\ s > 1 => s - 1 \in Recorded(m, c)
      BY <1>1, <1>4, <1>5, <2>5 DEF SurfaceInv
    <3>2. s > 1 => \E q \in Places : /\ IsObject(q) /\ Of(q, m, c)
                                     /\ s - 1 \in Covered(At(q).ranges)
      BY <1>6, <3>1, RecordedIs
    <3>3. QED
      BY <3>1, <3>2
  <2>6. e.type # "MESH_NAME" /\ e.type # "CLASS_DEF"
    BY <1>5 DEF ObjectTypes
  <2>7. \A k, l \in DOMAIN e.ranges : k # l => Ids(e.ranges[k]) \cap Ids(e.ranges[l]) = {}
    BY <1>5, <2>3
  <2>8. \A p \in Places : IsObject(p) /\ Of(p, m, c) =>
            \A k \in DOMAIN At(p).ranges, l \in DOMAIN e.ranges :
                Ids(At(p).ranges[k]) \cap Ids(e.ranges[l]) = {}
    BY <2>4
  <2>9. QED
    BY <1>4, <1>5, <2>1, <2>2, <2>5, <2>6, <2>7, <2>8 DEF EntryFits
<1>9. PICK n : FilesInv' /\ Appended(n, e)
  BY <1>2, <1>3, <1>8, FilesAppended
<1>10. Grows(n, e)
  BY <1>2, <1>5, <1>9, AppendGrows
<1>11. MemoryInv'
  BY <1>1, <1>2, <1>3, <1>5, <1>10, ObjectsAdded
<1>12. CallInv'
  BY <1>2, <1>5 DEF CallInv
<1>13. QED
  BY <1>9, <1>11, <1>12 DEF IInv

\* Closing the family keeps it.
LEMMA CloseKeeps ==
    ASSUME IInv, Close
    PROVE  IInv'
<1>1. /\ proc' = "closed" /\ meshes' = << >> /\ doing = "none" /\ doing' = "none"
      /\ UNCHANGED <<files, stranded>>
  BY DEF Close, Idle
<1>2. FilesInv'
  BY <1>1, FilesSame DEF IInv
<1>3. << >> \in Seq([name : Names, table : [Classes -> ClassRecord]]) /\ DOMAIN << >> = {}
  OBVIOUS
<1>4. MeshesLoaded'
  BY <1>1, <1>3 DEF MeshesLoaded
<1>5. StrandedInv'
  BY <1>1 DEF IInv, MemoryInv, StrandedInv, MeshIds
<1>6. \A m \in DOMAIN meshes' : FALSE
  BY <1>1, <1>3
<1>7. MemoryInv'
  BY <1>4, <1>5, <1>6 DEF MemoryInv
<1>8. CallInv'
  BY <1>1 DEF CallInv
<1>9. QED
  BY <1>2, <1>7, <1>8 DEF IInv

\* When a family is opened nothing is known, and nothing is in memory.
LEMMA ReopenKeeps ==
    ASSUME IInv, Reopen
    PROVE  IInv'
<1>1. PICK first : first = IF files[1] = << >> THEN <<2, 1>> ELSE <<1, 1>>
  OBVIOUS
<1>2. /\ proc = "closed" /\ proc' = "loading" /\ at' = first
      /\ stranded' = [m \in DOMAIN stranded |-> [c \in Classes |-> {}]]
      /\ UNCHANGED <<meshes, files, doing, entry, added>>
  BY <1>1 DEF Reopen
<1>3. meshes = << >> /\ doing = "none" /\ FilesInv
  BY <1>2 DEF IInv, CallInv
<1>4. FilesInv' /\ Places' = Places
  BY <1>2, <1>3, FilesSame
<1>5. PICK D : files \in Seq(Seq(EntryOf(D)))
  BY <1>3 DEF FilesInv, FilesTyped
<1>6. /\ first \in Places \/ first = <<Len(files) + 1, 1>>
      /\ \A p \in Places : ~Earlier(p, first)
  <2>1. files # << >> /\ \A i \in 2..Len(files) : files[i] # << >>
    BY <1>3 DEF FilesInv, FilesTyped
  <2>2. QED
    BY <1>1, <1>5, <2>1, Bounds
<1>7. \A p \in Known' : FALSE
  BY <1>2, <1>4, <1>6 DEF Known, Seen, Earlier
<1>8. << >> \in Seq([name : Names, table : [Classes -> ClassRecord]]) /\ DOMAIN << >> = {}
  OBVIOUS
<1>9. MeshesLoaded'
  BY <1>2, <1>3, <1>7, <1>8 DEF MeshesLoaded
<1>10. StrandedInv'
  <2>1. DOMAIN stranded = MeshIds /\ MeshIds' = MeshIds
    BY DEF IInv, MemoryInv, StrandedInv, MeshIds
  <2>2. QED
    BY <1>2, <2>1 DEF StrandedInv
<1>11. \A m \in DOMAIN meshes' : FALSE
  BY <1>2, <1>3, <1>8
<1>12. MemoryInv'
  BY <1>9, <1>10, <1>11 DEF MemoryInv
<1>13. CallInv'
  <2>1. at' \in Places' \/ at' = <<Len(files') + 1, 1>>
    BY <1>2, <1>4, <1>6
  <2>2. QED
    BY <1>2, <1>3, <2>1 DEF CallInv
<1>14. QED
  BY <1>4, <1>12, <1>13 DEF IInv

\* The entry init_meshes comes to.
LEMMA LoadStep ==
    ASSUME IInv, proc = "loading", doing = "none", ~AtEnd
    PROVE  /\ at \in Places /\ at \notin Known
           /\ \A q \in Places : q \in Known <=> Earlier(q, at)
           /\ At(at).mesh \in MeshIds
           /\ at' = NextPlace /\ files' = files /\ proc' = proc =>
                  /\ \E n : n = at /\ Grows(n, At(at))
                  /\ at' \in Places' \/ at' = <<Len(files') + 1, 1>>
<1>1. PICK D : files \in Seq(Seq(EntryOf(D)))
  BY DEF IInv, FilesInv, FilesTyped
<1>2. files # << >> /\ \A i \in 2..Len(files) : files[i] # << >>
  BY DEF IInv, FilesInv, FilesTyped
<1>3. at \in Places
  <2>1. at \in Places \/ at = <<Len(files) + 1, 1>>
    BY DEF IInv, CallInv
  <2>2. QED
    BY <1>1, <1>2, <2>1, Bounds
<1>4. \A q \in Places : q \in Known <=> Earlier(q, at)
  BY DEF Known, Seen
<1>5. at \notin Known
  BY <1>1, <1>3, <1>4, PlacesOrdered
<1>6. At(at).mesh \in MeshIds
  BY <1>3, KnownTyped DEF IInv
<1>7. ASSUME at' = NextPlace, files' = files, proc' = proc
      PROVE  /\ \E n : n = at /\ Grows(n, At(at))
             /\ at' \in Places' \/ at' = <<Len(files') + 1, 1>>
  BY <1>1, <1>2, <1>3, <1>7, LoadGrows
<1>8. QED
  BY <1>3, <1>4, <1>5, <1>6, <1>7

\* init_meshes reads the name of a mesh.
LEMMA LoadMeshKeeps ==
    ASSUME IInv, LoadMesh
    PROVE  IInv'
<1>1. PICK e : e = At(at)
  OBVIOUS
<1>2. /\ proc = "loading" /\ doing = "none" /\ ~AtEnd /\ e.type = "MESH_NAME"
      /\ meshes' = Append(meshes, [name |-> e.name, table |-> NoClasses])
      /\ at' = NextPlace
      /\ UNCHANGED <<files, proc, doing, entry, added, stranded>>
  BY <1>1 DEF LoadMesh, AddMesh
<1>3. FilesInv /\ MemoryInv /\ CallInv /\ MeshesLoaded
  BY DEF IInv, MemoryInv
<1>4. /\ at \in Places /\ at \notin Known /\ e.mesh \in MeshIds
      /\ \A q \in Places : q \in Known <=> Earlier(q, at)
      /\ at' \in Places' \/ at' = <<Len(files') + 1, 1>>
  BY <1>1, <1>2, LoadStep
<1>5. PICK n : n = at /\ Grows(n, e)
  BY <1>1, <1>2, LoadStep
<1>6. /\ e.name \in Names
      /\ \A q \in Places \ {at} : IsMesh(q) => At(q).mesh # e.mesh /\ At(q).name # e.name
      /\ \A k \in 1..e.mesh - 1 : \E q \in Places : IsMesh(q) /\ Earlier(q, at) /\ At(q).mesh = k
  <2>1. IsMesh(at)
    BY <1>1, <1>2 DEF IsMesh
  <2>2. QED
    BY <1>1, <1>3, <1>4, <2>1 DEF FilesInv, MeshesInOrder
<1>7. \A k \in DOMAIN meshes :
          k # e.mesh /\ meshes[k].name # e.name
  <2>1. SUFFICES ASSUME NEW k \in DOMAIN meshes PROVE k # e.mesh /\ meshes[k].name # e.name
    OBVIOUS
  <2>2. k \in MeshIds
    BY <1>3, <2>1, FewMeshes
  <2>3. PICK q \in Known : IsMesh(q) /\ At(q).mesh = k
    BY <1>2, <1>3, <2>1, <2>2 DEF MeshesLoaded
  <2>4. meshes[k].name = At(q).name
    BY <1>2, <1>3, <2>3 DEF MeshesLoaded
  <2>5. q \in Places \ {at}
    BY <1>4, <2>3 DEF Known
  <2>6. QED
    BY <1>6, <2>3, <2>4, <2>5
<1>8. e.mesh = Len(meshes) + 1
  <2>1. PICK k, l : k = e.mesh /\ l = Len(meshes)
    OBVIOUS
  <2>2. /\ l \in Nat /\ DOMAIN meshes = 1..l /\ Cardinality(Names) \in Nat
        /\ k \in 1..Cardinality(Names)
    BY <1>3, <1>4, <2>1, FewMeshes DEF MeshIds
  <2>3. k \notin 1..l
    BY <1>7, <2>1, <2>2
  <2>4. \A j \in 1..k - 1 : j \in 1..l
    <3>1. SUFFICES ASSUME NEW j \in 1..k - 1 PROVE j \in DOMAIN meshes
      BY <2>2
    <3>2. j \in MeshIds
      BY <2>2 DEF MeshIds
    <3>3. PICK q \in Places : IsMesh(q) /\ Earlier(q, at) /\ At(q).mesh = j
      BY <1>6, <2>1
    <3>4. q \in Known
      BY <1>4, <3>3
    <3>5. QED
      BY <1>2, <1>3, <3>2, <3>3, <3>4 DEF MeshesLoaded
  <2>5. k = 1 \/ k - 1 \in 1..k - 1
    BY <2>2
  <2>6. k = l + 1
    BY <2>2, <2>3, <2>4, <2>5
  <2>7. QED
    BY <2>1, <2>6
<1>9. FilesInv'
  BY <1>2, <1>3, FilesSame
<1>10. MemoryInv'
  <2>1. \A k \in DOMAIN meshes : meshes[k].name # e.name
    BY <1>7
  <2>2. proc \in {"open", "loading"} /\ doing' = "none"
    BY <1>2
  <2>3. QED
    BY <1>2, <1>3, <1>5, <1>6, <1>8, <2>1, <2>2, MeshAdded
<1>11. CallInv'
  BY <1>2, <1>4 DEF CallInv
<1>12. QED
  BY <1>9, <1>10, <1>11 DEF IInv

\* init_meshes reads the definition of a class.
LEMMA LoadClassKeeps ==
    ASSUME IInv, LoadClass
    PROVE  IInv'
<1>1. PICK e : e = At(at)
  OBVIOUS
<1>2. /\ proc = "loading" /\ doing = "none" /\ ~AtEnd /\ e.type = "CLASS_DEF"
      /\ meshes' = AddClass(e.mesh, e.name, e.superclass)
      /\ at' = NextPlace
      /\ UNCHANGED <<files, proc, doing, entry, added, stranded>>
  BY <1>1 DEF LoadClass
<1>3. FilesInv /\ MemoryInv /\ CallInv /\ MeshesLoaded
  BY DEF IInv, MemoryInv
<1>4. /\ at \in Places /\ e.mesh \in MeshIds
      /\ \A q \in Places : q \in Known <=> Earlier(q, at)
      /\ at' \in Places' \/ at' = <<Len(files') + 1, 1>>
  BY <1>1, <1>2, LoadStep
<1>5. PICK n : n = at /\ Grows(n, e)
  BY <1>1, <1>2, LoadStep
<1>6. e.mesh \in DOMAIN meshes
  <2>1. ~IsMesh(at)
    BY <1>1, <1>2 DEF IsMesh
  <2>2. PICK q \in Places : IsMesh(q) /\ Earlier(q, at) /\ At(q).mesh = e.mesh
    BY <1>1, <1>3, <1>4, <2>1 DEF FilesInv, MeshesNamed
  <2>3. q \in Known
    BY <1>4, <2>2
  <2>4. QED
    BY <1>2, <1>3, <1>4, <2>2, <2>3 DEF MeshesLoaded
<1>7. e.name \in Classes /\ e.superclass \in Superclasses
  <2>1. ~IsMesh(at) /\ IsClass(at)
    BY <1>1, <1>2 DEF IsMesh, IsClass
  <2>2. QED
    BY <1>1, <1>3, <1>4, <2>1 DEF FilesInv, FilesTyped, ClassesNamed
<1>8. FilesInv'
  BY <1>2, <1>3, FilesSame
<1>9. MemoryInv'
  <2>1. PICK m, c : m = e.mesh /\ c = e.name
    OBVIOUS
  <2>2. /\ m \in DOMAIN meshes /\ c \in Classes /\ meshes' = AddClass(m, c, e.superclass)
        /\ proc \in {"open", "loading"} /\ doing' = "none"
    BY <1>2, <1>6, <1>7, <2>1
  <2>3. QED
    BY <1>2, <1>3, <1>5, <1>7, <2>1, <2>2, ClassAdded
<1>10. CallInv'
  BY <1>2, <1>4 DEF CallInv
<1>11. QED
  BY <1>8, <1>9, <1>10 DEF IInv

\* The id that is made again for a surface is the one it had.
LEMMA LoadObjectsKeeps ==
    ASSUME IInv, LoadObjects
    PROVE  IInv'
<1>1. PICK e : e = At(at)
  OBVIOUS
<1>2. PICK m, c : m = e.mesh /\ c = e.name
  OBVIOUS
<1>3. PICK s : s = NextSurface(Class(m, c).blocks)
  OBVIOUS
<1>4. /\ proc = "loading" /\ doing = "none" /\ ~AtEnd /\ e.type \in ObjectTypes
      /\ doing' = "load" /\ added' = 0
      /\ entry' = IF e.type = "SURFACE_CONNS"
                  THEN [e EXCEPT !.ranges = <<[start |-> s, stop |-> s]>>] ELSE e
      /\ UNCHANGED <<meshes, files, proc, at, stranded>>
  BY <1>1, <1>2, <1>3 DEF LoadObjects
<1>5. FilesInv /\ MemoryInv /\ CallInv /\ MeshesLoaded
  BY DEF IInv, MemoryInv
<1>6. /\ at \in Places /\ at \notin Known
      /\ \A q \in Places : q \in Known <=> Earlier(q, at)
  BY <1>4, LoadStep
<1>7. IsObject(at) /\ ~IsMesh(at)
  BY <1>1, <1>4 DEF IsObject, IsMesh, ObjectTypes
<1>8. PICK D : files \in Seq(Seq(EntryOf(D)))
  BY <1>5 DEF FilesInv, FilesTyped
<1>9. e \in EntryOf(D) /\ c \in Classes
  BY <1>1, <1>2, <1>5, <1>6, <1>7, <1>8, PlaceIs DEF FilesInv, FilesTyped
<1>10. PICK q \in Known : FirstDef(q, m, c) /\ Fits(e.type, At(q).superclass)
  <2>1. PICK q \in Places : FirstDef(q, m, c) /\ Earlier(q, at) /\ Fits(e.type, At(q).superclass)
    BY <1>1, <1>2, <1>5, <1>6, <1>7 DEF FilesInv, ClassesNamed
  <2>2. QED
    BY <1>6, <2>1
<1>11. m \in DOMAIN meshes
  <2>1. At(q).mesh = m
    BY <1>10 DEF FirstDef, Of
  <2>2. QED
    BY <1>4, <1>5, <2>1, KnownMeshes
<1>12. ClassLoaded(m, c) /\ BlocksLoaded(m, c)
  BY <1>5, <1>9, <1>11 DEF MemoryInv
<1>13. Fits(e.type, Class(m, c).superclass)
  BY <1>5, <1>10, <1>12, SuperclassIs
<1>14. \A k, d : Pending(k, d) = {} /\ Pending(k, d)' = {}
  BY <1>4, NothingPending
<1>15. ASSUME e.type = "SURFACE_CONNS"
       PROVE  /\ s \in 1..MaxId /\ e.ranges = <<[start |-> s, stop |-> s]>>
              /\ s > 1 => s - 1 \in Recorded(m, c)
  <2>1. PICK t \in 1..MaxId :
            /\ e.ranges = <<[start |-> t, stop |-> t]>>
            /\ t > 1 => \E p \in Places : /\ IsObject(p) /\ Of(p, m, c)
                                          /\ Earlier(p, at) /\ t - 1 \in Covered(At(p).ranges)
    BY <1>1, <1>2, <1>5, <1>6, <1>15 DEF FilesInv, SurfacesInOrder
  <2>2. t > 1 => t - 1 \in Recorded(m, c)
    BY <1>6, <2>1, RecordedIs
  <2>3. Class(m, c).superclass = "surface"
    BY <1>13, <1>15 DEF Fits
  <2>4. Recorded(m, c) = 1..s - 1
    <3>1. /\ Covered(Class(m, c).blocks) = Recorded(m, c) \cup stranded[m][c] \cup Pending(m, c)
          /\ stranded[m][c] = {} /\ Covered(Class(m, c).blocks) = 1..s - 1
      BY <1>3, <1>12, <2>3 DEF BlocksLoaded
    <3>2. QED
      BY <1>14, <3>1
  <2>5. t \notin Recorded(m, c)
    <3>1. SUFFICES ASSUME t \in Recorded(m, c) PROVE FALSE
      OBVIOUS
    <3>2. PICK p \in Known : IsObject(p) /\ Of(p, m, c) /\ t \in Covered(At(p).ranges)
      BY <3>1, RecordedIs
    <3>3. PICK k \in DOMAIN At(p).ranges : t \in Ids(At(p).ranges[k])
      BY <3>2 DEF Covered
    <3>4. /\ p \in Places /\ p # at /\ 1 \in DOMAIN At(at).ranges
          /\ At(at).ranges[1] = [start |-> t, stop |-> t]
      BY <1>1, <1>6, <2>1, <3>2 DEF Known
    <3>5. At(p).mesh = At(at).mesh /\ At(p).name = At(at).name /\ <<p, k>> # <<at, 1>>
      BY <1>1, <1>2, <3>2, <3>4 DEF Of
    <3>6. Ids(At(p).ranges[k]) \cap Ids(At(at).ranges[1]) = {}
      BY <1>5, <1>6, <1>7, <3>2, <3>3, <3>4, <3>5 DEF FilesInv, IdsOnce
    <3>7. t \in Ids(At(at).ranges[1])
      <4>1. t \in t..t
        BY <2>1
      <4>2. QED
        BY <3>4, <4>1 DEF Ids
    <3>8. QED
      BY <3>3, <3>6, <3>7
  <2>6. s \in Nat /\ s >= 1
    BY <1>3, <1>12, SurfacePositive DEF BlocksLoaded
  <2>7. t = s
    <3>1. t \in Nat /\ t >= 1
      BY <2>1
    <3>2. t \notin 1..s - 1 /\ (t > 1 => t - 1 \in 1..s - 1)
      BY <2>2, <2>4, <2>5
    <3>3. QED
      BY <2>6, <3>1, <3>2
  <2>8. QED
    BY <2>1, <2>2, <2>7
<1>16. entry' = e
  <2>1. CASE e.type = "SURFACE_CONNS"
    <3>1. PICK r : r = <<[start |-> s, stop |-> s]>>
      OBVIOUS
    <3>2. e.ranges = r /\ entry' = [e EXCEPT !.ranges = r]
      BY <1>4, <1>15, <2>1, <3>1
    <3>3. e = [type |-> e.type, mesh |-> e.mesh, name |-> e.name, superclass |-> e.superclass,
               ranges |-> e.ranges, data |-> e.data]
      BY <1>9 DEF EntryOf
    <3>4. QED
      BY <3>2, <3>3
  <2>2. QED
    BY <1>4, <2>1
<1>17. FilesInv' /\ Places' = Places
  BY <1>4, <1>5, FilesSame
<1>18. KnownSame /\ \A k, d : Recorded(k, d)' = Recorded(k, d)
  BY <1>4, SameAt
<1>19. MemoryInv'
  BY <1>4, <1>5, <1>14, <1>18, MemorySame
<1>20. SurfaceInv'
  <2>1. NextSurface(Class(entry.mesh, entry.name).blocks)' = s
    BY <1>2, <1>3, <1>4, <1>16 DEF NextSurface, Class
  <2>2. Recorded(entry.mesh, entry.name)' = Recorded(m, c)'
    BY <1>2, <1>16 DEF Recorded, ObjectPlaces
  <2>3. QED
    BY <1>15, <1>16, <1>18, <2>1, <2>2 DEF SurfaceInv
<1>21. EntryInv'
  <2>1. e.ranges \in Seq(IdRange)
    BY <1>9 DEF EntryOf
  <2>2. 0 \in 0..Len(e.ranges)
    BY <2>1
  <2>3. Class(entry.mesh, entry.name).superclass' = Class(m, c).superclass
    BY <1>2, <1>4, <1>16 DEF Class
  <2>4. QED
    BY <1>2, <1>4, <1>9, <1>11, <1>13, <1>16, <1>20, <2>1, <2>2, <2>3 DEF EntryInv
<1>22. LoadInv'
  BY <1>1, <1>4, <1>6, <1>16, <1>17 DEF LoadInv, At
<1>23. CallInv'
  BY <1>4, <1>6, <1>17, <1>21, <1>22 DEF CallInv
<1>24. QED
  BY <1>17, <1>19, <1>23 DEF IInv

\* init_meshes is done with the objects of an entry.
LEMMA LoadedKeeps ==
    ASSUME IInv, Loaded
    PROVE  IInv'
<1>1. PICK e : e = At(at)
  OBVIOUS
<1>2. /\ doing = "load" /\ added = Len(entry.ranges) /\ doing' = "none" /\ at' = NextPlace
      /\ UNCHANGED <<meshes, files, proc, stranded>>
  BY DEF Loaded, Done
<1>3. FilesInv /\ MemoryInv /\ CallInv
  BY DEF IInv
<1>4. /\ proc = "loading" /\ at \in Places
      /\ entry.type = e.type /\ entry.mesh = e.mesh /\ entry.name = e.name /\ entry.ranges = e.ranges
      /\ entry.type \in ObjectTypes
  BY <1>1, <1>2, <1>3 DEF CallInv, LoadInv, EntryInv
<1>5. PICK D : files \in Seq(Seq(EntryOf(D)))
  BY <1>3 DEF FilesInv, FilesTyped
<1>6. \A i \in 2..Len(files) : files[i] # << >>
  BY <1>3 DEF FilesInv, FilesTyped
<1>7. /\ \E n : n = at /\ Grows(n, e)
      /\ at' \in Places' \/ at' = <<Len(files') + 1, 1>>
  BY <1>1, <1>2, <1>4, <1>5, <1>6, LoadGrows
<1>8. PICK n : Grows(n, e)
  BY <1>7
<1>9. MemoryInv'
  <2>1. proc \in {"open", "loading"} /\ doing # "none"
    BY <1>2, <1>4
  <2>2. QED
    BY <1>2, <1>3, <1>4, <1>8, <2>1, ObjectsAdded
<1>10. FilesInv'
  BY <1>2, <1>3, FilesSame
<1>11. CallInv'
  BY <1>2, <1>4, <1>7 DEF CallInv
<1>12. QED
  BY <1>9, <1>10, <1>11 DEF IInv

\* At the end everything is known.
LEMMA LoadEndsKeeps ==
    ASSUME IInv, LoadEnds
    PROVE  IInv'
<1>1. /\ proc = "loading" /\ doing = "none" /\ AtEnd /\ proc' = "open" /\ doing' = "none"
      /\ UNCHANGED <<meshes, files, stranded>>
  BY DEF LoadEnds
<1>2. FilesInv /\ MemoryInv /\ CallInv
  BY DEF IInv
<1>3. PICK D : files \in Seq(Seq(EntryOf(D)))
  BY <1>2 DEF FilesInv, FilesTyped
<1>4. files # << >> /\ \A i \in 2..Len(files) : files[i] # << >>
  BY <1>2 DEF FilesInv, FilesTyped
<1>5. at = <<Len(files) + 1, 1>> /\ \A p \in Places : Earlier(p, <<Len(files) + 1, 1>>)
  BY <1>1, <1>2, <1>3, <1>4, Bounds DEF CallInv
<1>6. FilesInv' /\ Places' = Places
  BY <1>1, <1>2, FilesSame
<1>7. Known = Places /\ Known' = Places
  <2>1. Known = Places
    BY <1>5 DEF Known, Seen
  <2>2. Known' = Places
    BY <1>1, <1>6 DEF Known, Seen
  <2>3. QED
    BY <2>1, <2>2
<1>8. \A p : At(p)' = At(p)
  BY <1>1 DEF At
<1>9. KnownSame
  <2>1. \A q, m, c : FirstDef(q, m, c)' <=> FirstDef(q, m, c)
    BY <1>1, <1>6 DEF FirstDef, IsClass, Of, At, Earlier
  <2>2. QED
    BY <1>7, <1>8, <2>1 DEF KnownSame
<1>10. \A m, c : Recorded(m, c)' = Recorded(m, c)
  <2>1. SUFFICES ASSUME NEW m, NEW c PROVE Recorded(m, c)' = Recorded(m, c)
    OBVIOUS
  <2>2. \A p : /\ (IsObject(p) /\ Of(p, m, c))' <=> (IsObject(p) /\ Of(p, m, c))
               /\ Covered(At(p).ranges)' = Covered(At(p).ranges)
    BY <1>8 DEF IsObject, Of, Covered
  <2>3. \A x : x \in Recorded(m, c)' <=> x \in Recorded(m, c)
    BY <1>7, <2>2, RecordedIs
  <2>4. QED
    BY <2>3
<1>11. \A m, c : Pending(m, c) = {} /\ Pending(m, c)' = {}
  BY <1>1, NothingPending
<1>12. MemoryInv'
  BY <1>1, <1>2, <1>9, <1>10, <1>11, MemorySame
<1>13. CallInv'
  BY <1>1 DEF CallInv
<1>14. QED
  BY <1>6, <1>12, <1>13 DEF IInv

-----------------------------------------------------------------------------
(***************************************************************************)
(* The theorems.                                                           *)
(***************************************************************************)
\* A new family has the invariant: no entry, no mesh.
THEOREM InitInv == Init => IInv
<1>1. SUFFICES ASSUME Init PROVE IInv
  OBVIOUS
<1>2. /\ meshes = << >> /\ files = << << >> >> /\ proc = "open" /\ doing = "none"
      /\ stranded = [m \in MeshIds |-> [c \in Classes |-> {}]]
  BY <1>1 DEF Init
<1>3. /\ files \in Seq(Seq(EntryOf({}))) /\ files # << >> /\ Len(files) = 1
  <2>1. << >> \in Seq(EntryOf({}))
    OBVIOUS
  <2>2. QED
    BY <1>2, <2>1
<1>4. \A p \in Places : FALSE
  BY <1>2 DEF Places
<1>5. FilesTyped
  <2>1. \A i \in 2..Len(files) : files[i] # << >>
    BY <1>3
  <2>2. QED
    BY <1>3, <1>4, <2>1 DEF FilesTyped
<1>6. FilesInv
  BY <1>4, <1>5 DEF FilesInv, MeshesInOrder, MeshesNamed, ClassesNamed, SurfacesInOrder, IdsOnce
<1>7. << >> \in Seq([name : Names, table : [Classes -> ClassRecord]]) /\ DOMAIN << >> = {}
  OBVIOUS
<1>8. \A p \in Known : FALSE
  BY <1>4 DEF Known
<1>9. MeshesLoaded
  BY <1>2, <1>7, <1>8 DEF MeshesLoaded
<1>10. StrandedInv
  BY <1>2 DEF StrandedInv
<1>11. \A m \in DOMAIN meshes : FALSE
  BY <1>2, <1>7
<1>12. MemoryInv
  BY <1>9, <1>10, <1>11 DEF MemoryInv
<1>13. CallInv
  BY <1>2 DEF CallInv
<1>14. QED
  BY <1>6, <1>12, <1>13 DEF IInv

\* Each call, each step of a call and each step of init_meshes keeps it.
THEOREM NextInv == IInv /\ [Next]_vars => IInv'
<1>1. SUFFICES ASSUME IInv, [Next]_vars PROVE IInv'
  OBVIOUS
<1>2. ASSUME NEW n \in Names, MakeUmesh(n) PROVE IInv'
  BY <1>1, <1>2, MakeUmeshKeeps
<1>3. ASSUME NEW m \in MeshIds, Query(m) PROVE IInv'
  BY <1>1, <1>3, OthersKeep DEF Query
<1>4. ASSUME NEW m \in MeshIds, NEW d \in Declared, DefClass(m, d[1], d[2]) PROVE IInv'
  <2>1. d[1] \in Classes /\ d[2] \in Superclasses
    BY MeshAssumption
  <2>2. QED
    BY <1>1, <1>4, <2>1, DefClassKeeps
<1>5. ASSUME NEW m \in MeshIds, NEW c \in Classes, NEW r \in Ranges, DefClassIdents(m, c, r) PROVE IInv'
  <2>1. <<r>> \in Seq(IdRange)
    BY MeshAssumption
  <2>2. /\ m \in DOMAIN meshes /\ Define("CLASS_IDENTS", m, c, <<r>>)
        /\ Fits("CLASS_IDENTS", Class(m, c).superclass)
    BY <1>5 DEF DefClassIdents, HasClass, Fits
  <2>3. QED
    BY <1>1, <2>1, <2>2, DefineKeeps DEF ObjectTypes
<1>6. ASSUME NEW m \in MeshIds, NEW c \in Classes, NEW r \in Ranges, DefNodes(m, c, r) PROVE IInv'
  <2>1. <<r>> \in Seq(IdRange) /\ Len(<<r>>) = 1
    BY MeshAssumption
  <2>2. /\ m \in DOMAIN meshes /\ Define("NODES", m, c, <<r>>)
        /\ Fits("NODES", Class(m, c).superclass)
    BY <1>6 DEF DefNodes, HasClass, Fits
  <2>3. QED
    BY <1>1, <2>1, <2>2, DefineKeeps DEF ObjectTypes
<1>7. ASSUME NEW m \in MeshIds, NEW c \in Classes, NEW r \in Ranges, DefConnSeq(m, c, r) PROVE IInv'
  <2>1. <<r>> \in Seq(IdRange)
    BY MeshAssumption
  <2>2. /\ m \in DOMAIN meshes /\ Define("ELEM_CONNS", m, c, <<r>>)
        /\ Fits("ELEM_CONNS", Class(m, c).superclass)
    BY <1>7 DEF DefConnSeq, HasClass, Fits
  <2>3. QED
    BY <1>1, <2>1, <2>2, DefineKeeps DEF ObjectTypes
<1>8. ASSUME NEW m \in MeshIds, NEW c \in Classes, NEW list \in Lists, DefConnArb(m, c, list) PROVE IInv'
  <2>1. list \in Seq(IdRange)
    BY MeshAssumption
  <2>2. /\ m \in DOMAIN meshes /\ Define("ELEM_CONNS", m, c, list)
        /\ Fits("ELEM_CONNS", Class(m, c).superclass)
    BY <1>8 DEF DefConnArb, HasClass, Fits
  <2>3. QED
    BY <1>1, <2>1, <2>2, DefineKeeps DEF ObjectTypes
<1>9. ASSUME NEW m \in MeshIds, NEW c \in Classes, DefConnSurface(m, c) PROVE IInv'
  <2>1. PICK s : s = NextSurface(Class(m, c).blocks)
    OBVIOUS
  <2>2. PICK ranges : ranges = <<[start |-> s, stop |-> s]>>
    OBVIOUS
  <2>3. /\ m \in DOMAIN meshes /\ s <= MaxId /\ Define("SURFACE_CONNS", m, c, ranges)
        /\ Class(m, c).superclass = "surface"
    BY <1>9, <2>1, <2>2 DEF DefConnSurface, HasClass
  <2>4. Fits("SURFACE_CONNS", Class(m, c).superclass)
    BY <2>3 DEF Fits
  <2>5. s \in 1..MaxId
    <3>1. s \in Nat /\ s >= 1
      <4>1. BlocksLoaded(m, c)
        BY <1>1, <2>3 DEF IInv, MemoryInv
      <4>2. Ordered(Class(m, c).blocks)
        BY <4>1 DEF BlocksLoaded
      <4>3. QED
        BY <2>1, <4>2, SurfacePositive
    <3>2. QED
      BY <2>3, <3>1, MeshAssumption
  <2>6. ranges \in Seq(IdRange)
    <3>1. [start |-> s, stop |-> s] \in IdRange
      <4>1. s <= s
        BY <2>5
      <4>2. QED
        BY <2>5, <4>1 DEF IdRange
    <3>2. QED
      BY <2>2, <3>1
  <2>7. \E t \in 1..MaxId : /\ ranges = <<[start |-> t, stop |-> t]>>
                            /\ t = NextSurface(Class(m, c).blocks)
    BY <2>1, <2>2, <2>5
  <2>8. QED
    BY <1>1, <2>3, <2>4, <2>6, <2>7, DefineKeeps DEF ObjectTypes
<1>10. ASSUME NEW m, NEW c, NEW type, Read(m, c, type) PROVE IInv'
  BY <1>1, <1>10, OthersKeep DEF Read
<1>11. CASE Steps
  BY <1>1, <1>11, AddBlockKeeps, RefuseBlockKeeps, UpdateNodesKeeps, DefinesKeeps DEF Steps
<1>12. CASE Flush
  BY <1>1, <1>12, OthersKeep DEF Flush
<1>13. CASE Close
  BY <1>1, <1>13, CloseKeeps
<1>14. CASE Load
  BY <1>1, <1>14, ReopenKeeps, LoadMeshKeeps, LoadClassKeeps, LoadObjectsKeeps, LoadedKeeps,
     LoadEndsKeeps DEF Load
<1>15. CASE UNCHANGED vars
  BY <1>1, <1>15, OthersKeep DEF vars
<1>16. QED
  BY <1>1, <1>2, <1>3, <1>4, <1>5, <1>6, <1>7, <1>8, <1>9, <1>10, <1>11, <1>12, <1>13, <1>14, <1>15
     DEF Next

\* No id is defined twice in a class; between calls the blocks of a class are in
\* canonical form and exactly the ids of its definitions (and of refused calls),
\* and the class's count of objects is theirs: whatever application, in any
\* number of meshes and classes, and after any number of restarts.
THEOREM BlocksCorrect == Spec => []BlocksExact
<1>1. IInv => BlocksExact
  <2>1. SUFFICES ASSUME IInv PROVE BlocksExact
    OBVIOUS
  <2>2. NoIdTwice
    <3>1. proc # "failed"
      BY <2>1 DEF IInv, CallInv
    <3>2. ASSUME NEW p \in Places, NEW q \in Places,
                 NEW k \in DOMAIN At(p).ranges, NEW l \in DOMAIN At(q).ranges,
                 {At(p).type, At(q).type} \subseteq ObjectTypes,
                 At(p).mesh = At(q).mesh /\ At(p).name = At(q).name,
                 <<p, k>> # <<q, l>>
          PROVE  Ids(At(p).ranges[k]) \cap Ids(At(q).ranges[l]) = {}
      <4>1. IsObject(p) /\ IsObject(q)
        BY <3>2 DEF IsObject
      <4>2. QED
        BY <2>1, <3>2, <4>1 DEF IInv, FilesInv, IdsOnce
    <3>3. QED
      BY <3>1, <3>2 DEF NoIdTwice
  <2>3. ASSUME doing = "none", NEW m \in DOMAIN meshes, NEW c \in Classes
        PROVE  /\ Canonical(Class(m, c).blocks)
               /\ Covered(Class(m, c).blocks) = Recorded(m, c) \cup stranded[m][c]
               /\ Class(m, c).object_qty = Cardinality(Recorded(m, c) \cup stranded[m][c])
    <3>1. BlocksLoaded(m, c)
      BY <2>1, <2>3 DEF IInv, MemoryInv
    <3>2. Pending(m, c) = {}
      BY <2>3, NothingPending
    <3>3. /\ Ordered(Class(m, c).blocks)
          /\ Covered(Class(m, c).blocks) = Recorded(m, c) \cup stranded[m][c]
          /\ Class(m, c).object_qty = Cardinality(Covered(Class(m, c).blocks))
      BY <3>1, <3>2 DEF BlocksLoaded
    <3>4. QED
      BY <3>3, OrderedIsCanonical
  <2>4. QED
    BY <2>2, <2>3 DEF BlocksExact
<1>2. QED
  BY <1>1, InitInv, NextInv, PTL DEF Spec
=============================================================================
