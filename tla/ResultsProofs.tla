---------------------------- MODULE ResultsProofs ----------------------------
(***************************************************************************)
(* Proofs about Results, for any formats, variables and requests and       *)
(* whatever number of states and buffers: the rings of input buffers are   *)
(* what they should be, times are found, and what is read by way of a      *)
(* buffer is what the state files have.                                    *)
(***************************************************************************)
EXTENDS Results, FiniteSetTheorems, SequenceTheorems, WellFoundedInduction, TLAPS

-----------------------------------------------------------------------------
(***************************************************************************)
(* Sequences, of elements of whatever kind.                                *)
(***************************************************************************)
IsSeq(s) == Len(s) \in Nat /\ s = [i \in 1..Len(s) |-> s[i]]

LEMMA SeqIsSeq == ASSUME NEW S, NEW s \in Seq(S) PROVE IsSeq(s)
<1>1. Len(s) \in Nat /\ s \in [1..Len(s) -> S]
  OBVIOUS
<1>2. QED
  BY <1>1 DEF IsSeq

\* A function on 1..n is a sequence of length n.
LEMMA FunctionSeq ==
    ASSUME NEW n \in Nat, NEW f, f = [i \in 1..n |-> f[i]]
    PROVE  IsSeq(f) /\ Len(f) = n
<1> DEFINE S == {f[i] : i \in 1..n}
<1>1. f \in [1..n -> S]
  OBVIOUS
<1> HIDE DEF S
<1>2. f \in Seq(S) /\ Len(f) = n
  BY <1>1
<1>3. QED
  BY <1>2 DEF IsSeq

LEMMA EmptyIs == IsSeq(<< >>) /\ Len(<< >>) = 0 /\ DOMAIN << >> = {}
  BY DEF IsSeq

LEMMA AppendIs ==
    ASSUME NEW s, IsSeq(s), NEW e
    PROVE  /\ IsSeq(Append(s, e)) /\ Len(Append(s, e)) = Len(s) + 1
           /\ \A i \in 1..Len(s) : Append(s, e)[i] = s[i]
           /\ Append(s, e)[Len(s) + 1] = e
<1> DEFINE S == {s[i] : i \in 1..Len(s)} \cup {e}
<1>1. s \in Seq(S) /\ e \in S
  BY DEF IsSeq
<1> HIDE DEF S
<1>2. /\ Append(s, e) \in Seq(S) /\ Len(Append(s, e)) = Len(s) + 1
      /\ \A i \in 1..Len(s) : Append(s, e)[i] = s[i]
      /\ Append(s, e)[Len(s) + 1] = e
  BY <1>1, AppendProperties
<1>3. QED
  BY <1>2, SeqIsSeq

LEMMA ConcatIs ==
    ASSUME NEW s, IsSeq(s), NEW t, IsSeq(t)
    PROVE  /\ IsSeq(s \o t) /\ Len(s \o t) = Len(s) + Len(t)
           /\ \A i \in 1..Len(s) : (s \o t)[i] = s[i]
           /\ \A i \in 1..Len(t) : (s \o t)[Len(s) + i] = t[i]
<1> DEFINE S == {s[i] : i \in 1..Len(s)} \cup {t[i] : i \in 1..Len(t)}
<1>1. s \in Seq(S) /\ t \in Seq(S)
  BY DEF IsSeq
<1> HIDE DEF S
<1>2. s \o t \in Seq(S) /\ Len(s \o t) = Len(s) + Len(t)
  BY <1>1, ConcatProperties
<1>3. \A i \in 1..Len(s) + Len(t) : (s \o t)[i] = IF i <= Len(s) THEN s[i] ELSE t[i - Len(s)]
  BY <1>1, ConcatProperties
<1>4. QED
  <2>1. Len(s) \in Nat /\ Len(t) \in Nat
    BY DEF IsSeq
  <2>2. ASSUME NEW i \in 1..Len(t) PROVE (s \o t)[Len(s) + i] = t[i]
    <3>1. Len(s) + i \in 1..Len(s) + Len(t) /\ ~(Len(s) + i <= Len(s)) /\ Len(s) + i - Len(s) = i
      BY <2>1
    <3>2. QED
      BY <3>1, <1>3
  <2>3. \A i \in 1..Len(s) : (s \o t)[i] = s[i]
    BY <2>1, <1>3
  <2>4. IsSeq(s \o t)
    BY <1>2, SeqIsSeq
  <2>5. QED
    BY <1>2, <2>2, <2>3, <2>4

\* The first n elements.
LEMMA PrefixIs ==
    ASSUME NEW s, IsSeq(s), NEW n \in 0..Len(s)
    PROVE  /\ IsSeq(SubSeq(s, 1, n)) /\ Len(SubSeq(s, 1, n)) = n
           /\ \A i \in 1..n : SubSeq(s, 1, n)[i] = s[i]
<1> DEFINE S == {s[i] : i \in 1..Len(s)}
<1>1. s \in Seq(S)
  BY DEF IsSeq
<1> HIDE DEF S
<1>2. Len(s) \in Nat
  BY DEF IsSeq
<1>3. SubSeq(s, 1, n) = [i \in 1..n |-> s[i]]
  BY <1>1, <1>2
<1> DEFINE t == SubSeq(s, 1, n)
<1>4. n \in Nat /\ t = [i \in 1..n |-> t[i]] /\ \A i \in 1..n : t[i] = s[i]
  BY <1>2, <1>3
<1> HIDE DEF t
<1>5. IsSeq(t) /\ Len(t) = n
  BY <1>4, FunctionSeq
<1>6. QED
  BY <1>4, <1>5 DEF t

\* A sequence with an element replaced.
LEMMA ReplaceIs ==
    ASSUME NEW s, IsSeq(s), NEW n, NEW e
    PROVE  LET t == [s EXCEPT ![n] = e]
           IN  /\ IsSeq(t) /\ Len(t) = Len(s)
               /\ n \in 1..Len(s) => t[n] = e
               /\ \A i \in 1..Len(s) : i # n => t[i] = s[i]
<1> DEFINE t == [s EXCEPT ![n] = e]
<1>1. Len(s) \in Nat /\ DOMAIN s = 1..Len(s)
  BY DEF IsSeq
<1>2. t = [i \in 1..Len(s) |-> t[i]] /\ \A i \in 1..Len(s) : i # n => t[i] = s[i]
  BY <1>1
<1>3. n \in 1..Len(s) => t[n] = e
  BY <1>1
<1> HIDE DEF t
<1>4. IsSeq(t) /\ Len(t) = Len(s)
  BY <1>1, <1>2, FunctionSeq
<1>5. QED
  BY <1>2, <1>3, <1>4 DEF t

-----------------------------------------------------------------------------
(***************************************************************************)
(* The least and the greatest of some numbers.                             *)
(***************************************************************************)
LEMMA MinIs ==
    ASSUME NEW T \in SUBSET Nat, T # {}
    PROVE  Min(T) \in T /\ \A y \in T : Min(T) <= y
<1> DEFINE R == StrictSubsetOrdering(Nat)
           U == {0..x : x \in T}
<1>0. T \subseteq Nat
  OBVIOUS
<1>1. IsWellFoundedOn(R, FiniteSubsetsOf(Nat))
  BY FS_StrictSubsetOrderingWellFounded
<1>2. U \subseteq FiniteSubsetsOf(Nat)
  <2>1. \A x \in T : 0..x \subseteq Nat /\ IsFiniteSet(0..x)
    BY <1>0, FS_Interval
  <2>2. QED
    BY <2>1 DEF FiniteSubsetsOf
<1>3. \E u \in U : \A v \in U : ~(<<v, u>> \in R)
  <2>1. U # {}
    OBVIOUS
  <2> HIDE DEF R, U
  <2>2. QED
    BY <2>1, <1>1, <1>2, WFMin
<1>4. PICK x \in T : \A y \in T : ~(<<0..y, 0..x>> \in R)
  <2>1. PICK u \in U : \A v \in U : ~(<<v, u>> \in R)
    BY <1>3
  <2>2. PICK x \in T : u = 0..x
    BY <2>1
  <2> HIDE DEF R
  <2>3. QED
    BY <2>1, <2>2
<1>5. ASSUME NEW y \in T PROVE x <= y
  <2>0. x \in Nat /\ y \in Nat
    BY <1>0
  <2>1. SUFFICES ASSUME y < x PROVE FALSE
    BY <2>0
  <2>2. x \in 0..x /\ x \notin 0..y /\ 0..y \subseteq 0..x
    BY <2>0, <2>1
  <2>3. 0..x \subseteq Nat /\ 0..y \subseteq Nat
    BY <2>0
  <2>4. <<0..y, 0..x>> \in R
    BY <2>2, <2>3 DEF StrictSubsetOrdering
  <2>5. QED
    BY <2>4, <1>4
<1>6. QED
  BY <1>5 DEF Min

LEMMA MaxIs ==
    ASSUME NEW n \in Nat, NEW V \in SUBSET (0..n), V # {}
    PROVE  Max(V) \in V /\ \A w \in V : w <= Max(V)
<1> DEFINE T == {n - v : v \in V}
<1>1. T \in SUBSET Nat /\ T # {}
  <2>1. \A v \in V : v \in 0..n /\ n - v \in Nat
    OBVIOUS
  <2>2. QED
    BY <2>1
<1>2. PICK t \in T : \A k \in T : t <= k
  <2> HIDE DEF T
  <2>1. QED
    BY <1>1, MinIs
<1>3. PICK v \in V : t = n - v
  OBVIOUS
<1>4. \A w \in V : v >= w
  <2>1. SUFFICES ASSUME NEW w \in V PROVE v >= w
    OBVIOUS
  <2>2. n - w \in T
    OBVIOUS
  <2>3. n - v <= n - w
    BY <1>2, <1>3, <2>2
  <2> HIDE DEF T
  <2>4. v \in Nat /\ w \in Nat
    OBVIOUS
  <2>5. QED
    BY <2>3, <2>4
<1> HIDE DEF T
<1>5. \A w \in V : w \in Nat
  OBVIOUS
<1>6. QED
  BY <1>4, <1>5 DEF Max

-----------------------------------------------------------------------------
(***************************************************************************)
(* Rings.                                                                  *)
(***************************************************************************)
\* The buffers that have no state.
Free(numbers) == {i \in DOMAIN numbers : numbers[i] = Unused}

\* A ring is as TypeOK wants it.
RingOK(q) ==
    /\ DOMAIN q = {"numbers", "data", "new_count", "recent"}
    /\ IsSeq(q.numbers) /\ IsSeq(q.data)
    /\ Len(q.data) = Len(q.numbers) /\ Len(q.numbers) <= MaxBuffers
    /\ \A i \in 1..Len(q.numbers) : q.numbers[i] \in {Unused} \cup 1..MaxStates
    /\ q.numbers # << >> =>
           /\ q.recent \in 0..Len(q.numbers)
           /\ q.new_count = Cardinality(Free(q.numbers))
    /\ \A i, j \in 1..Len(q.numbers) : q.numbers[i] = q.numbers[j] /\ q.numbers[i] > 0 => i = j

\* A buffer that has a state was there before, with that state and its data.
NothingNew(q, r) ==
    \A i \in 1..Len(r.numbers) : r.numbers[i] > 0 =>
        i \in 1..Len(q.numbers) /\ r.numbers[i] = q.numbers[i] /\ r.data[i] = q.data[i]

\* A buffer is free only with the data it was made with.
FreeIsEmpty(q) == \A i \in 1..Len(q.numbers) : q.numbers[i] = Unused => q.data[i] = NoData

LEMMA FreeIsFinite ==
    ASSUME NEW s, IsSeq(s)
    PROVE  IsFiniteSet(Free(s)) /\ Cardinality(Free(s)) \in Nat
<1>1. Free(s) \subseteq 1..Len(s) /\ Len(s) \in Nat
  BY DEF Free, IsSeq
<1>2. IsFiniteSet(1..Len(s))
  BY <1>1, FS_Interval
<1>3. QED
  BY <1>1, <1>2, FS_Subset, FS_CardinalityType

\* EmptyQueue: all its buffers are free.
LEMMA EmptyQueueIs ==
    ASSUME NEW n \in 0..MaxBuffers
    PROVE  /\ RingOK(EmptyQueue(n)) /\ FreeIsEmpty(EmptyQueue(n))
           /\ Len(EmptyQueue(n).numbers) = n /\ \A i \in 1..n : EmptyQueue(n).numbers[i] = Unused
<1> DEFINE q == EmptyQueue(n)
<1>0. n \in Nat /\ n <= MaxBuffers
  BY ResultsAssumption
<1>1. /\ DOMAIN q = {"numbers", "data", "new_count", "recent"}
      /\ q.numbers = [i \in 1..n |-> Unused] /\ q.data = [i \in 1..n |-> NoData]
      /\ q.new_count = n /\ q.recent = 0
  BY DEF EmptyQueue
<1> HIDE DEF q
<1>2. IsSeq(q.numbers) /\ Len(q.numbers) = n /\ IsSeq(q.data) /\ Len(q.data) = n
  <2>1. q.numbers = [i \in 1..n |-> q.numbers[i]] /\ q.data = [i \in 1..n |-> q.data[i]]
    BY <1>1
  <2>2. QED
    BY <1>0, <2>1, FunctionSeq
<1>3. \A i \in 1..n : q.numbers[i] = Unused /\ q.data[i] = NoData
  BY <1>1
<1>4. Free(q.numbers) = 1..n
  BY <1>1 DEF Free
<1>5. Cardinality(1..n) = n
  BY <1>0, FS_Interval
<1>6. q.recent \in 0..n /\ q.new_count = Cardinality(Free(q.numbers))
  BY <1>0, <1>1, <1>4, <1>5
<1>7. RingOK(q)
  BY <1>0, <1>1, <1>2, <1>3, <1>6 DEF RingOK, Unused
<1>8. QED
  BY <1>2, <1>3, <1>7 DEF FreeIsEmpty, q

\* A ring given up.
LEMMA NoBuffersIs ==
    ASSUME NEW q, RingOK(q)
    PROVE  LET r == [q EXCEPT !.numbers = << >>, !.data = << >>]
           IN  RingOK(r) /\ NothingNew(q, r) /\ FreeIsEmpty(r) /\ Len(r.numbers) = 0
<1> DEFINE r == [q EXCEPT !.numbers = << >>, !.data = << >>]
<1>1. DOMAIN r = {"numbers", "data", "new_count", "recent"} /\ r.numbers = << >> /\ r.data = << >>
  BY DEF RingOK
<1> HIDE DEF r
<1>2. RingOK(r)
  BY <1>1, EmptyIs, ResultsAssumption DEF RingOK
<1>3. QED
  BY <1>1, <1>2, EmptyIs DEF NothingNew, FreeIsEmpty, r

\* init_buffer_queue keeps what the ring has, or gives it all up.
LEMMA InitQueueIs ==
    ASSUME NEW q, RingOK(q), NEW n \in 0..MaxBuffers, n = 0 \/ Len(q.numbers) <= n
    PROVE  LET r == InitQueue(q, n)
           IN  RingOK(r) /\ NothingNew(q, r) /\ (FreeIsEmpty(q) => FreeIsEmpty(r))
<1> DEFINE r == InitQueue(q, n)
<1>0. n \in Nat /\ n <= MaxBuffers /\ Len(q.numbers) \in Nat
  BY ResultsAssumption DEF RingOK, IsSeq
<1>1. CASE n = 0
  <2>1. r = [q EXCEPT !.numbers = << >>, !.data = << >>]
    BY <1>1 DEF InitQueue
  <2> HIDE DEF r
  <2>2. QED
    BY <2>1, NoBuffersIs DEF r
<1>2. CASE n # 0 /\ q.numbers = << >>
  <2>1. r = EmptyQueue(n)
    BY <1>2 DEF InitQueue
  <2> HIDE DEF r
  <2>2. RingOK(r) /\ FreeIsEmpty(r) /\ Len(r.numbers) = n /\ \A i \in 1..n : r.numbers[i] = Unused
    BY <2>1, EmptyQueueIs
  <2>3. NothingNew(q, r)
    BY <2>2 DEF NothingNew, Unused
  <2>4. QED
    BY <2>2, <2>3 DEF r
<1>3. CASE n # 0 /\ q.numbers # << >>
  <2> DEFINE m == n - Len(q.numbers)
             more == [i \in 1..m |-> Unused]
             none == [i \in 1..m |-> NoData]
  <2>1. m \in Nat
    BY <1>0, <1>3
  <2>2. IsSeq(more) /\ Len(more) = m /\ IsSeq(none) /\ Len(none) = m
    <3>1. more = [i \in 1..m |-> more[i]] /\ none = [i \in 1..m |-> none[i]]
      OBVIOUS
    <3> HIDE DEF more, none, m
    <3>2. QED
      BY <2>1, <3>1, FunctionSeq
  <2>3. /\ DOMAIN r = {"numbers", "data", "new_count", "recent"}
        /\ r.numbers = q.numbers \o more /\ r.data = q.data \o none
        /\ r.new_count = q.new_count + m /\ r.recent = q.recent
    BY <1>3 DEF InitQueue, RingOK
  <2>4. \A i \in 1..m : more[i] = Unused /\ none[i] = NoData
    OBVIOUS
  <2> HIDE DEF r, more, none, m
  <2>5. /\ IsSeq(r.numbers) /\ Len(r.numbers) = Len(q.numbers) + m
        /\ \A i \in 1..Len(q.numbers) : r.numbers[i] = q.numbers[i]
        /\ \A i \in 1..m : r.numbers[Len(q.numbers) + i] = Unused
    <3>1. IsSeq(q.numbers)
      BY DEF RingOK
    <3>2. /\ IsSeq(q.numbers \o more) /\ Len(q.numbers \o more) = Len(q.numbers) + m
          /\ \A i \in 1..Len(q.numbers) : (q.numbers \o more)[i] = q.numbers[i]
          /\ \A i \in 1..m : (q.numbers \o more)[Len(q.numbers) + i] = more[i]
      BY <2>2, <3>1, ConcatIs
    <3>3. QED
      BY <2>3, <2>4, <3>2
  <2>6. /\ IsSeq(r.data) /\ Len(r.data) = Len(q.numbers) + m
        /\ \A i \in 1..Len(q.numbers) : r.data[i] = q.data[i]
        /\ \A i \in 1..m : r.data[Len(q.numbers) + i] = NoData
    <3>1. IsSeq(q.data) /\ Len(q.data) = Len(q.numbers)
      BY DEF RingOK
    <3> DEFINE d == q.data
    <3>2. IsSeq(d) /\ IsSeq(none)
      BY <2>2, <3>1
    <3> HIDE DEF d
    <3>3. /\ IsSeq(d \o none) /\ Len(d \o none) = Len(d) + Len(none)
          /\ \A i \in 1..Len(d) : (d \o none)[i] = d[i]
          /\ \A i \in 1..Len(none) : (d \o none)[Len(d) + i] = none[i]
      <4>1. \A t : IsSeq(t) =>
                /\ IsSeq(d \o t) /\ Len(d \o t) = Len(d) + Len(t)
                /\ \A i \in 1..Len(d) : (d \o t)[i] = d[i]
                /\ \A i \in 1..Len(t) : (d \o t)[Len(d) + i] = t[i]
        BY <3>2, ConcatIs
      <4>2. QED
        BY <3>2, <4>1
    <3>4. /\ IsSeq(q.data \o none) /\ Len(q.data \o none) = Len(q.data) + m
          /\ \A i \in 1..Len(q.data) : (q.data \o none)[i] = q.data[i]
          /\ \A i \in 1..m : (q.data \o none)[Len(q.data) + i] = none[i]
      BY <3>3, <2>2 DEF d
    <3>5. QED
      BY <2>3, <2>4, <3>1, <3>4
  <2>7. ASSUME NEW i \in 1..Len(r.numbers)
        PROVE  \/ i \in 1..Len(q.numbers) /\ r.numbers[i] = q.numbers[i] /\ r.data[i] = q.data[i]
               \/ i > Len(q.numbers) /\ r.numbers[i] = Unused /\ r.data[i] = NoData
    <3>1. CASE i \in 1..Len(q.numbers)
      BY <3>1, <2>5, <2>6
    <3>2. CASE i \notin 1..Len(q.numbers)
      <4>1. i - Len(q.numbers) \in 1..m /\ i = Len(q.numbers) + (i - Len(q.numbers)) /\ i > Len(q.numbers)
        BY <3>2, <2>1, <2>5, <1>0
      <4>2. QED
        BY <4>1, <2>5, <2>6
    <3>3. QED
      BY <3>1, <3>2
  <2>8. Len(r.numbers) = n
    BY <1>0, <2>5 DEF m
  <2>9. Cardinality(Free(r.numbers)) = Cardinality(Free(q.numbers)) + m
    <3> DEFINE F == Free(q.numbers)
               G == Len(q.numbers) + 1..n
    <3>1. DOMAIN r.numbers = 1..n /\ DOMAIN q.numbers = 1..Len(q.numbers)
      BY <2>5, <2>8 DEF IsSeq, RingOK
    <3>2. Free(r.numbers) = F \cup G
      <4>1. ASSUME NEW i \in 1..n PROVE r.numbers[i] = Unused <=> i \in F \/ i \in G
        <5>1. i \in 1..Len(r.numbers)
          BY <2>8
        <5>2. CASE i \in 1..Len(q.numbers)
          BY <5>1, <5>2, <2>7, <3>1, <1>0 DEF Free
        <5>3. CASE i \notin 1..Len(q.numbers)
          BY <5>1, <5>3, <2>7, <3>1, <1>0 DEF Free
        <5>4. QED
          BY <5>2, <5>3
      <4>2. F \subseteq 1..n /\ G \subseteq 1..n
        BY <3>1, <1>0, <1>3 DEF Free
      <4>3. Free(r.numbers) = {i \in 1..n : r.numbers[i] = Unused}
        BY <3>1 DEF Free
      <4> HIDE DEF F, G
      <4>4. QED
        BY <4>1, <4>2, <4>3
    <3>3. F \cap G = {}
      BY <3>1, <1>0 DEF Free
    <3>4. IsFiniteSet(G) /\ Cardinality(G) = m
      <4>1. Len(q.numbers) + 1 \in Int /\ n \in Int /\ n >= Len(q.numbers)
        BY <1>0, <1>3
      <4>2. /\ IsFiniteSet(G)
            /\ Cardinality(G) = IF Len(q.numbers) + 1 > n THEN 0 ELSE n - (Len(q.numbers) + 1) + 1
        BY <4>1, FS_Interval
      <4>3. QED
        BY <1>0, <4>1, <4>2 DEF m
    <3>5. IsFiniteSet(F) /\ Cardinality(F) \in Nat
      BY FreeIsFinite DEF RingOK
    <3> HIDE DEF F, G
    <3>6. Cardinality(F \cup G) = Cardinality(F) + Cardinality(G) - Cardinality(F \cap G)
      BY <3>4, <3>5, FS_Union
    <3>7. Cardinality(F \cap G) = 0
      BY <3>3, FS_EmptySet
    <3>8. QED
      BY <2>1, <3>2, <3>4, <3>5, <3>6, <3>7 DEF F
  <2>10. r.recent \in 0..Len(r.numbers) /\ r.new_count = Cardinality(Free(r.numbers))
    BY <1>0, <1>3, <2>3, <2>8, <2>9 DEF RingOK
  <2>11. \A i \in 1..Len(r.numbers) : r.numbers[i] \in {Unused} \cup 1..MaxStates
    BY <2>7 DEF RingOK
  <2>12. ASSUME NEW i \in 1..Len(r.numbers), NEW j \in 1..Len(r.numbers),
                r.numbers[i] = r.numbers[j], r.numbers[i] > 0
         PROVE  i = j
    BY <2>7, <2>12 DEF RingOK, Unused
  <2>13. RingOK(r)
    BY <1>0, <2>3, <2>5, <2>6, <2>8, <2>10, <2>11, <2>12 DEF RingOK
  <2>14. NothingNew(q, r)
    BY <2>7 DEF NothingNew, Unused
  <2>15. FreeIsEmpty(q) => FreeIsEmpty(r)
    BY <2>7 DEF FreeIsEmpty
  <2>16. QED
    BY <2>13, <2>14, <2>15 DEF r
<1>4. QED
  BY <1>1, <1>2, <1>3
\* What a buffer has is kept, but for the one that the state is read into.
ReadInto(q, r, st, words) ==
    \A i \in 1..Len(r.numbers) :
        \/ r.numbers[i] = q.numbers[i] /\ r.data[i] = q.data[i]
        \/ /\ r.numbers[i] = st /\ st \notin Range(q.numbers)
           /\ r.data[i] = IF words = << >> THEN q.data[i] ELSE words

LEMMA NextBufferIs ==
    ASSUME NEW q, RingOK(q), q.numbers # << >>
    PROVE  /\ NextBuffer(q) \in 1..Len(q.numbers)
           /\ q.new_count > 0 => q.numbers[NextBuffer(q)] = Unused
           /\ ~(q.new_count > 0) => Free(q.numbers) = {} /\ q.new_count = 0
<1> DEFINE len == Len(q.numbers)
           F == Free(q.numbers)
<1>1. len \in Nat /\ len > 0 /\ DOMAIN q.numbers = 1..len
  <2>1. len \in Nat /\ q.numbers = [i \in 1..len |-> q.numbers[i]]
    BY DEF RingOK, IsSeq
  <2>2. len # 0
    <3>1. SUFFICES ASSUME len = 0 PROVE q.numbers = << >>
      OBVIOUS
    <3>2. q.numbers \in Seq({q.numbers[i] : i \in 1..len})
      BY <2>1
    <3>3. QED
      BY <3>1, <3>2, EmptySeq
  <2>3. QED
    BY <2>1, <2>2
<1>2. F \subseteq 1..len /\ IsFiniteSet(F) /\ Cardinality(F) \in Nat
  <2>1. IsSeq(q.numbers)
    BY DEF RingOK
  <2>2. QED
    BY <1>1, <2>1, FreeIsFinite DEF Free
<1>3. q.new_count = Cardinality(F) /\ q.recent \in 0..len
  BY DEF RingOK
<1>4. Cardinality(F) = 0 <=> F = {}
  BY <1>2, FS_EmptySet
<1>5. F = {i \in DOMAIN q.numbers : q.numbers[i] = Unused}
  BY DEF Free
<1>6. CASE q.new_count > 0
  <2>1. F # {}
    BY <1>2, <1>3, <1>4, <1>6
  <2>2. Min(F) \in F
    <3>1. F \in SUBSET Nat
      BY <1>1, <1>2
    <3> HIDE DEF F, len
    <3>2. QED
      BY <2>1, <3>1, MinIs
  <2>3. NextBuffer(q) = Min(F)
    BY <1>5, <1>6, <2>1 DEF NextBuffer
  <2>4. q.numbers[NextBuffer(q)] = Unused /\ NextBuffer(q) \in 1..len
    <3>1. NextBuffer(q) \in F
      BY <2>2, <2>3
    <3>2. QED
      BY <3>1, <1>1, <1>5
  <2>5. QED
    BY <1>6, <2>4
<1>7. CASE ~(q.new_count > 0)
  <2>1. NextBuffer(q) = (q.recent % len) + 1
    BY <1>7 DEF NextBuffer
  <2>2. q.recent \in Nat
    BY <1>1, <1>3
  <2>3. q.recent % len \in 0..len - 1
    BY <1>1, <2>2
  <2>4. q.new_count = 0 /\ F = {}
    BY <1>2, <1>3, <1>4, <1>7
  <2>5. QED
    BY <1>1, <1>7, <2>1, <2>3, <2>4
<1>8. QED
  BY <1>6, <1>7

\* get_oo_svars: a state is claimed by one buffer, the one it was read into last.
LEMMA QueueAfterIs ==
    ASSUME NEW q, RingOK(q), NEW st \in 1..MaxStates, NEW words
    PROVE  LET r == QueueAfter(q, st, words)
           IN  /\ RingOK(r) /\ Len(r.numbers) = Len(q.numbers)
               /\ ReadInto(q, r, st, words) /\ (FreeIsEmpty(q) => FreeIsEmpty(r))
<1> DEFINE r == QueueAfter(q, st, words)
           len == Len(q.numbers)
<1>1. CASE q.numbers = << >> \/ st \in Range(q.numbers)
  <2>1. r = q
    BY <1>1 DEF QueueAfter
  <2> HIDE DEF r
  <2>2. QED
    BY <2>1 DEF ReadInto, r
<1>2. CASE q.numbers # << >> /\ st \notin Range(q.numbers)
  <2> DEFINE n == NextBuffer(q)
             new == IF words = << >> THEN q.data[n] ELSE words
  <2>1. /\ n \in 1..len /\ (q.new_count > 0 => q.numbers[n] = Unused)
        /\ ~(q.new_count > 0) => Free(q.numbers) = {} /\ q.new_count = 0
    BY <1>2, NextBufferIs
  <2> HIDE DEF n
  <2>2. IsSeq(q.numbers) /\ IsSeq(q.data) /\ Len(q.data) = len /\ len \in Nat
        /\ DOMAIN q.numbers = 1..len
    BY DEF RingOK, IsSeq
  <2>3. r = Fill(q, n, st, new)
    BY <1>2 DEF QueueAfter, n
  <2>4. /\ DOMAIN r = {"numbers", "data", "new_count", "recent"}
        /\ r.numbers = [q.numbers EXCEPT ![n] = st] /\ r.data = [q.data EXCEPT ![n] = new]
        /\ r.recent = n
        /\ r.new_count = IF q.new_count > 0 THEN q.new_count - 1 ELSE q.new_count
    BY <2>3 DEF Fill, RingOK
  <2> HIDE DEF r, new
  <2>5. /\ IsSeq(r.numbers) /\ Len(r.numbers) = len /\ r.numbers[n] = st
        /\ \A i \in 1..len : i # n => r.numbers[i] = q.numbers[i]
    <3> DEFINE s == q.numbers
    <3>1. IsSeq(s) /\ n \in 1..Len(s)
      BY <2>1, <2>2
    <3> HIDE DEF s
    <3>2. LET t == [s EXCEPT ![n] = st]
          IN  IsSeq(t) /\ Len(t) = Len(s) /\ t[n] = st /\ \A i \in 1..Len(s) : i # n => t[i] = s[i]
      BY <3>1, ReplaceIs
    <3>3. QED
      BY <2>4, <3>2 DEF s
  <2>6. /\ IsSeq(r.data) /\ Len(r.data) = len /\ r.data[n] = new
        /\ \A i \in 1..len : i # n => r.data[i] = q.data[i]
    <3> DEFINE s == q.data
    <3>1. IsSeq(s) /\ n \in 1..Len(s)
      BY <2>1, <2>2
    <3> HIDE DEF s
    <3>2. LET t == [s EXCEPT ![n] = new]
          IN  IsSeq(t) /\ Len(t) = Len(s) /\ t[n] = new /\ \A i \in 1..Len(s) : i # n => t[i] = s[i]
      BY <3>1, ReplaceIs
    <3>3. QED
      BY <2>2, <2>4, <3>2 DEF s
  <2>7. \A i \in 1..len : q.numbers[i] # st
    BY <1>2, <2>2 DEF Range
  <2>8. st > 0 /\ st # Unused
    BY ResultsAssumption DEF Unused
  <2>9. Free(r.numbers) = Free(q.numbers) \ {n}
    <3>1. DOMAIN r.numbers = 1..len
      BY <2>5 DEF IsSeq
    <3>2. QED
      BY <3>1, <2>2, <2>5, <2>8 DEF Free
  <2>10. r.new_count = Cardinality(Free(r.numbers))
    <3>1. q.new_count = Cardinality(Free(q.numbers))
      BY <1>2 DEF RingOK
    <3>2. CASE q.new_count > 0
      <4>1. n \in Free(q.numbers)
        BY <2>1, <2>2, <3>2 DEF Free
      <4>2. IsFiniteSet(Free(q.numbers)) /\ Cardinality(Free(q.numbers)) \in Nat
        BY <2>2, FreeIsFinite
      <4>3. Cardinality(Free(q.numbers) \ {n}) = Cardinality(Free(q.numbers)) - 1
        BY <4>1, <4>2, FS_RemoveElement
      <4>4. QED
        BY <2>4, <2>9, <3>1, <3>2, <4>3
    <3>3. CASE ~(q.new_count > 0)
      <4>1. Free(r.numbers) = Free(q.numbers)
        BY <2>1, <2>9, <3>3
      <4>2. QED
        BY <2>4, <3>1, <3>3, <4>1
    <3>4. QED
      BY <3>2, <3>3
  <2>11. RingOK(r)
    <3>1. \A i \in 1..len : r.numbers[i] \in {Unused} \cup 1..MaxStates
      <4>1. ASSUME NEW i \in 1..len PROVE r.numbers[i] \in {Unused} \cup 1..MaxStates
        BY <2>5 DEF RingOK
      <4>2. QED
        BY <4>1
    <3>2. ASSUME NEW i \in 1..len, NEW j \in 1..len, r.numbers[i] = r.numbers[j], r.numbers[i] > 0
          PROVE  i = j
      BY <2>5, <2>7, <3>2 DEF RingOK
    <3>3. r.recent \in 0..len
      BY <2>1, <2>2, <2>4
    <3>4. len <= MaxBuffers
      BY DEF RingOK
    <3>5. QED
      BY <2>4, <2>5, <2>6, <2>10, <3>1, <3>2, <3>3, <3>4 DEF RingOK
  <2>12. ReadInto(q, r, st, words)
    <3>1. ASSUME NEW i \in 1..len
          PROVE  \/ r.numbers[i] = q.numbers[i] /\ r.data[i] = q.data[i]
                 \/ r.numbers[i] = st /\ r.data[i] = IF words = << >> THEN q.data[i] ELSE words
      <4>1. CASE i = n
        BY <4>1, <2>5, <2>6 DEF new
      <4>2. CASE i # n
        BY <4>2, <2>5, <2>6
      <4>3. QED
        BY <4>1, <4>2
    <3>2. QED
      BY <1>2, <2>5, <3>1 DEF ReadInto
  <2>13. ASSUME FreeIsEmpty(q) PROVE FreeIsEmpty(r)
    <3>1. ASSUME NEW i \in 1..len, r.numbers[i] = Unused PROVE r.data[i] = NoData
      BY <2>5, <2>6, <2>8, <2>13, <3>1 DEF FreeIsEmpty
    <3>2. QED
      BY <2>5, <3>1 DEF FreeIsEmpty
  <2>14. QED
    BY <2>5, <2>11, <2>12, <2>13 DEF r
<1>3. QED
  BY <1>1, <1>2
-----------------------------------------------------------------------------
(***************************************************************************)
(* Type correctness.                                                       *)
(***************************************************************************)
\* The histories and the files have a record, a time and the last writes of each state.
StatesInv ==
    /\ IsSeq(disk) /\ IsSeq(times) /\ IsSeq(latest)
    /\ Len(times) = Len(disk) /\ Len(latest) = Len(disk) /\ Len(disk) <= MaxStates
    /\ writing # NotWriting => Len(disk) > 0
    /\ clock \in 0..MaxClock
    /\ known \in [Handles -> 0..MaxStates]

\* A function on S; a ring for each handle and subrecord; and one, or all of a handle's, replaced.
Over(f, S)  == f = [x \in S |-> f[x]]
Rings(p)    == Over(p, Handles) /\ \A h \in Handles : Over(p[h], Subrecs)
PutRing(h, k, q) == [queue EXCEPT ![h][k] = q]
PutRings(h, qs)  == [queue EXCEPT ![h] = qs]

\* The inductive invariant behind TypeOK, with StatesInv.
RingsInv ==
    /\ Rings(queue)
    /\ \A h \in Handles, k \in Subrecs : RingOK(queue[h][k])

TypeInv == StatesInv /\ RingsInv

LEMMA TypeInvTypes == TypeInv => TypeOK
<1> SUFFICES ASSUME TypeInv PROVE TypeOK
  OBVIOUS
<1>1. ASSUME NEW h \in Handles, NEW k \in Subrecs
      PROVE  LET q == queue[h][k]
             IN  /\ Len(q.numbers) = Len(q.data) /\ Len(q.numbers) <= MaxBuffers
                 /\ \A i \in DOMAIN q.numbers : q.numbers[i] \in {Unused} \cup 1..MaxStates
                 /\ q.numbers # << >> =>
                        /\ q.recent \in 0..Len(q.numbers)
                        /\ q.new_count = Cardinality({i \in DOMAIN q.numbers : q.numbers[i] = Unused})
                 /\ \A i, j \in DOMAIN q.numbers :
                        q.numbers[i] = q.numbers[j] /\ q.numbers[i] > 0 => i = j
  <2> DEFINE q == queue[h][k]
  <2>1. RingOK(q)
    BY DEF TypeInv, RingsInv
  <2> HIDE DEF q
  <2>2. DOMAIN q.numbers = 1..Len(q.numbers)
    BY <2>1 DEF RingOK, IsSeq
  <2>3. QED
    BY <2>1, <2>2 DEF RingOK, Free, q
<1>2. QED
  BY <1>1 DEF TypeInv, StatesInv, TypeOK

LEMMA QuantitiesIs ==
    ASSUME StatesInv
    PROVE  Len(disk) \in 0..MaxStates /\ Complete \in 0..Len(disk) /\ Complete \in 0..MaxStates
BY ResultsAssumption DEF StatesInv, IsSeq, Complete

LEMMA PutRingIs ==
    ASSUME Rings(queue), NEW h \in Handles, NEW k \in Subrecs, NEW r
    PROVE  LET p == PutRing(h, k, r)
           IN  /\ Rings(p)
               /\ \A g \in Handles, j \in Subrecs :
                      p[g][j] = IF g = h /\ j = k THEN r ELSE queue[g][j]
<1> DEFINE p == [queue EXCEPT ![h][k] = r]
<1>1. DOMAIN queue = Handles /\ \A g \in Handles : DOMAIN queue[g] = Subrecs
  BY DEF Rings, Over
<1>2. \A g \in Handles : p[g] = IF g = h THEN [queue[h] EXCEPT ![k] = r] ELSE queue[g]
  BY <1>1
<1>3. \A g \in Handles, j \in Subrecs : p[g][j] = IF g = h /\ j = k THEN r ELSE queue[g][j]
  BY <1>1, <1>2
<1>4. ASSUME NEW g \in Handles PROVE Over(p[g], Subrecs)
  <2>1. Over(queue[g], Subrecs)
    BY DEF Rings
  <2>2. CASE g = h
    BY <2>1, <2>2, <1>2 DEF Over
  <2>3. CASE g # h
    BY <2>1, <2>3, <1>2
  <2>4. QED
    BY <2>2, <2>3
<1>5. Over(p, Handles)
  BY <1>1 DEF Over
<1>6. QED
  BY <1>3, <1>4, <1>5 DEF Rings, PutRing

LEMMA PutRingsIs ==
    ASSUME Rings(queue), NEW h \in Handles, NEW r, Over(r, Subrecs)
    PROVE  LET p == PutRings(h, r)
           IN  /\ Rings(p)
               /\ \A g \in Handles, j \in Subrecs : p[g][j] = IF g = h THEN r[j] ELSE queue[g][j]
<1> DEFINE p == [queue EXCEPT ![h] = r]
<1>1. DOMAIN queue = Handles
  BY DEF Rings, Over
<1>2. \A g \in Handles : p[g] = IF g = h THEN r ELSE queue[g]
  BY <1>1
<1>3. Over(p, Handles)
  BY <1>1 DEF Over
<1> HIDE DEF p
<1>4. \A g \in Handles : Over(p[g], Subrecs)
  BY <1>2 DEF Rings
<1>5. QED
  BY <1>2, <1>3, <1>4 DEF Rings, PutRings, p

\* What mc_rewrite_subrec leaves of the writer's ring.
NoRing(q) == [q EXCEPT !.numbers = << >>, !.data = << >>]

LEMMA DropQueueIs ==
    ASSUME RingsInv, NEW h \in Handles, NEW k \in Subrecs
    PROVE  DropQueue(h, k) = PutRing(h, k, NoRing(queue[h][k]))
<1>1. DOMAIN queue = Handles /\ DOMAIN queue[h] = Subrecs /\ RingOK(queue[h][k])
  BY DEF RingsInv, Rings, Over
<1>2. QED
  BY <1>1 DEF DropQueue, RingOK, PutRing, NoRing

\* A record that gets a lump, and the write it came from.
LEMMA WriteStates ==
    ASSUME StatesInv, NEW st \in 1..Len(disk), NEW k, NEW w, NEW x,
           disk' = [disk EXCEPT ![st] = w], latest' = [latest EXCEPT ![st][k] = x]
    PROVE  IsSeq(disk') /\ IsSeq(latest') /\ Len(disk') = Len(disk) /\ Len(latest') = Len(latest)
<1>1. IsSeq(disk) /\ IsSeq(latest) /\ DOMAIN latest = 1..Len(latest) /\ Len(latest) \in Nat
  BY DEF StatesInv, IsSeq
<1>2. latest' = [latest EXCEPT ![st] = [latest[st] EXCEPT ![k] = x]]
  BY <1>1
<1>3. QED
  <2> DEFINE y == [latest[st] EXCEPT ![k] = x]
  <2>1. latest' = [latest EXCEPT ![st] = y]
    BY <1>2
  <2> HIDE DEF y
  <2>2. LET t == [latest EXCEPT ![st] = y] IN IsSeq(t) /\ Len(t) = Len(latest)
    BY <1>1, ReplaceIs
  <2>3. LET t == [disk EXCEPT ![st] = w] IN IsSeq(t) /\ Len(t) = Len(disk)
    BY <1>1, ReplaceIs
  <2>4. QED
    BY <2>1, <2>2, <2>3
LEMMA RewriteTypes ==
    ASSUME TypeInv, NEW k \in Subrecs, NEW l, NEW st \in 1..MaxStates, RewriteSubrec(st, k, l)
    PROVE  TypeInv'
<1>1. StatesInv /\ RingsInv /\ Complete \in 0..Len(disk)
  BY QuantitiesIs DEF TypeInv
<1>2. st \in 1..Len(disk)
  <2>1. Len(disk) \in Nat /\ st <= Complete
    BY <1>1 DEF RewriteSubrec, StatesInv, IsSeq
  <2>2. QED
    BY <1>1, <2>1
<1>3. StatesInv'
  <2>1. PICK w, x : disk' = [disk EXCEPT ![st] = w] /\ latest' = [latest EXCEPT ![st][k] = x]
    BY DEF RewriteSubrec, Latest
  <2>2. IsSeq(disk') /\ IsSeq(latest') /\ Len(disk') = Len(disk) /\ Len(latest') = Len(latest)
    BY <1>1, <1>2, <2>1, WriteStates
  <2>3. clock' \in 0..MaxClock
    BY <1>1, ResultsAssumption DEF StatesInv, RewriteSubrec
  <2>4. UNCHANGED <<times, writing, known>>
    BY DEF RewriteSubrec
  <2>5. QED
    BY <1>1, <2>2, <2>3, <2>4 DEF StatesInv
<1>4. RingsInv'
  <2>1. queue' = PutRing("writer", k, NoRing(queue["writer"][k])) /\ srec' = srec
    BY <1>1, DropQueueIs DEF RewriteSubrec, Handles
  <2>2. /\ Rings(queue')
        /\ \A g \in Handles, j \in Subrecs :
               queue'[g][j] = IF g = "writer" /\ j = k THEN NoRing(queue["writer"][k]) ELSE queue[g][j]
    BY <1>1, <2>1, PutRingIs DEF Handles, RingsInv
  <2>3. ASSUME NEW g \in Handles, NEW j \in Subrecs PROVE RingOK(queue'[g][j])
    <3>1. RingOK(queue[g][j])
      BY <1>1 DEF RingsInv
    <3>2. CASE g = "writer" /\ j = k
      <4>1. RingOK(NoRing(queue["writer"][k]))
        BY <3>1, <3>2, NoBuffersIs DEF NoRing
      <4>2. QED
        BY <2>2, <3>2, <4>1
    <3>3. CASE ~(g = "writer" /\ j = k)
      BY <2>2, <3>1, <3>3
    <3>4. QED
      BY <3>2, <3>3
  <2>4. QED
    BY <2>1, <2>2, <2>3 DEF RingsInv, Rings, Subrecs
<1>5. QED
  BY <1>3, <1>4 DEF TypeInv

\* The rings stay as they are.
LEMMA SameRings == RingsInv /\ UNCHANGED <<srec, queue>> => RingsInv'
BY DEF RingsInv, Rings, Subrecs

LEMMA WritingTypes ==
    ASSUME TypeInv, NewState \/ EndState \/ \E k \in Subrecs : \E l \in 1..Lumps(Sub(k)) : WrtSubrec(k, l)
    PROVE  TypeInv'
<1>1. StatesInv /\ RingsInv /\ Len(disk) \in 0..MaxStates
  BY QuantitiesIs DEF TypeInv
<1>2. RingsInv'
  BY <1>1, SameRings DEF NewState, EndState, WrtSubrec
<1>3. CASE NewState
  <2>1. PICK x, y, z : disk' = Append(disk, x) /\ times' = Append(times, y) /\ latest' = Append(latest, z)
    BY <1>3 DEF NewState
  <2>2. IsSeq(disk) /\ IsSeq(times) /\ IsSeq(latest)
    BY <1>1 DEF StatesInv
  <2>3. /\ IsSeq(disk') /\ Len(disk') = Len(disk) + 1
        /\ IsSeq(times') /\ Len(times') = Len(times) + 1
        /\ IsSeq(latest') /\ Len(latest') = Len(latest) + 1
    BY <2>1, <2>2, AppendIs
  <2>4. Len(disk) < MaxStates /\ UNCHANGED <<clock, known>>
    BY <1>3 DEF NewState
  <2>5. StatesInv'
    BY <1>1, <2>3, <2>4, ResultsAssumption DEF StatesInv
  <2>6. QED
    BY <1>2, <2>5 DEF TypeInv
<1>4. CASE EndState
  <2>1. known' \in [Handles -> 0..MaxStates]
    BY <1>1, <1>4 DEF StatesInv, EndState
  <2>2. UNCHANGED <<disk, times, latest, clock>> /\ writing' = NotWriting
    BY <1>4 DEF EndState
  <2>3. StatesInv'
    BY <1>1, <2>1, <2>2 DEF StatesInv, NotWriting
  <2>4. QED
    BY <1>2, <2>3 DEF TypeInv
<1>5. CASE \E k \in Subrecs : \E l \in 1..Lumps(Sub(k)) : WrtSubrec(k, l)
  <2>1. PICK k \in Subrecs : \E l \in 1..Lumps(Sub(k)) : WrtSubrec(k, l)
    BY <1>5
  <2>2. PICK l \in 1..Lumps(Sub(k)) : WrtSubrec(k, l)
    BY <2>1
  <2> DEFINE st == Len(disk)
  <2>3. st \in 1..Len(disk)
    BY <1>1, <2>2 DEF WrtSubrec, StatesInv
  <2>4. PICK w, x : disk' = [disk EXCEPT ![st] = w] /\ latest' = [latest EXCEPT ![st][k] = x]
    BY <2>2 DEF WrtSubrec, Latest
  <2> HIDE DEF st
  <2>5. IsSeq(disk') /\ IsSeq(latest') /\ Len(disk') = Len(disk) /\ Len(latest') = Len(latest)
    BY <1>1, <2>3, <2>4, WriteStates
  <2>6. UNCHANGED <<times, known, clock>> /\ Len(disk) > 0
    BY <1>1, <2>2 DEF WrtSubrec, StatesInv
  <2>7. StatesInv'
    BY <1>1, <2>5, <2>6 DEF StatesInv
  <2>8. QED
    BY <1>2, <2>7 DEF TypeInv
<1>6. QED
  BY <1>3, <1>4, <1>5

LEMMA RestartTypes ==
    ASSUME TypeInv, NEW st \in 1..MaxStates, Restart(st)
    PROVE  TypeInv'
<1>1. StatesInv /\ RingsInv /\ Len(disk) \in 0..MaxStates
  BY QuantitiesIs DEF TypeInv
<1>2. RingsInv'
  BY <1>1, SameRings DEF Restart
<1>3. st \in 1..Len(disk) /\ st - 1 \in 0..Len(disk) /\ st - 1 \in 0..MaxStates
  BY <1>1, ResultsAssumption DEF Restart
<1>4. IsSeq(disk) /\ IsSeq(times) /\ IsSeq(latest) /\ Len(times) = Len(disk) /\ Len(latest) = Len(disk)
  BY <1>1 DEF StatesInv
<1>5. /\ disk' = SubSeq(disk, 1, st - 1) /\ times' = SubSeq(times, 1, st - 1)
      /\ latest' = SubSeq(latest, 1, st - 1)
  BY DEF Restart
<1> DEFINE n == st - 1
<1>6. n \in 0..Len(disk) /\ n \in 0..MaxStates
  BY <1>3
<1>7. /\ IsSeq(SubSeq(disk, 1, n)) /\ Len(SubSeq(disk, 1, n)) = n
      /\ IsSeq(SubSeq(times, 1, n)) /\ Len(SubSeq(times, 1, n)) = n
      /\ IsSeq(SubSeq(latest, 1, n)) /\ Len(SubSeq(latest, 1, n)) = n
  <2> HIDE DEF n
  <2>1. n \in 0..Len(times) /\ n \in 0..Len(latest)
    BY <1>4, <1>6
  <2>2. QED
    BY <1>4, <1>6, <2>1, PrefixIs
<1>8. known' \in [Handles -> 0..MaxStates]
  BY <1>1, <1>3 DEF StatesInv, Restart
<1>9. clock' \in 0..MaxClock
  BY <1>1, ResultsAssumption DEF StatesInv, Restart
<1>10. writing' = NotWriting
  BY DEF Restart
<1>11. Len(disk') <= MaxStates
  BY <1>5, <1>6, <1>7
<1>12. StatesInv'
  BY <1>5, <1>7, <1>8, <1>9, <1>10, <1>11 DEF StatesInv, NotWriting
<1>13. QED
  BY <1>2, <1>12 DEF TypeInv

\* What a handle learns of the states.
LEMMA KnownForIs ==
    ASSUME StatesInv, NEW h \in Handles, NEW st \in Nat
    PROVE  KnownFor(h, st) \in 0..MaxStates
BY QuantitiesIs DEF KnownFor, StatesInv

LEMMA KnownTypes ==
    ASSUME StatesInv, NEW h \in Handles, NEW n \in 0..MaxStates, known' = [known EXCEPT ![h] = n],
           UNCHANGED <<disk, times, writing, latest, clock>>
    PROVE  StatesInv'
<1>1. known' \in [Handles -> 0..MaxStates]
  BY DEF StatesInv
<1>2. QED
  BY <1>1 DEF StatesInv

LEMMA BufferQtyTypes ==
    ASSUME TypeInv, NEW h \in Handles, NEW qty \in 0..MaxBuffers, SetBufferQty(h, qty)
    PROVE  TypeInv'
<1> DEFINE change == {k \in ObjectOrdered : Len(queue[h][k].numbers) # qty}
           r == [k \in Subrecs |-> IF k \in change THEN InitQueue(queue[h][k], qty) ELSE queue[h][k]]
<1>1. StatesInv /\ RingsInv
  BY DEF TypeInv
<1>2. StatesInv'
  BY <1>1 DEF SetBufferQty, StatesInv
<1>3. queue' = PutRings(h, r) /\ srec' = srec
  <2>1. DOMAIN queue = Handles
    BY <1>1 DEF RingsInv, Rings, Over
  <2>2. QED
    BY <2>1 DEF SetBufferQty, PutRings
<1>4. Over(r, Subrecs)
  BY DEF Over
<1>5. ASSUME NEW k \in Subrecs PROVE RingOK(r[k])
  <2>1. RingOK(queue[h][k])
    BY <1>1 DEF RingsInv
  <2>2. CASE k \in change
    <3>1. r[k] = InitQueue(queue[h][k], qty)
      BY <2>2
    <3>2. qty = 0 \/ Len(queue[h][k].numbers) <= qty
      BY <2>2 DEF SetBufferQty
    <3> HIDE DEF r, change
    <3> DEFINE q == queue[h][k]
    <3>3. RingOK(q) /\ (qty = 0 \/ Len(q.numbers) <= qty)
      BY <2>1, <3>2
    <3> HIDE DEF q
    <3>4. RingOK(InitQueue(q, qty))
      BY <3>3, InitQueueIs
    <3>5. QED
      BY <3>1, <3>4 DEF q
  <2>3. CASE k \notin change
    BY <2>1, <2>3
  <2>4. QED
    BY <2>2, <2>3
<1> HIDE DEF r, change
<1>6. Rings(queue') /\ \A g \in Handles, j \in Subrecs : queue'[g][j] = IF g = h THEN r[j] ELSE queue[g][j]
  BY <1>1, <1>3, <1>4, PutRingsIs DEF RingsInv
<1>7. \A g \in Handles, j \in Subrecs : RingOK(queue'[g][j])
  BY <1>1, <1>5, <1>6 DEF RingsInv
<1>8. RingsInv'
  BY <1>3, <1>6, <1>7 DEF RingsInv, Rings, Subrecs
<1>9. QED
  BY <1>2, <1>8 DEF TypeInv

LEMMA ReadTypes ==
    ASSUME TypeInv, NEW h \in Handles, NEW st \in 1..MaxStates, NEW k \in Subrecs, NEW malformed,
           ReadResults(h, st, k, malformed)
    PROVE  TypeInv'
<1> DEFINE q == queue[h][k]
           r == QueueAfter(q, st, SubrecWords(st, k))
<1>1. StatesInv /\ RingsInv /\ RingOK(q) /\ st \in Nat
  BY ResultsAssumption DEF TypeInv, RingsInv
<1>2. StatesInv'
  <2>1. KnownFor(h, st) \in 0..MaxStates
    BY <1>1, KnownForIs
  <2>2. QED
    BY <1>1, <2>1, KnownTypes DEF ReadResults
<1>3. srec' = srec /\ (queue' = queue \/ queue' = PutRing(h, k, r))
  <2>1. DOMAIN queue = Handles /\ DOMAIN queue[h] = Subrecs
    BY <1>1 DEF RingsInv, Rings, Over
  <2>2. QED
    BY <2>1 DEF ReadResults, PutRing
<1>4. RingOK(r)
  <2> HIDE DEF q
  <2>1. QED
    BY <1>1, QueueAfterIs
<1> HIDE DEF r
<1>5. CASE queue' = queue
  BY <1>1, <1>2, <1>3, <1>5, SameRings DEF TypeInv
<1>6. CASE queue' = PutRing(h, k, r)
  <2>1. /\ Rings(queue')
        /\ \A g \in Handles, j \in Subrecs : queue'[g][j] = IF g = h /\ j = k THEN r ELSE queue[g][j]
    BY <1>1, <1>6, PutRingIs DEF RingsInv
  <2>2. \A g \in Handles, j \in Subrecs : RingOK(queue'[g][j])
    BY <1>1, <1>4, <2>1 DEF RingsInv
  <2>3. RingsInv'
    BY <1>3, <2>1, <2>2 DEF RingsInv, Rings, Subrecs
  <2>4. QED
    BY <1>2, <2>3 DEF TypeInv
<1>7. QED
  BY <1>3, <1>5, <1>6

LEMMA MrGetResultTypes ==
    ASSUME TypeInv, NEW h \in Handles, NEW st \in 1..MaxStates, NEW class, NEW v,
           MrGetResult(h, st, class, v)
    PROVE  TypeInv'
<1> DEFINE reads == Range(ResultReads(h, st, class, v))
           r == [k \in Subrecs |-> IF k \in reads /\ Sub(k).org = "object" /\ st <= KnownFor(h, st)
                                   THEN QueueAfter(queue[h][k], st, SubrecWords(st, k)) ELSE queue[h][k]]
<1>1. StatesInv /\ RingsInv /\ st \in Nat
  BY ResultsAssumption DEF TypeInv
<1>2. StatesInv'
  <2>1. KnownFor(h, st) \in 0..MaxStates
    BY <1>1, KnownForIs
  <2>2. QED
    BY <1>1, <2>1, KnownTypes DEF MrGetResult
<1>3. queue' = PutRings(h, r) /\ srec' = srec
  <2>1. DOMAIN queue = Handles
    BY <1>1 DEF RingsInv, Rings, Over
  <2>2. QED
    BY <2>1 DEF MrGetResult, PutRings
<1>4. Over(r, Subrecs)
  BY DEF Over
<1>5. ASSUME NEW k \in Subrecs PROVE RingOK(r[k])
  <2> DEFINE q == queue[h][k]
  <2>1. RingOK(q)
    BY <1>1 DEF RingsInv
  <2>2. r[k] = q \/ r[k] = QueueAfter(q, st, SubrecWords(st, k))
    OBVIOUS
  <2> HIDE DEF r, q
  <2>3. RingOK(QueueAfter(q, st, SubrecWords(st, k)))
    BY <2>1, QueueAfterIs
  <2>4. QED
    BY <2>1, <2>2, <2>3
<1> HIDE DEF r
<1>6. Rings(queue') /\ \A g \in Handles, j \in Subrecs : queue'[g][j] = IF g = h THEN r[j] ELSE queue[g][j]
  BY <1>1, <1>3, <1>4, PutRingsIs DEF RingsInv
<1>7. \A g \in Handles, j \in Subrecs : RingOK(queue'[g][j])
  BY <1>1, <1>5, <1>6 DEF RingsInv
<1>8. RingsInv'
  BY <1>3, <1>6, <1>7 DEF RingsInv, Rings, Subrecs
<1>9. QED
  BY <1>2, <1>8 DEF TypeInv

LEMMA QueryTypes ==
    ASSUME TypeInv, NEW h \in Handles, QueryQtyStates(h)
    PROVE  TypeInv'
<1>1. StatesInv /\ RingsInv
  BY DEF TypeInv
<1>2. QtyStates(h) \in 0..MaxStates
  BY <1>1, QuantitiesIs DEF QtyStates, StatesInv
<1>3. StatesInv'
  BY <1>1, <1>2, KnownTypes DEF QueryQtyStates
<1>4. RingsInv'
  BY <1>1, SameRings DEF QueryQtyStates
<1>5. QED
  BY <1>3, <1>4 DEF TypeInv

LEMMA TypeInit == Init => TypeInv
<1> SUFFICES ASSUME Init PROVE TypeInv
  OBVIOUS
<1>1. StatesInv
  BY EmptyIs, ResultsAssumption DEF Init, StatesInv, NotWriting
<1>2. queue = [h \in Handles |-> [k \in Subrecs |->
                  IF Sub(k).org = "object" THEN EmptyQueue(2) ELSE EmptyQueue(0)]]
  BY DEF Init
<1>3. \A h \in Handles, k \in Subrecs : queue[h][k] \in {EmptyQueue(2), EmptyQueue(0)}
  BY <1>2
<1>4. RingOK(EmptyQueue(2)) /\ RingOK(EmptyQueue(0))
  <2>1. 2 \in 0..MaxBuffers /\ 0 \in 0..MaxBuffers
    BY ResultsAssumption
  <2>2. QED
    BY <2>1, EmptyQueueIs
<1>5. Rings(queue)
  BY <1>2 DEF Rings, Over
<1>6. RingsInv
  BY <1>3, <1>4, <1>5 DEF RingsInv
<1>7. QED
  BY <1>1, <1>6 DEF TypeInv

LEMMA TypeStep == TypeInv /\ [Next]_vars => TypeInv'
<1> SUFFICES ASSUME TypeInv, [Next]_vars PROVE TypeInv'
  OBVIOUS
<1>1. CASE NewState \/ EndState \/ \E k \in Subrecs : \E l \in 1..Lumps(Sub(k)) : WrtSubrec(k, l)
  BY <1>1, WritingTypes
<1>2. CASE \E k \in Subrecs : \E l \in 1..Lumps(Sub(k)) : \E st \in 1..MaxStates : RewriteSubrec(st, k, l)
  BY <1>2, RewriteTypes
<1>3. CASE \E st \in 1..MaxStates : Restart(st)
  BY <1>3, RestartTypes
<1>4. CASE \E h \in Handles : \E qty \in 0..MaxBuffers : SetBufferQty(h, qty)
  BY <1>4, BufferQtyTypes
<1>5. CASE \E h \in Handles : \E st \in 1..MaxStates, k \in Subrecs, malformed \in BOOLEAN :
               ReadResults(h, st, k, malformed)
  BY <1>5, ReadTypes
<1>6. CASE \E h \in Handles : QueryQtyStates(h)
  BY <1>6, QueryTypes
<1>7. CASE \E h \in Handles : \E st \in 1..MaxStates, class \in ClassNames :
               \E v \in Range(SubrecVars(class, Subrecs)) : MrGetResult(h, st, class, v)
  BY <1>7, MrGetResultTypes
<1>8. CASE UNCHANGED vars
  <2>1. UNCHANGED <<srec, disk, times, writing, known, queue, latest, clock>>
    BY <1>8 DEF vars
  <2>2. StatesInv' /\ RingsInv'
    BY <2>1, SameRings DEF TypeInv, StatesInv
  <2>3. QED
    BY <2>2 DEF TypeInv
<1>9. QED
  BY <1>1, <1>2, <1>3, <1>4, <1>5, <1>6, <1>7, <1>8 DEF Next

\* TypeOK, for any formats and however many states, buffers and variables: the
\* rings of both handles are never more than they should be, no state is in two
\* buffers, new_count counts the unused ones and the cursor is within the ring.
THEOREM TypeCorrect == Spec => []TypeOK
<1>1. Spec => []TypeInv
  BY TypeInit, TypeStep, PTL DEF Spec
<1>2. QED
  BY <1>1, TypeInvTypes, PTL
-----------------------------------------------------------------------------
(***************************************************************************)
(* Times.                                                                  *)
(***************************************************************************)
\* The times of the states, as a file or a handle's map has them, are in order.
Sorted(ts) ==
    /\ IsSeq(ts)
    /\ \A i \in 1..Len(ts) : ts[i] \in Nat
    /\ \A i, j \in 1..Len(ts) : i <= j => ts[i] <= ts[j]

\* No state has a time that is later than that of the next one would be.
TimesInv == Sorted(times) /\ \A i \in 1..Len(times) : times[i] <= (i + clock) \div 2

\* A handle knows of no state that is not complete.
KnownInv ==
    /\ Over(writing, Subrecs) \/ writing = NotWriting
    /\ \A h \in Handles : known[h] <= Complete

LEMMA MapIs ==
    ASSUME TypeInv, TimesInv, KnownInv, NEW h \in Handles
    PROVE  /\ Sorted(Smap(h)) /\ Len(Smap(h)) = known[h] /\ known[h] \in 0..Len(times)
           /\ \A i \in 1..known[h] : Smap(h)[i] = times[i]
<1> DEFINE n == known[h]
<1>1. n \in 0..Len(times) /\ IsSeq(times) /\ Len(times) \in Nat
  BY QuantitiesIs DEF TypeInv, StatesInv, KnownInv, IsSeq
<1> DEFINE s == Smap(h)
<1>2. s = SubSeq(times, 1, n)
  BY DEF Smap
<1> HIDE DEF n, s
<1>3. IsSeq(s) /\ Len(s) = n /\ \A i \in 1..n : s[i] = times[i]
  BY <1>1, <1>2, PrefixIs
<1>4. \A i \in 1..n : i \in 1..Len(times)
  BY <1>1
<1>5. Sorted(s)
  BY <1>3, <1>4 DEF Sorted, TimesInv
<1>6. QED
  BY <1>1, <1>3, <1>5 DEF n, s

\* STATE_OF_TIME
LEMMA StateOfTimeIs ==
    ASSUME NEW s, Sorted(s), NEW t \in Nat
    PROVE  LET r == StateOfTime(s, t)
           IN  IF s = << >> \/ t < s[1] \/ t > Last(s) THEN r = Invalid
               ELSE /\ r # Invalid /\ Range(r) \subseteq DOMAIN s
                    /\ s[r[1]] <= t /\ t <= s[r[2]]
                    /\ r[2] = r[1] + 1 \/ Len(s) = 1
<1> DEFINE n == Len(s)
           V == {j \in 0..n : \A k \in 1..j : t >= s[k]}
           i == Max(V)
           r == StateOfTime(s, t)
<1>1. n \in Nat /\ DOMAIN s = 1..n /\ (s = << >> <=> n = 0) /\ Last(s) = s[n]
  <2>1. n \in Nat /\ s = [k \in 1..n |-> s[k]]
    BY DEF Sorted, IsSeq
  <2>2. s \in Seq({s[k] : k \in 1..n})
    BY <2>1
  <2>3. QED
    BY <2>1, <2>2, EmptySeq DEF Last
<1>2. \A k \in 1..n : s[k] \in Nat
  BY DEF Sorted
<1>3. \A j, k \in 1..n : j <= k => s[j] <= s[k]
  BY DEF Sorted
<1>4. i \in V /\ \A j \in V : j <= i
  <2>1. V \in SUBSET (0..n) /\ 0 \in V
    BY <1>1
  <2> HIDE DEF V, n
  <2>2. QED
    BY <1>1, <2>1, MaxIs
<1>5. /\ i \in 0..n /\ \A k \in 1..i : s[k] <= t
      /\ i < n => t < s[i + 1]
  <2> DEFINE m == i
  <2>0. m \in V /\ \A j \in V : j <= m
    BY <1>4
  <2> HIDE DEF m
  <2>1. m \in 0..n /\ \A k \in 1..m : t >= s[k]
    BY <2>0
  <2>2. \A k \in 1..m : s[k] <= t
    BY <1>1, <1>2, <2>1
  <2>3. ASSUME m < n PROVE t < s[m + 1]
    <3>1. m + 1 \in 0..n /\ m + 1 \in 1..n /\ ~(m + 1 <= m)
      BY <1>1, <2>1, <2>3
    <3>2. m + 1 \notin V
      BY <2>0, <3>1
    <3>3. PICK k \in 1..m + 1 : ~(t >= s[k])
      BY <3>1, <3>2
    <3>4. k = m + 1
      BY <2>1, <3>3
    <3>5. QED
      BY <1>2, <3>1, <3>3, <3>4
  <2>4. QED
    BY <2>1, <2>2, <2>3 DEF m
<1>6. r = IF n > 1
          THEN IF i = 0 THEN Invalid ELSE IF i < n THEN <<i, i + 1>>
               ELSE IF t = s[i] THEN <<i - 1, i>> ELSE Invalid
          ELSE IF n = 1 /\ t = s[1] THEN <<1, 1>> ELSE Invalid
  BY DEF StateOfTime
<1> HIDE DEF r, i, V, n
<1>7. \A a, b : Range(<<a, b>>) = {a, b} /\ <<a, b>> # Invalid /\ <<a, b>>[1] = a /\ <<a, b>>[2] = b
  BY DEF Range, Invalid
<1>8. CASE n = 0
  BY <1>1, <1>6, <1>8 DEF r
<1>9. CASE n = 1
  <2>1. s[1] \in Nat /\ Last(s) = s[1] /\ 1 \in DOMAIN s
    BY <1>1, <1>2, <1>9
  <2>2. CASE t = s[1]
    <3>1. r = <<1, 1>>
      BY <1>6, <1>9, <2>2
    <3>2. QED
      BY <1>1, <1>7, <1>9, <2>1, <2>2, <3>1 DEF r, n
  <2>3. CASE t # s[1]
    <3>1. r = Invalid /\ (t < s[1] \/ t > s[1])
      BY <1>6, <1>9, <2>1, <2>3
    <3>2. QED
      BY <2>1, <3>1 DEF r
  <2>4. QED
    BY <2>2, <2>3
<1>10. CASE n > 1
  <2>0. 1 \in 1..n /\ n \in 1..n /\ s[1] \in Nat /\ s[n] \in Nat /\ s # << >>
    BY <1>1, <1>2, <1>10
  <2>1. CASE i = 0
    <3>1. r = Invalid /\ t < s[1]
      BY <1>1, <1>5, <1>6, <1>10, <2>1
    <3>2. QED
      BY <3>1 DEF r
  <2>2. CASE i # 0 /\ i < n
    <3>1. i \in 1..n /\ i + 1 \in 1..n /\ s[i] <= t /\ t < s[i + 1] /\ r = <<i, i + 1>>
      BY <1>1, <1>5, <1>6, <1>10, <2>2
    <3>2. s[1] <= s[i] /\ s[i + 1] <= s[n] /\ s[i] \in Nat /\ s[i + 1] \in Nat
      BY <1>1, <1>2, <1>3, <2>0, <3>1
    <3>3. ~(t < s[1]) /\ ~(t > Last(s)) /\ t <= s[i + 1]
      BY <1>1, <2>0, <3>1, <3>2
    <3>4. Range(r) \subseteq DOMAIN s /\ r # Invalid /\ r[1] = i /\ r[2] = i + 1
      BY <1>1, <1>7, <3>1
    <3>5. QED
      BY <2>0, <3>1, <3>3, <3>4 DEF r
  <2>3. CASE i = n
    <3>1. s[n] <= t /\ s[1] <= t
      BY <1>5, <2>0, <2>3
    <3>2. CASE t = s[n]
      <4>1. r = <<n - 1, n>> /\ n - 1 \in 1..n
        BY <1>1, <1>6, <1>10, <2>3, <3>2
      <4>2. s[n - 1] <= s[n] /\ ~(t < s[1]) /\ ~(t > Last(s)) /\ s[n - 1] <= t
        BY <1>1, <1>2, <1>3, <2>0, <3>1, <3>2, <4>1
      <4>3. Range(r) \subseteq DOMAIN s /\ r # Invalid /\ r[1] = n - 1 /\ r[2] = n
        BY <1>1, <1>7, <2>0, <4>1
      <4>4. r[2] = r[1] + 1 /\ t <= s[n]
        BY <1>1, <2>0, <3>2, <4>3
      <4>5. QED
        BY <2>0, <4>2, <4>3, <4>4 DEF r
    <3>3. CASE t # s[n]
      <4>1. r = Invalid /\ t > Last(s)
        BY <1>1, <1>6, <1>10, <2>0, <2>3, <3>1, <3>3
      <4>2. QED
        BY <4>1 DEF r
    <3>4. QED
      BY <3>2, <3>3
  <2>4. QED
    BY <1>1, <1>5, <2>1, <2>2, <2>3
<1>11. QED
  BY <1>1, <1>8, <1>9, <1>10
\* MULTIPLE_TIMES, of two states
LEMMA MultipleTimesIs ==
    ASSUME NEW s, NEW i, NEW j, MultipleTimes(s, <<i, j>>) # Invalid
    PROVE  MultipleTimes(s, <<i, j>>) = StateTime(s, i) \o StateTime(s, j)
<1>1. Range(<<i, j>>) = {i, j}
  BY DEF Range
<1>2. i \in DOMAIN s /\ j \in DOMAIN s
  BY <1>1 DEF MultipleTimes
<1>3. StateTime(s, i) = <<s[i]>> /\ StateTime(s, j) = <<s[j]>>
  BY <1>2 DEF StateTime
<1>4. MultipleTimes(s, <<i, j>>) = [k \in DOMAIN <<i, j>> |-> s[<<i, j>>[k]]]
  BY <1>1, <1>2 DEF MultipleTimes
<1>5. [k \in DOMAIN <<i, j>> |-> s[<<i, j>>[k]]] = <<s[i], s[j]>>
  OBVIOUS
<1>6. <<s[i]>> \o <<s[j]>> = <<s[i], s[j]>>
  <2> DEFINE a == s[i]
             b == s[j]
             S == {a, b}
  <2>1. <<a>> \in Seq(S) /\ <<b>> \in Seq(S) /\ Len(<<a>>) = 1 /\ Len(<<b>>) = 1
    OBVIOUS
  <2> DEFINE x == <<a>>
             y == <<b>>
             z == <<a, b>>
  <2>2. /\ x \in Seq(S) /\ y \in Seq(S) /\ Len(x) = 1 /\ Len(y) = 1 /\ x[1] = a /\ y[1] = b
        /\ z \in Seq(S) /\ Len(z) = 2 /\ z[1] = a /\ z[2] = b
    BY <2>1
  <2> HIDE DEF a, b, x, y, z, S
  <2>3. /\ x \o y \in Seq(S) /\ Len(x \o y) = 2
        /\ \A k \in 1..1 + 1 : (x \o y)[k] = IF k <= 1 THEN x[k] ELSE y[k - 1]
    BY <2>2, ConcatProperties
  <2>4. \A k \in 1..2 : (x \o y)[k] = z[k]
    BY <2>2, <2>3
  <2>5. x \o y = z
    BY <2>2, <2>3, <2>4, SeqEqual
  <2>6. <<a>> \o <<b>> = <<a, b>>
    BY <2>5 DEF x, y, z
  <2>7. QED
    BY <2>6 DEF a, b
<1>7. QED
  BY <1>3, <1>4, <1>5, <1>6

\* SERIES_TIMES: backward it is the series forward, reversed.
LEMMA SeriesTimesIs ==
    ASSUME NEW s, Sorted(s), NEW i \in Nat, NEW j \in Nat
    PROVE  SeriesTimes(s, i, j) = Reverse(SeriesTimes(s, j, i))
<1>1. CASE ~({i, j} \subseteq DOMAIN s)
  <2>1. SeriesTimes(s, i, j) = << >> /\ SeriesTimes(s, j, i) = << >>
    BY <1>1 DEF SeriesTimes, Invalid
  <2>2. Reverse(<< >>) = << >>
    BY DEF Reverse
  <2>3. QED
    BY <2>1, <2>2
<1>2. CASE {i, j} \subseteq DOMAIN s
  <2> DEFINE fore(a, b) == IF b >= a THEN 1 ELSE -1
             len(a, b)  == fore(a, b) * (b - a) + 1
             f(a, b)    == [k \in 1..len(a, b) |-> s[a + fore(a, b) * (k - 1)]]
  <2>1. SeriesTimes(s, i, j) = f(i, j) /\ SeriesTimes(s, j, i) = f(j, i)
    BY <1>2 DEF SeriesTimes
  <2>2. len(i, j) = len(j, i) /\ len(i, j) \in Nat /\ (i # j => fore(i, j) = -fore(j, i))
    OBVIOUS
  <2> DEFINE n == len(j, i)
             back == f(j, i)
  <2>3. back = [k \in 1..n |-> back[k]]
    OBVIOUS
  <2>4. \A k \in 1..n : back[k] = s[j + fore(j, i) * (k - 1)]
    OBVIOUS
  <2>5. Len(back) = n
    <3> HIDE DEF back, n
    <3>1. n \in Nat
      BY <2>2 DEF n
    <3>2. QED
      BY <2>3, <3>1, FunctionSeq
  <2>6. Reverse(back) = [k \in 1..n |-> back[n - k + 1]]
    <3> HIDE DEF back, n
    <3>1. QED
      BY <2>5 DEF Reverse
  <2>7. ASSUME NEW k \in 1..n PROVE s[i + fore(i, j) * (k - 1)] = back[n - k + 1]
    <3>1. n - k + 1 \in 1..n
      BY <2>2
    <3>2. i + fore(i, j) * (k - 1) = j + fore(j, i) * (n - k + 1 - 1)
      <4>1. CASE i = j
        BY <2>2, <4>1
      <4>2. CASE i < j
        BY <4>2
      <4>3. CASE j < i
        BY <4>3
      <4>4. QED
        BY <4>1, <4>2, <4>3
    <3>3. QED
      BY <2>4, <3>1, <3>2
  <2>8. f(i, j) = [k \in 1..n |-> s[i + fore(i, j) * (k - 1)]]
    BY <2>2
  <2>9. f(i, j) = Reverse(back)
    <3> HIDE DEF back, n, f
    <3>1. QED
      BY <2>6, <2>7, <2>8
  <2>10. QED
    BY <2>1, <2>9
<1>3. QED
  BY <1>1, <1>2

\* And forward it is what the files have.
LEMMA SeriesTimesFore ==
    ASSUME NEW s, NEW n \in Nat, DOMAIN s = 1..n, NEW ts, Sorted(ts), n <= Len(ts),
           \A k \in 1..n : s[k] = ts[k],
           NEW i \in Nat, NEW j \in Nat, i <= j, SeriesTimes(s, i, j) # Invalid
    PROVE  SeriesTimes(s, i, j) = SubSeq(ts, i, j)
<1>1. {i, j} \subseteq 1..n
  BY DEF SeriesTimes
<1>2. SeriesTimes(s, i, j) = [k \in 1..j - i + 1 |-> s[i + 1 * (k - 1)]]
  BY <1>1 DEF SeriesTimes
<1>3. ts \in Seq({ts[k] : k \in 1..Len(ts)}) /\ Len(ts) \in Nat
  BY DEF Sorted, IsSeq
<1>4. SubSeq(ts, i, j) = [k \in 1..j - i + 1 |-> ts[i + k - 1]]
  BY <1>1, <1>3
<1>5. \A k \in 1..j - i + 1 : s[i + 1 * (k - 1)] = ts[i + k - 1]
  <2>1. ASSUME NEW k \in 1..j - i + 1 PROVE s[i + 1 * (k - 1)] = ts[i + k - 1]
    <3>1. i + k - 1 \in 1..n /\ i + 1 * (k - 1) = i + k - 1
      BY <1>1
    <3>2. QED
      BY <3>1
  <2>2. QED
    BY <2>1
<1>6. QED
  BY <1>2, <1>4, <1>5

LEMMA TimesAreFound ==
    ASSUME TypeInv, TimesInv, KnownInv
    PROVE  TimesFound
<1> SUFFICES ASSUME NEW h \in Handles
             PROVE  LET smap == Smap(h)
                    IN  /\ \A i \in 0..MaxStates + 1, j \in 0..MaxStates + 1 :
                               /\ MultipleTimes(smap, <<i, j>>) # Invalid =>
                                      MultipleTimes(smap, <<i, j>>) = StateTime(smap, i) \o StateTime(smap, j)
                               /\ SeriesTimes(smap, i, j) = Reverse(SeriesTimes(smap, j, i))
                               /\ i <= j /\ SeriesTimes(smap, i, j) # Invalid =>
                                      SeriesTimes(smap, i, j) = SubSeq(times, i, j)
                        /\ \A t \in 0..MaxStates + MaxClock + 1 :
                               LET r == StateOfTime(smap, t)
                               IN  IF smap = << >> \/ t < smap[1] \/ t > Last(smap) THEN r = Invalid
                                   ELSE /\ r # Invalid /\ Range(r) \subseteq DOMAIN smap
                                        /\ smap[r[1]] <= t /\ t <= smap[r[2]]
                                        /\ r[2] = r[1] + 1 \/ Len(smap) = 1
  BY DEF TimesFound
<1> DEFINE s == Smap(h)
<1>1. /\ Sorted(s) /\ Len(s) = known[h] /\ known[h] \in 0..Len(times)
      /\ \A i \in 1..known[h] : s[i] = times[i]
  BY MapIs
<1>2. DOMAIN s = 1..known[h] /\ known[h] \in Nat /\ known[h] <= Len(times) /\ Sorted(times)
  <2>1. Len(times) \in Nat
    BY DEF TimesInv, Sorted, IsSeq
  <2>2. s = [i \in 1..Len(s) |-> s[i]]
    BY <1>1 DEF Sorted, IsSeq
  <2> HIDE DEF s
  <2>3. QED
    BY <1>1, <2>1, <2>2 DEF TimesInv
<1> HIDE DEF s
<1>3. ASSUME NEW i \in 0..MaxStates + 1, NEW j \in 0..MaxStates + 1
      PROVE  /\ MultipleTimes(s, <<i, j>>) # Invalid =>
                    MultipleTimes(s, <<i, j>>) = StateTime(s, i) \o StateTime(s, j)
             /\ SeriesTimes(s, i, j) = Reverse(SeriesTimes(s, j, i))
             /\ i <= j /\ SeriesTimes(s, i, j) # Invalid => SeriesTimes(s, i, j) = SubSeq(times, i, j)
  <2>1. i \in Nat /\ j \in Nat
    BY ResultsAssumption
  <2>2. MultipleTimes(s, <<i, j>>) # Invalid =>
            MultipleTimes(s, <<i, j>>) = StateTime(s, i) \o StateTime(s, j)
    BY MultipleTimesIs
  <2>3. SeriesTimes(s, i, j) = Reverse(SeriesTimes(s, j, i))
    BY <1>1, <2>1, SeriesTimesIs
  <2>4. i <= j /\ SeriesTimes(s, i, j) # Invalid => SeriesTimes(s, i, j) = SubSeq(times, i, j)
    <3> DEFINE n == known[h]
    <3>1. /\ n \in Nat /\ DOMAIN s = 1..n /\ n <= Len(times) /\ Sorted(times)
          /\ \A k \in 1..n : s[k] = times[k]
      BY <1>1, <1>2
    <3> HIDE DEF n
    <3>2. QED
      BY <2>1, <3>1, SeriesTimesFore
  <2>5. QED
    BY <2>2, <2>3, <2>4
<1>4. ASSUME NEW t \in 0..MaxStates + MaxClock + 1
      PROVE  LET r == StateOfTime(s, t)
             IN  IF s = << >> \/ t < s[1] \/ t > Last(s) THEN r = Invalid
                 ELSE /\ r # Invalid /\ Range(r) \subseteq DOMAIN s
                      /\ s[r[1]] <= t /\ t <= s[r[2]]
                      /\ r[2] = r[1] + 1 \/ Len(s) = 1
  BY <1>1, StateOfTimeIs, ResultsAssumption
<1>5. QED
  BY <1>3, <1>4 DEF s

-----------------------------------------------------------------------------
\* A state more, after all others; or fewer states.
LEMMA TimesStep ==
    ASSUME TypeInv, TimesInv, [Next]_vars
    PROVE  TimesInv'
<1>0. StatesInv /\ IsSeq(times) /\ clock \in Nat /\ Len(times) \in Nat /\ Len(disk) = Len(times)
  BY ResultsAssumption DEF TypeInv, StatesInv, IsSeq
<1>1. CASE times' = times /\ clock' \in {clock, clock + 1}
  <2>1. \A i \in 1..Len(times) : times[i] \in Nat /\ times[i] <= (i + clock) \div 2
    BY DEF TimesInv, Sorted
  <2>2. \A i \in 1..Len(times) : times[i] <= (i + clock') \div 2
    BY <1>0, <1>1, <2>1
  <2>3. Sorted(times')
    BY <1>1 DEF TimesInv
  <2>4. QED
    BY <1>1, <2>2, <2>3 DEF TimesInv
<1>2. CASE NewState
  <2> DEFINE n == Len(times)
             new == (n + 1 + clock) \div 2
  <2>1. times' = Append(times, new) /\ clock' = clock
    BY <1>0, <1>2 DEF NewState, NextTime
  <2> HIDE DEF new
  <2>2. /\ IsSeq(times') /\ Len(times') = n + 1 /\ times'[n + 1] = new
        /\ \A i \in 1..n : times'[i] = times[i]
    BY <1>0, <2>1, AppendIs
  <2>3. new \in Nat
    BY <1>0 DEF new
  <2>4. \A i \in 1..n : times[i] \in Nat /\ times[i] <= (i + clock) \div 2
    BY DEF TimesInv, Sorted
  <2>5. \A i \in 1..n : times[i] <= new
    <3>1. ASSUME NEW i \in 1..n PROVE times[i] <= new
      <4>1. (i + clock) \div 2 <= new
        BY <1>0 DEF new
      <4>2. (i + clock) \div 2 \in Int
        BY <1>0
      <4>3. QED
        BY <2>3, <2>4, <4>1, <4>2
    <3>2. QED
      BY <3>1
  <2>6. \A i \in 1..n + 1 : times'[i] \in Nat /\ times'[i] <= (i + clock') \div 2
    <3>1. ASSUME NEW i \in 1..n + 1 PROVE times'[i] \in Nat /\ times'[i] <= (i + clock) \div 2
      <4>1. CASE i \in 1..n
        BY <2>2, <2>4, <4>1
      <4>2. CASE i = n + 1
        <5>1. times'[i] = new
          BY <2>2, <4>2
        <5>2. new <= (i + clock) \div 2
          BY <1>0, <2>3, <4>2 DEF new
        <5>3. QED
          BY <2>3, <5>1, <5>2
      <4>3. QED
        BY <1>0, <4>1, <4>2
    <3>2. QED
      BY <2>1, <3>1
  <2>7. ASSUME NEW i \in 1..n + 1, NEW j \in 1..n + 1, i <= j PROVE times'[i] <= times'[j]
    <3>1. CASE j \in 1..n
      <4>1. i \in 1..n
        BY <1>0, <2>7, <3>1
      <4>2. times[i] <= times[j]
        BY <2>7, <3>1, <4>1 DEF TimesInv, Sorted
      <4>3. QED
        BY <2>2, <3>1, <4>1, <4>2
    <3>2. CASE j = n + 1 /\ i \in 1..n
      BY <2>2, <2>5, <3>2
    <3>3. CASE j = n + 1 /\ i = n + 1
      BY <2>2, <2>3, <3>3
    <3>4. QED
      BY <1>0, <3>1, <3>2, <3>3
  <2>8. Sorted(times')
    BY <2>2, <2>6, <2>7 DEF Sorted
  <2>9. QED
    BY <2>2, <2>6, <2>8 DEF TimesInv
<1>3. CASE \E st \in 1..MaxStates : Restart(st)
  <2>1. PICK st \in 1..MaxStates : Restart(st)
    BY <1>3
  <2> DEFINE n == st - 1
  <2>2. n \in 0..Len(times) /\ times' = SubSeq(times, 1, n) /\ clock' = clock + 1
    BY <1>0, <2>1, ResultsAssumption DEF Restart
  <2> HIDE DEF n
  <2>3. IsSeq(times') /\ Len(times') = n /\ \A i \in 1..n : times'[i] = times[i]
    BY <1>0, <2>2, PrefixIs
  <2>4. \A i \in 1..n : i \in 1..Len(times)
    BY <1>0, <2>2
  <2>5. Sorted(times')
    BY <2>3, <2>4 DEF Sorted, TimesInv
  <2>6. ASSUME NEW i \in 1..n PROVE times'[i] <= (i + clock') \div 2
    <3>1. times[i] \in Nat /\ times[i] <= (i + clock) \div 2
      BY <2>4 DEF TimesInv, Sorted
    <3>2. i \in Nat /\ (i + clock) \div 2 <= (i + clock + 1) \div 2
      BY <1>0, <2>4
    <3>3. times[i] <= (i + (clock + 1)) \div 2
      BY <1>0, <3>1, <3>2
    <3>4. QED
      BY <2>2, <2>3, <3>3
  <2>7. QED
    BY <2>3, <2>5, <2>6 DEF TimesInv
<1>4. CASE \/ EndState
           \/ \E k \in Subrecs : \E l \in 1..Lumps(Sub(k)) :
                  WrtSubrec(k, l) \/ \E st \in 1..MaxStates : RewriteSubrec(st, k, l)
           \/ \E h \in Handles :
                  \/ \E qty \in 0..MaxBuffers : SetBufferQty(h, qty)
                  \/ \E st \in 1..MaxStates, k \in Subrecs, malformed \in BOOLEAN :
                         ReadResults(h, st, k, malformed)
                  \/ QueryQtyStates(h)
                  \/ \E st \in 1..MaxStates, class \in ClassNames :
                         \E v \in Range(SubrecVars(class, Subrecs)) : MrGetResult(h, st, class, v)
           \/ UNCHANGED vars
  <2>1. times' = times /\ clock' \in {clock, clock + 1}
    BY <1>4 DEF EndState, WrtSubrec, RewriteSubrec, SetBufferQty, ReadResults, QueryQtyStates,
                MrGetResult, vars
  <2>2. QED
    BY <1>1, <2>1
<1>5. QED
  BY <1>2, <1>3, <1>4 DEF Next
-----------------------------------------------------------------------------
(***************************************************************************)
(* What the handles know of the states.                                    *)
(***************************************************************************)
LEMMA KnownReads ==
    ASSUME TypeInv, KnownInv, NEW h \in Handles, NEW n \in 0..Complete,
           known' = [known EXCEPT ![h] = n], UNCHANGED <<srec, disk, writing>>
    PROVE  KnownInv'
<1>1. known \in [Handles -> 0..MaxStates]
  BY DEF TypeInv, StatesInv
<1>2. \A g \in Handles : known'[g] = IF g = h THEN n ELSE known[g]
  BY <1>1
<1>3. Complete' = Complete
  BY DEF Complete
<1>4. n <= Complete
  BY QuantitiesIs DEF TypeInv
<1>5. \A g \in Handles : known'[g] <= Complete'
  BY <1>2, <1>3, <1>4 DEF KnownInv
<1>6. QED
  BY <1>5 DEF KnownInv, Over, Subrecs

LEMMA KnownStep ==
    ASSUME "restart" \notin App, TypeInv, KnownInv, [Next]_vars
    PROVE  KnownInv'
<1>0. /\ StatesInv /\ Complete \in 0..Len(disk) /\ Len(disk) \in Nat /\ IsSeq(disk)
      /\ known \in [Handles -> Nat] /\ \A h \in Handles : known[h] \in 0..Complete
  <2>1. /\ StatesInv /\ Complete \in 0..Len(disk) /\ Len(disk) \in Nat /\ IsSeq(disk)
        /\ known \in [Handles -> 0..MaxStates]
    BY QuantitiesIs DEF TypeInv, StatesInv, IsSeq
  <2>2. known \in [Handles -> Nat]
    BY <2>1, ResultsAssumption
  <2>3. QED
    BY <2>1, <2>2 DEF KnownInv
<1>1. CASE NewState
  <2>1. PICK x : disk' = Append(disk, x)
    BY <1>1 DEF NewState
  <2>2. Len(disk') = Len(disk) + 1
    BY <1>0, <2>1, AppendIs
  <2>3. Complete = Len(disk) /\ Complete' \in {Len(disk), Len(disk) + 1}
    BY <1>0, <1>1, <2>2 DEF NewState, Complete
  <2>4. known' = known /\ srec' = srec /\ writing' = [k \in Subrecs |-> 0]
    BY <1>1 DEF NewState
  <2>5. Over(writing', Subrecs)
    BY <2>4 DEF Over
  <2>6. \A h \in Handles : known'[h] <= Complete'
    BY <1>0, <2>3, <2>4
  <2>7. QED
    BY <2>4, <2>5, <2>6 DEF KnownInv, Subrecs
<1>2. CASE EndState
  <2>1. Complete' = Len(disk) /\ writing' = NotWriting
    BY <1>2 DEF EndState, Complete
  <2>2. known' = [known EXCEPT !["writer"] = Len(disk)]
    BY <1>2 DEF EndState
  <2>3. \A h \in Handles : known'[h] <= Complete'
    BY <1>0, <2>1, <2>2
  <2>4. QED
    BY <2>1, <2>3 DEF KnownInv
<1>3. CASE \E k \in Subrecs : \E l \in 1..Lumps(Sub(k)) :
               WrtSubrec(k, l) \/ \E st \in 1..MaxStates : RewriteSubrec(st, k, l)
  <2>1. PICK k \in Subrecs : \E l \in 1..Lumps(Sub(k)) :
               WrtSubrec(k, l) \/ \E st \in 1..MaxStates : RewriteSubrec(st, k, l)
    BY <1>3
  <2>2. PICK l \in 1..Lumps(Sub(k)) :
               WrtSubrec(k, l) \/ \E st \in 1..MaxStates : RewriteSubrec(st, k, l)
    BY <2>1
  <2>3. PICK st, w : disk' = [disk EXCEPT ![st] = w]
    BY <2>2 DEF WrtSubrec, RewriteSubrec
  <2>4. Len(disk') = Len(disk)
    <3>1. LET t == [disk EXCEPT ![st] = w] IN Len(t) = Len(disk)
      BY <1>0, ReplaceIs
    <3>2. QED
      BY <2>3, <3>1
  <2>5. srec' = srec /\ known' = known
    BY <2>2 DEF WrtSubrec, RewriteSubrec
  <2>6. CASE WrtSubrec(k, l)
    <3>1. Over(writing, Subrecs) /\ writing # NotWriting
      BY <2>6 DEF WrtSubrec, KnownInv
    <3>2. writing' = [writing EXCEPT ![k] = l]
      BY <2>6 DEF WrtSubrec
    <3>3. Over(writing', Subrecs) /\ DOMAIN writing' # {}
      BY <3>1, <3>2 DEF Over
    <3>4. writing' # NotWriting
      BY <3>3 DEF NotWriting
    <3>5. Complete' = Complete
      BY <2>4, <3>1, <3>4 DEF Complete
    <3>6. QED
      BY <2>5, <3>3, <3>5 DEF KnownInv, Subrecs
  <2>7. CASE \E i \in 1..MaxStates : RewriteSubrec(i, k, l)
    <3>1. writing' = writing
      BY <2>7 DEF RewriteSubrec
    <3>2. Complete' = Complete
      BY <2>4, <3>1 DEF Complete
    <3>3. QED
      BY <2>5, <3>1, <3>2 DEF KnownInv, Subrecs, Over
  <2>8. QED
    BY <2>2, <2>6, <2>7
<1>4. CASE \E st \in 1..MaxStates : Restart(st)
  <2>1. PICK st \in 1..MaxStates : Restart(st)
    BY <1>4
  <2> DEFINE n == st - 1
  <2>2. /\ n \in 0..Len(disk) /\ disk' = SubSeq(disk, 1, n) /\ writing' = NotWriting
        /\ known["reader"] <= n /\ known' = [known EXCEPT !["writer"] = n]
    <3>1. st \in 1..Len(disk) /\ known["reader"] < st /\ known["reader"] \in Nat
      BY <1>0, <2>1 DEF Restart, Handles
    <3>2. disk' = SubSeq(disk, 1, n) /\ writing' = NotWriting /\ known' = [known EXCEPT !["writer"] = n]
      BY <2>1 DEF Restart
    <3>3. QED
      BY <1>0, <3>1, <3>2
  <2> HIDE DEF n
  <2>3. Len(disk') = n
    BY <1>0, <2>2, PrefixIs
  <2>4. Complete' = n
    BY <2>2, <2>3 DEF Complete
  <2>5. \A h \in Handles : known'[h] <= n
    BY <1>0, <2>2 DEF Handles
  <2>6. QED
    BY <2>2, <2>4, <2>5 DEF KnownInv
<1>5. ASSUME NEW h \in Handles, NEW st \in Nat PROVE KnownFor(h, st) \in 0..Complete
  BY <1>0 DEF KnownFor
<1>6. CASE \E h \in Handles : \E st \in 1..MaxStates, k \in Subrecs, malformed \in BOOLEAN :
               ReadResults(h, st, k, malformed)
  <2>1. PICK h \in Handles, st \in 1..MaxStates : \E k \in Subrecs, malformed \in BOOLEAN :
               ReadResults(h, st, k, malformed)
    BY <1>6
  <2>2. /\ known' = [known EXCEPT ![h] = KnownFor(h, st)] /\ UNCHANGED <<srec, disk, writing>>
    BY <2>1 DEF ReadResults
  <2>3. KnownFor(h, st) \in 0..Complete
    BY <1>5, ResultsAssumption
  <2>4. QED
    BY <2>2, <2>3, KnownReads
<1>7. CASE \E h \in Handles : \E st \in 1..MaxStates, class \in ClassNames :
               \E v \in Range(SubrecVars(class, Subrecs)) : MrGetResult(h, st, class, v)
  <2>1. PICK h \in Handles, st \in 1..MaxStates : \E class \in ClassNames :
               \E v \in Range(SubrecVars(class, Subrecs)) : MrGetResult(h, st, class, v)
    BY <1>7
  <2>2. /\ known' = [known EXCEPT ![h] = KnownFor(h, st)] /\ UNCHANGED <<srec, disk, writing>>
    BY <2>1 DEF MrGetResult
  <2>3. KnownFor(h, st) \in 0..Complete
    BY <1>5, ResultsAssumption
  <2>4. QED
    BY <2>2, <2>3, KnownReads
<1>8. CASE \E h \in Handles : QueryQtyStates(h)
  <2>1. PICK h \in Handles : QueryQtyStates(h)
    BY <1>8
  <2>2. known' = [known EXCEPT ![h] = QtyStates(h)] /\ UNCHANGED <<srec, disk, writing>>
    BY <2>1 DEF QueryQtyStates
  <2>3. QtyStates(h) \in 0..Complete
    BY <1>0 DEF QtyStates
  <2>4. QED
    BY <2>2, <2>3, KnownReads
<1>9. CASE (\E h \in Handles : \E qty \in 0..MaxBuffers : SetBufferQty(h, qty)) \/ UNCHANGED vars
  <2>1. UNCHANGED <<srec, disk, writing, known>>
    BY <1>9 DEF SetBufferQty, vars
  <2>2. QED
    BY <2>1 DEF KnownInv, Complete, Over, Subrecs
<1>10. QED
  BY <1>1, <1>2, <1>3, <1>4, <1>6, <1>7, <1>8, <1>9 DEF Next

LEMMA TimesInit == Init => TimesInv /\ KnownInv
<1> SUFFICES ASSUME Init PROVE TimesInv /\ KnownInv
  OBVIOUS
<1>1. TimesInv
  BY EmptyIs DEF Init, TimesInv, Sorted
<1>2. Complete = 0 /\ writing = NotWriting /\ \A h \in Handles : known[h] = 0
  BY EmptyIs DEF Init, Complete, NotWriting
<1>3. QED
  BY <1>1, <1>2 DEF KnownInv

\* TimesFound, of a reader whose states are not taken back by a restart: whatever the
\* number of states and whenever the files are rewritten or restarted, the times it
\* asks for are the states' own, and a time is between those of its two states.
THEOREM TimesCorrect == "restart" \notin App => (Spec => []TimesFound)
<1> SUFFICES ASSUME "restart" \notin App PROVE Spec => []TimesFound
  OBVIOUS
<1> DEFINE I == TypeInv /\ TimesInv /\ KnownInv
<1>1. Init => I
  BY TypeInit, TimesInit
<1>2. I /\ [Next]_vars => I'
  BY TypeStep, TimesStep, KnownStep
<1>3. I => TimesFound
  BY TimesAreFound
<1>4. QED
  BY <1>1, <1>2, <1>3, PTL DEF Spec
-----------------------------------------------------------------------------
(***************************************************************************)
(* Sums and products, as far as they are needed: what comes to a number,   *)
(* and each by the one before it.                                          *)
(***************************************************************************)
Calculate(op, a, b) == IF op = "sum" THEN a + b ELSE a * b
Neutral(op) == IF op = "sum" THEN 0 ELSE 1

\* What FoldLeft goes by: the value of each set of positions.
Folding(it, op, f, n) ==
    it = [S \in SUBSET (1..n) |->
             IF S = {} THEN Neutral(op) ELSE Calculate(op, it[S \ {Max(S)}], f[Max(S)])]

\* The value of the first n.
Folded(op, f, n) == (CHOOSE it : Folding(it, op, f, n))[1..n]

LEMMA MaxOfMore ==
    ASSUME NEW n \in Nat, NEW S \in SUBSET (1..n + 1)
    PROVE  /\ n + 1 \in S => Max(S) = n + 1
           /\ S # {} => Max(S) \in S
<1>1. S \in SUBSET (0..n + 1)
  OBVIOUS
<1>2. S # {} => Max(S) \in S /\ \A w \in S : w <= Max(S)
  BY <1>1, MaxIs, n + 1 \in Nat
<1>3. ASSUME n + 1 \in S PROVE Max(S) = n + 1
  <2>1. Max(S) \in 1..n + 1 /\ n + 1 <= Max(S)
    BY <1>2, <1>3
  <2>2. QED
    BY <2>1
<1>4. QED
  BY <1>2, <1>3

LEMMA FoldingExists ==
    ASSUME NEW op, NEW f, NEW n \in Nat
    PROVE  \E it : Folding(it, op, f, n)
<1> DEFINE Bad == {k \in Nat : ~\E it : Folding(it, op, f, k)}
<1>1. SUFFICES ASSUME Bad # {} PROVE FALSE
  OBVIOUS
<1>2. PICK k \in Bad : \A j \in Bad : k <= j
  <2>1. Bad \in SUBSET Nat
    OBVIOUS
  <2> HIDE DEF Bad
  <2>2. QED
    BY <1>1, <2>1, MinIs
<1>3. k \in Nat /\ ~\E it : Folding(it, op, f, k)
  OBVIOUS
<1>4. CASE k = 0
  <2>1. SUBSET (1..0) = {{}}
    OBVIOUS
  <2>2. Folding([S \in SUBSET (1..0) |-> Neutral(op)], op, f, 0)
    BY <2>1 DEF Folding
  <2>3. QED
    BY <1>3, <1>4, <2>2
<1>5. CASE k # 0
  <2> DEFINE m == k - 1
  <2>1. m \in Nat /\ k = m + 1 /\ ~(k <= m)
    BY <1>3, <1>5
  <2>2. m \notin Bad
    <3> HIDE DEF Bad, m
    <3>1. QED
      BY <1>2, <2>1
  <2>3. PICK g : Folding(g, op, f, m)
    BY <2>1, <2>2
  <2> HIDE DEF m, Bad
  <2> DEFINE val(S) == IF k \in S THEN Calculate(op, g[S \ {k}], f[k]) ELSE g[S]
             h == [S \in SUBSET (1..k) |-> val(S)]
  <2>4. ASSUME NEW S \in SUBSET (1..k)
        PROVE  val(S) = IF S = {} THEN Neutral(op) ELSE Calculate(op, h[S \ {Max(S)}], f[Max(S)])
    <3>1. CASE k \in S
      <4>1. Max(S) = k /\ S \ {k} \in SUBSET (1..k) /\ k \notin S \ {k} /\ S # {}
        BY <2>1, <3>1, MaxOfMore
      <4>2. h[S \ {k}] = g[S \ {k}]
        BY <4>1
      <4> HIDE DEF h
      <4>3. QED
        BY <3>1, <4>1, <4>2
    <3>2. CASE k \notin S
      <4>1. S \in SUBSET (1..m)
        BY <2>1, <3>2
      <4>2. g[S] = IF S = {} THEN Neutral(op) ELSE Calculate(op, g[S \ {Max(S)}], f[Max(S)])
        BY <2>3, <4>1 DEF Folding
      <4>3. S \ {Max(S)} \in SUBSET (1..k) /\ k \notin S \ {Max(S)}
        BY <3>2
      <4>4. h[S \ {Max(S)}] = g[S \ {Max(S)}]
        BY <4>3
      <4> HIDE DEF h
      <4>5. QED
        BY <3>2, <4>2, <4>4
    <3>3. QED
      BY <3>1, <3>2
  <2>5. h = [S \in SUBSET (1..k) |->
                IF S = {} THEN Neutral(op) ELSE Calculate(op, h[S \ {Max(S)}], f[Max(S)])]
    <3>1. \A S \in SUBSET (1..k) :
              h[S] = IF S = {} THEN Neutral(op) ELSE Calculate(op, h[S \ {Max(S)}], f[Max(S)])
      BY <2>4
    <3>2. h = [S \in SUBSET (1..k) |-> h[S]]
      OBVIOUS
    <3> HIDE DEF h, val
    <3>3. QED
      BY <3>1, <3>2
  <2> HIDE DEF h
  <2>6. Folding(h, op, f, k)
    BY <2>5 DEF Folding
  <2>7. QED
    BY <1>3, <2>6
<1>6. QED
  BY <1>4, <1>5

\* The value of the first k by that of those before.
Steps(it, op, f, k) ==
    /\ k > 0 => it[1..k] = Calculate(op, it[1..k - 1], f[k])
    /\ k = 0 => it[1..k] = Neutral(op)

LEMMA FoldingNext ==
    ASSUME NEW op, NEW f, NEW n \in Nat, NEW it, Folding(it, op, f, n), NEW k \in 0..n
    PROVE  Steps(it, op, f, k)
<1>1. 1..k \in SUBSET (1..n)
  OBVIOUS
<1>2. k = 0 => 1..k = {}
  OBVIOUS
<1>3. ASSUME k > 0 PROVE Max(1..k) = k /\ 1..k # {} /\ (1..k) \ {k} = 1..k - 1
  <2> DEFINE j == k - 1
  <2>1. j \in Nat /\ k = j + 1 /\ k \in 1..k
    BY <1>3
  <2> HIDE DEF j
  <2>2. Max(1..k) = k
    BY <2>1, MaxOfMore
  <2>3. 1..k # {}
    BY <2>1
  <2>4. (1..k) \ {k} = 1..k - 1
    <3>1. k \in Nat
      OBVIOUS
    <3>2. QED
      BY <3>1
  <2>5. QED
    BY <2>2, <2>3, <2>4
<1>4. it[1..k] = IF 1..k = {} THEN Neutral(op)
                 ELSE Calculate(op, it[(1..k) \ {Max(1..k)}], f[Max(1..k)])
  BY <1>1 DEF Folding
<1>5. QED
  BY <1>2, <1>3, <1>4 DEF Steps

\* The value of the first m is the same within more.
LEMMA FoldingSame ==
    ASSUME NEW op, NEW f, NEW n \in Nat, NEW it, Folding(it, op, f, n),
           NEW m \in 0..n, NEW jt, Folding(jt, op, f, m)
    PROVE  it[1..m] = jt[1..m]
<1> DEFINE Bad == {k \in 0..m : it[1..k] # jt[1..k]}
<1>1. SUFFICES ASSUME Bad # {} PROVE FALSE
  OBVIOUS
<1>2. PICK k \in Bad : \A j \in Bad : k <= j
  <2>1. Bad \in SUBSET Nat
    OBVIOUS
  <2> HIDE DEF Bad
  <2>2. QED
    BY <1>1, <2>1, MinIs
<1>3. k \in 0..m /\ it[1..k] # jt[1..k] /\ m \in Nat /\ k \in 0..n
  OBVIOUS
<1> HIDE DEF Bad
<1>4. Steps(it, op, f, k)
  BY <1>3, FoldingNext
<1>5. Steps(jt, op, f, k)
  BY <1>3, FoldingNext
<1>6. k > 0
  BY <1>3, <1>4, <1>5 DEF Steps
<1>7. k - 1 \in 0..m /\ ~(k <= k - 1)
  BY <1>3, <1>6
<1>8. k - 1 \notin Bad
  <2> HIDE DEF Bad
  <2>1. QED
    BY <1>2, <1>7
<1>9. it[1..k - 1] = jt[1..k - 1]
  BY <1>7, <1>8 DEF Bad
<1>10. QED
  BY <1>3, <1>4, <1>5, <1>6, <1>9 DEF Steps

LEMMA FoldedIs ==
    ASSUME NEW op, NEW f, NEW n \in Nat
    PROVE  /\ n > 0 => Folded(op, f, n) = Calculate(op, Folded(op, f, n - 1), f[n])
           /\ n = 0 => Folded(op, f, n) = Neutral(op)
<1> DEFINE it == CHOOSE it : Folding(it, op, f, n)
           m  == IF n = 0 THEN 0 ELSE n - 1
           jt == CHOOSE jt : Folding(jt, op, f, m)
<1>1. m \in Nat /\ m \in 0..n /\ n \in 0..n
  OBVIOUS
<1>2. Folding(it, op, f, n) /\ Folding(jt, op, f, m)
  <2> HIDE DEF m
  <2>1. (\E x : Folding(x, op, f, n)) /\ \E x : Folding(x, op, f, m)
    BY <1>1, FoldingExists
  <2>2. QED
    BY <2>1
<1>3. Folded(op, f, n) = it[1..n] /\ Folded(op, f, m) = jt[1..m]
  BY DEF Folded
<1> HIDE DEF it, jt
<1>4. it[1..m] = jt[1..m]
  <2> HIDE DEF m
  <2>1. QED
    BY <1>1, <1>2, FoldingSame
<1>5. Steps(it, op, f, n)
  BY <1>1, <1>2, FoldingNext
<1>6. QED
  BY <1>3, <1>4, <1>5 DEF Steps
\* Only the first n count.
LEMMA FoldedSame ==
    ASSUME NEW op, NEW n \in Nat, NEW f, NEW g, \A i \in 1..n : f[i] = g[i]
    PROVE  Folded(op, f, n) = Folded(op, g, n)
<1>1. ASSUME NEW it, NEW S \in SUBSET (1..n), S # {}
      PROVE  Calculate(op, it[S \ {Max(S)}], f[Max(S)]) = Calculate(op, it[S \ {Max(S)}], g[Max(S)])
  <2>1. S \in SUBSET (0..n)
    OBVIOUS
  <2>2. Max(S) \in S
    BY <1>1, <2>1, MaxIs
  <2>3. f[Max(S)] = g[Max(S)]
    BY <2>2
  <2>4. QED
    BY <2>3
<1>2. ASSUME NEW it PROVE Folding(it, op, f, n) <=> Folding(it, op, g, n)
  <2> DEFINE F(S) == IF S = {} THEN Neutral(op) ELSE Calculate(op, it[S \ {Max(S)}], f[Max(S)])
             G(S) == IF S = {} THEN Neutral(op) ELSE Calculate(op, it[S \ {Max(S)}], g[Max(S)])
  <2>1. \A S \in SUBSET (1..n) : F(S) = G(S)
    BY <1>1
  <2>2. Folding(it, op, f, n) <=> it = [S \in SUBSET (1..n) |-> F(S)]
    BY DEF Folding
  <2>3. Folding(it, op, g, n) <=> it = [S \in SUBSET (1..n) |-> G(S)]
    BY DEF Folding
  <2> HIDE DEF F, G
  <2>4. [S \in SUBSET (1..n) |-> F(S)] = [S \in SUBSET (1..n) |-> G(S)]
    BY <2>1
  <2>5. QED
    BY <2>2, <2>3, <2>4
<1>3. (CHOOSE it : Folding(it, op, f, n)) = (CHOOSE it : Folding(it, op, g, n))
  BY <1>2
<1>4. QED
  BY <1>3 DEF Folded

\* A value of natural numbers is one.
LEMMA FoldedNat ==
    ASSUME NEW op \in {"sum", "product"}, NEW n \in Nat, NEW f, \A i \in 1..n : f[i] \in Nat
    PROVE  \A k \in 0..n : Folded(op, f, k) \in Nat
<1> DEFINE Bad == {k \in 0..n : Folded(op, f, k) \notin Nat}
<1>1. SUFFICES ASSUME Bad # {} PROVE FALSE
  OBVIOUS
<1>2. PICK k \in Bad : \A j \in Bad : k <= j
  <2>1. Bad \in SUBSET Nat
    OBVIOUS
  <2> HIDE DEF Bad
  <2>2. QED
    BY <1>1, <2>1, MinIs
<1>3. k \in 0..n /\ k \in Nat /\ Folded(op, f, k) \notin Nat
  OBVIOUS
<1> HIDE DEF Bad
<1>4. /\ k > 0 => Folded(op, f, k) = Calculate(op, Folded(op, f, k - 1), f[k])
      /\ k = 0 => Folded(op, f, k) = Neutral(op)
  BY <1>3, FoldedIs
<1>5. CASE k = 0
  BY <1>3, <1>4, <1>5 DEF Neutral
<1>6. CASE k > 0
  <2>1. k - 1 \in 0..n /\ ~(k <= k - 1) /\ k \in 1..n
    BY <1>3, <1>6
  <2>2. Folded(op, f, k - 1) \in Nat
    BY <1>2, <2>1 DEF Bad
  <2>3. f[k] \in Nat
    BY <2>1
  <2>4. Calculate(op, Folded(op, f, k - 1), f[k]) \in Nat
    BY <2>2, <2>3 DEF Calculate
  <2>5. QED
    BY <1>3, <1>4, <1>6, <2>4
<1>7. QED
  BY <1>3, <1>5, <1>6

\* A sum of natural numbers grows.
LEMMA SumGrows ==
    ASSUME NEW n \in Nat, NEW f, \A i \in 1..n : f[i] \in Nat,
           NEW j \in 1..n, NEW k \in j..n
    PROVE  Folded("sum", f, j - 1) + f[j] <= Folded("sum", f, k)
<1> DEFINE F(i) == Folded("sum", f, i)
           Bad  == {i \in j..n : ~(F(j - 1) + f[j] <= F(i))}
<1>1. \A i \in 0..n : F(i) \in Nat
  BY FoldedNat
<1>2. \A i \in 1..n : F(i) = F(i - 1) + f[i]
  <2>1. ASSUME NEW i \in 1..n PROVE F(i) = F(i - 1) + f[i]
    <3>1. i \in Nat /\ i > 0
      OBVIOUS
    <3>2. Folded("sum", f, i) = Calculate("sum", Folded("sum", f, i - 1), f[i])
      BY <3>1, FoldedIs
    <3>3. QED
      BY <3>2 DEF Calculate
  <2>2. QED
    BY <2>1
<1> HIDE DEF F
<1>3. SUFFICES ASSUME Bad # {} PROVE FALSE
  BY DEF F
<1>4. PICK i \in Bad : \A m \in Bad : i <= m
  <2>1. Bad \in SUBSET Nat
    OBVIOUS
  <2> HIDE DEF Bad
  <2>2. QED
    BY <1>3, <2>1, MinIs
<1>5. i \in j..n /\ ~(F(j - 1) + f[j] <= F(i)) /\ i \in 1..n /\ f[i] \in Nat /\ f[j] \in Nat
  OBVIOUS
<1>6. F(i) = F(i - 1) + f[i] /\ F(i - 1) \in Nat /\ F(j - 1) \in Nat /\ F(i) \in Nat
  BY <1>1, <1>2, <1>5
<1>7. i # j
  BY <1>5, <1>6
<1>8. i - 1 \in j..n /\ ~(i <= i - 1)
  BY <1>5, <1>7
<1>9. F(j - 1) + f[j] <= F(i - 1)
  <2>1. i - 1 \notin Bad
    <3> HIDE DEF Bad
    <3>1. QED
      BY <1>4, <1>8
  <2>2. QED
    BY <1>8, <2>1
<1>10. QED
  BY <1>5, <1>6, <1>9

LEMMA SumIs ==
    ASSUME NEW n \in Nat, NEW s, DOMAIN s = 1..n
    PROVE  Sum(s) = Folded("sum", s, n)
<1> DEFINE body(it) == [S \in SUBSET (DOMAIN s) |->
                           IF S = {} THEN 0 ELSE it[S \ {Max(S)}] + s[Max(S)]]
<1>1. Sum(s) = (CHOOSE it : it = body(it))[DOMAIN s]
  BY DEF Sum, FoldLeft, MapThenFoldSet
<1>2. ASSUME NEW it PROVE Folding(it, "sum", s, n) <=> it = body(it)
  BY DEF Folding, Calculate, Neutral
<1> HIDE DEF body
<1>3. (CHOOSE it : it = body(it)) = (CHOOSE it : Folding(it, "sum", s, n))
  BY <1>2
<1>4. QED
  BY <1>1, <1>3 DEF Folded

LEMMA ProductIs ==
    ASSUME NEW n \in Nat, NEW s, DOMAIN s = 1..n
    PROVE  Product(s) = Folded("product", s, n)
<1> DEFINE body(it) == [S \in SUBSET (DOMAIN s) |->
                           IF S = {} THEN 1 ELSE it[S \ {Max(S)}] * s[Max(S)]]
<1>1. Product(s) = (CHOOSE it : it = body(it))[DOMAIN s]
  BY DEF Product, FoldLeft, MapThenFoldSet
<1>2. ASSUME NEW it PROVE Folding(it, "product", s, n) <=> it = body(it)
  BY DEF Folding, Calculate, Neutral
<1> HIDE DEF body
<1>3. (CHOOSE it : it = body(it)) = (CHOOSE it : Folding(it, "product", s, n))
  BY <1>2
<1>4. QED
  BY <1>1, <1>3 DEF Folded
LEMMA SumNat ==
    ASSUME NEW n \in Nat, NEW s, DOMAIN s = 1..n, \A i \in 1..n : s[i] \in Nat
    PROVE  Sum(s) \in Nat
<1>1. Sum(s) = Folded("sum", s, n)
  BY SumIs
<1>2. \A k \in 0..n : Folded("sum", s, k) \in Nat
  BY FoldedNat
<1>3. QED
  BY <1>1, <1>2

LEMMA ProductNat ==
    ASSUME NEW n \in Nat, NEW s, DOMAIN s = 1..n, \A i \in 1..n : s[i] \in Nat
    PROVE  Product(s) \in Nat
<1>1. Product(s) = Folded("product", s, n)
  BY ProductIs
<1>2. \A k \in 0..n : Folded("product", s, k) \in Nat
  BY FoldedNat
<1>3. QED
  BY <1>1, <1>2

-----------------------------------------------------------------------------
(***************************************************************************)
(* The metrics of a subrecord.                                             *)
(***************************************************************************)
LEMMA TypeSizeIs == \A type : TypeSize(type) \in Nat
BY DEF TypeSize

LEMMA FlatQtyNat ==
    ASSUME NEW v \in DOMAIN Svars, Svars[v].agg # "vec_array"
    PROVE  FlatQty(Svars[v]) \in Nat
<1> DEFINE def == Svars[v]
<1>1. def.agg \in {"scalar", "vector", "array"} /\ def.dims \in Seq(Nat) /\ def.comps \in Seq(DOMAIN Svars)
  BY SvarAssumption DEF Aggregates
<1> HIDE DEF def
<1>2. Len(def.comps) \in Nat
  BY <1>1
<1>3. Product(def.dims) \in Nat
  <2> DEFINE d == def.dims
  <2>1. Len(d) \in Nat /\ DOMAIN d = 1..Len(d) /\ \A i \in 1..Len(d) : d[i] \in Nat
    BY <1>1
  <2> HIDE DEF d
  <2>2. Product(d) \in Nat
    BY <2>1, ProductNat
  <2>3. QED
    BY <2>2 DEF d
<1>4. FlatQty(def) \in Nat
  BY <1>1, <1>2, <1>3 DEF FlatQty
<1>5. QED
  BY <1>4 DEF def

LEMMA AtomQtyNat ==
    ASSUME NEW v \in DOMAIN Svars
    PROVE  AtomQty(Svars, v) \in Nat
<1>1. CASE Svars[v].agg # "vec_array"
  BY <1>1, FlatQtyNat DEF AtomQty
<1>2. CASE Svars[v].agg = "vec_array"
  <2> DEFINE c == Svars[v].comps
             d == Svars[v].dims
             s == [k \in DOMAIN c |-> Product(d) * FlatQty(Svars[c[k]])]
  <2>1. /\ c \in Seq(DOMAIN Svars) /\ d \in Seq(Nat)
        /\ \A i \in DOMAIN c : Svars[c[i]].agg # "vec_array"
    BY <1>2, SvarAssumption
  <2>2. AtomQty(Svars, v) = Sum(s)
    BY <1>2 DEF AtomQty
  <2> HIDE DEF c, d
  <2>3. Len(c) \in Nat /\ DOMAIN c = 1..Len(c) /\ \A i \in DOMAIN c : c[i] \in DOMAIN Svars
    BY <2>1
  <2>4. Product(d) \in Nat
    <3>1. Len(d) \in Nat /\ DOMAIN d = 1..Len(d) /\ \A i \in 1..Len(d) : d[i] \in Nat
      BY <2>1
    <3>2. QED
      BY <3>1, ProductNat
  <2>5. \A k \in DOMAIN c : s[k] \in Nat
    <3>1. ASSUME NEW k \in DOMAIN c PROVE s[k] \in Nat
      <4>1. FlatQty(Svars[c[k]]) \in Nat
        BY <2>1, <2>3, FlatQtyNat
      <4>2. Product(d) * FlatQty(Svars[c[k]]) \in Nat
        BY <2>4, <4>1
      <4>3. QED
        BY <4>2
    <3>2. QED
      BY <3>1
  <2>6. DOMAIN s = 1..Len(c)
    BY <2>3
  <2> HIDE DEF s
  <2>7. Sum(s) \in Nat
    BY <2>3, <2>5, <2>6, SumNat
  <2>8. QED
    BY <2>2, <2>7
<1>3. QED
  BY <1>1, <1>2

\* A subrecord of a format, without its metrics.
Raw(sub) ==
    \E f \in DOMAIN Formats : \E k \in DOMAIN Formats[f] : sub = Formats[f][k]

LEMMA RawIs ==
    ASSUME NEW sub, Raw(sub)
    PROVE  /\ sub.org \in Organizations
           /\ sub.svars \in Seq(DOMAIN Svars) /\ sub.svars # << >>
           /\ sub.blocks \in Seq({b \in [start : Nat, stop : Nat] : b.start <= b.stop})
           /\ sub.org = "object" =>
                  \A i \in DOMAIN sub.svars : Svars[sub.svars[i]].type = Svars[sub.svars[1]].type
           /\ sub.super = "surface" =>
                  \A j \in 1..MoQty(sub.super, sub.blocks) :
                      sub.facets[FlatBlocks(sub.blocks)[j]] \in Nat
<1>1. PICK f \in DOMAIN Formats : \E k \in DOMAIN Formats[f] : sub = Formats[f][k]
  BY DEF Raw
<1>2. PICK k \in DOMAIN Formats[f] : sub = Formats[f][k]
  BY <1>1
<1>3. QED
  BY <1>2, FormatAssumption

LEMMA SvarsAre ==
    ASSUME NEW sub, Raw(sub)
    PROVE  /\ Len(sub.svars) \in Nat /\ DOMAIN sub.svars = 1..Len(sub.svars)
           /\ \A i \in DOMAIN sub.svars : sub.svars[i] \in DOMAIN Svars
<1> DEFINE v == sub.svars
<1>1. v \in Seq(DOMAIN Svars)
  BY RawIs
<1> HIDE DEF v
<1>2. Len(v) \in Nat /\ DOMAIN v = 1..Len(v) /\ \A i \in DOMAIN v : v[i] \in DOMAIN Svars
  BY <1>1
<1>3. QED
  BY <1>2 DEF v

LEMMA MoQtyNat ==
    ASSUME NEW sub, Raw(sub)
    PROVE  MoQty(sub.super, sub.blocks) \in Nat
<1> DEFINE b == sub.blocks
           s == [k \in DOMAIN b |-> b[k].stop - b[k].start + 1]
<1>1. b \in Seq({r \in [start : Nat, stop : Nat] : r.start <= r.stop})
  BY RawIs
<1> HIDE DEF b
<1>2. Len(b) \in Nat /\ DOMAIN b = 1..Len(b)
      /\ \A k \in 1..Len(b) : b[k].start \in Nat /\ b[k].stop \in Nat /\ b[k].start <= b[k].stop
  BY <1>1
<1>3. DOMAIN s = 1..Len(b) /\ \A k \in 1..Len(b) : s[k] \in Nat
  BY <1>2
<1>4. MoQty(sub.super, b) = IF sub.super = "mesh" THEN 1 ELSE Sum(s)
  BY DEF MoQty
<1> HIDE DEF s
<1>5. Sum(s) \in Nat
  BY <1>2, <1>3, SumNat
<1>6. QED
  BY <1>4, <1>5 DEF b

LEMMA LumpAtomsNat ==
    ASSUME NEW sub, Raw(sub), NEW i \in DOMAIN sub.svars
    PROVE  LumpAtomsOf(Svars, sub, i) \in Nat
<1> DEFINE n == MoQty(sub.super, sub.blocks)
           atoms == AtomQty(Svars, sub.svars[i])
           s == [j \in 1..n |-> atoms * sub.facets[FlatBlocks(sub.blocks)[j]]]
<1>1. n \in Nat
  BY MoQtyNat
<1>2. atoms \in Nat
  <2>1. sub.svars[i] \in DOMAIN Svars
    BY SvarsAre
  <2>2. QED
    BY <2>1, AtomQtyNat
<1>3. LumpAtomsOf(Svars, sub, i) = IF sub.super # "surface" THEN atoms
                                   ELSE IF sub.flags[i] = "per_facet" THEN Sum(s) ELSE n * atoms
  BY DEF LumpAtomsOf
<1>4. sub.super = "surface" => \A j \in 1..n : sub.facets[FlatBlocks(sub.blocks)[j]] \in Nat
  BY RawIs
<1> HIDE DEF n, atoms
<1>5. DOMAIN s = 1..n /\ (sub.super = "surface" => \A j \in 1..n : s[j] \in Nat)
  BY <1>1, <1>2, <1>4
<1> HIDE DEF s
<1>6. sub.super = "surface" => Sum(s) \in Nat
  BY <1>1, <1>5, SumNat
<1>7. n * atoms \in Nat
  BY <1>1, <1>2
<1>8. QED
  BY <1>2, <1>3, <1>6, <1>7

\* What the words of an object-ordered subrecord are in terms of its lump's.
LEMMA MetricsAre ==
    ASSUME NEW sub, Raw(sub)
    PROVE  LET m == SetMetrics(Svars, sub)
               w == TypeSize(Svars[sub.svars[1]].type)
               n == MoQty(sub.super, sub.blocks)
           IN  /\ DOMAIN m = {"lump_atoms", "lump_sizes", "lump_offsets", "size"} /\ m.size \in Nat
               /\ sub.org = "object" =>
                      /\ m.lump_atoms[1] \in Nat /\ m.lump_sizes[1] = m.lump_atoms[1] * w
                      /\ m.size = IF sub.super = "surface" THEN m.lump_sizes[1] ELSE m.lump_sizes[1] * n
<1> DEFINE m == SetMetrics(Svars, sub)
           width(i) == TypeSize(Svars[sub.svars[i]].type)
           n == MoQty(sub.super, sub.blocks)
           vars_ == DOMAIN sub.svars
           lumps == [i \in vars_ |-> LumpAtomsOf(Svars, sub, i)]
           lump  == Sum(lumps)
           atoms == [i \in vars_ |-> n * AtomQty(Svars, sub.svars[i])]
           sizes == [i \in vars_ |-> atoms[i] * width(i)]
           len == Len(sub.svars)
<1>1. n \in Nat
  BY MoQtyNat
<1>2. len \in Nat /\ vars_ = 1..len /\ \A i \in vars_ : sub.svars[i] \in DOMAIN Svars
  BY SvarsAre
<1>3. \A i \in vars_ : width(i) \in Nat /\ width(1) \in Nat
  BY TypeSizeIs
<1>4. width(1) \in Nat
  BY TypeSizeIs
<1>5. lump \in Nat
  <2>1. \A i \in vars_ : lumps[i] \in Nat
    BY LumpAtomsNat
  <2>2. DOMAIN lumps = 1..len
    BY <1>2
  <2> HIDE DEF lumps, len
  <2>3. QED
    BY <1>2, <2>1, <2>2, SumNat
<1>6. \A i \in vars_ : sizes[i] \in Nat
  <2>1. ASSUME NEW i \in vars_ PROVE sizes[i] \in Nat
    <3> DEFINE a == AtomQty(Svars, sub.svars[i])
    <3>1. a \in Nat /\ width(i) \in Nat
      BY <1>2, <1>3, AtomQtyNat
    <3>2. sizes[i] = n * a * width(i)
      OBVIOUS
    <3> HIDE DEF n, a, width, sizes
    <3>3. QED
      BY <1>1, <3>1, <3>2
  <2>2. QED
    BY <2>1
<1>7. Sum(sizes) \in Nat
  <2>1. DOMAIN sizes = 1..len
    BY <1>2
  <2> HIDE DEF sizes, len
  <2>2. QED
    BY <1>2, <1>6, <2>1, SumNat
<1>8. m = IF sub.org = "object"
          THEN [lump_atoms |-> <<lump>>, lump_sizes |-> <<lump * width(1)>>, lump_offsets |-> << >>,
                size |-> IF sub.super = "surface" THEN lump * width(1) ELSE lump * width(1) * n]
          ELSE [lump_atoms |-> atoms, lump_sizes |-> sizes,
                lump_offsets |-> LumpOffsets(atoms, sizes), size |-> Sum(sizes)]
  BY DEF SetMetrics
<1> HIDE DEF m, width, n, lump, atoms, sizes
<1>9. CASE sub.org = "object"
  <2>1. lump * width(1) \in Nat /\ lump * width(1) * n \in Nat
    BY <1>1, <1>4, <1>5
  <2>2. /\ DOMAIN m = {"lump_atoms", "lump_sizes", "lump_offsets", "size"}
        /\ m.lump_atoms[1] = lump /\ m.lump_sizes[1] = lump * width(1)
        /\ m.size = IF sub.super = "surface" THEN lump * width(1) ELSE lump * width(1) * n
    BY <1>8, <1>9
  <2>3. QED
    BY <1>5, <2>1, <2>2 DEF m, width, n
<1>10. CASE sub.org # "object"
  <2>1. DOMAIN m = {"lump_atoms", "lump_sizes", "lump_offsets", "size"} /\ m.size \in Nat
    BY <1>7, <1>8, <1>10
  <2>2. QED
    BY <1>10, <2>1 DEF m
<1>11. QED
  BY <1>9, <1>10
-----------------------------------------------------------------------------
(***************************************************************************)
(* Where the subrecords are in a record.                                   *)
(***************************************************************************)
\* The format of a family is one of Formats, with the metrics; and the records of its
\* states have the words for it.
FormatInv ==
    /\ \E f \in DOMAIN Formats : srec = WithMetrics(Formats[f])
    /\ \A st \in 1..Len(disk) : DOMAIN disk[st] = 1..RecordSize

\* A subrecord of the format: what it was defined with, and its metrics.
LEMMA SubIs ==
    ASSUME NEW f \in DOMAIN Formats, srec = WithMetrics(Formats[f]), NEW k \in DOMAIN srec
    PROVE  LET raw == Formats[f][k]
               m   == SetMetrics(Svars, raw)
           IN  /\ Raw(raw)
               /\ srec[k].org = raw.org /\ srec[k].svars = raw.svars
               /\ srec[k].super = raw.super /\ srec[k].blocks = raw.blocks
               /\ srec[k].lump_atoms = m.lump_atoms /\ srec[k].lump_sizes = m.lump_sizes
               /\ srec[k].size = m.size
               /\ srec[k].offset = Sum([j \in 1..k - 1 |-> SetMetrics(Svars, Formats[f][j]).size])
<1> DEFINE raws == Formats[f]
           raw == raws[k]
           m == SetMetrics(Svars, raw)
           metrics == [j \in DOMAIN raws |-> SetMetrics(Svars, raws[j])]
           off == Sum([j \in 1..k - 1 |-> metrics[j].size])
<1>1. /\ DOMAIN srec = DOMAIN raws /\ k \in DOMAIN raws
      /\ srec[k] = [org |-> raw.org, svars |-> raw.svars, super |-> raw.super, class |-> raw.class,
                    blocks |-> raw.blocks, flags |-> raw.flags, facets |-> raw.facets,
                    offset |-> off, size |-> metrics[k].size,
                    lump_atoms |-> metrics[k].lump_atoms, lump_sizes |-> metrics[k].lump_sizes,
                    lump_offsets |-> metrics[k].lump_offsets]
  BY DEF WithMetrics
<1>2. metrics[k] = m
  BY <1>1
<1>3. Raw(raw)
  BY <1>1 DEF Raw
<1>4. raws \in Seq(Range(raws))
  BY FormatAssumption
<1>5. Len(raws) \in Nat /\ DOMAIN raws = 1..Len(raws)
  <2> HIDE DEF raws
  <2>1. QED
    BY <1>4
<1>6. Sum([j \in 1..k - 1 |-> metrics[j].size])
          = Sum([j \in 1..k - 1 |-> SetMetrics(Svars, raws[j]).size])
  <2>1. \A j \in 1..k - 1 : j \in DOMAIN raws
    BY <1>1, <1>5
  <2>2. \A j \in 1..k - 1 : metrics[j] = SetMetrics(Svars, raws[j])
    BY <2>1
  <2> HIDE DEF metrics
  <2>3. [j \in 1..k - 1 |-> metrics[j].size] = [j \in 1..k - 1 |-> SetMetrics(Svars, raws[j]).size]
    BY <2>2
  <2>4. QED
    BY <2>3
<1> HIDE DEF raw, m, off, metrics
<1>7. /\ srec[k].org = raw.org /\ srec[k].svars = raw.svars
      /\ srec[k].super = raw.super /\ srec[k].blocks = raw.blocks
      /\ srec[k].lump_atoms = m.lump_atoms /\ srec[k].lump_sizes = m.lump_sizes
      /\ srec[k].size = m.size /\ srec[k].offset = off
  BY <1>1, <1>2
<1>8. QED
  BY <1>3, <1>6, <1>7 DEF raw, m, off

\* Each subrecord has its words, and no other subrecord has them.
LEMMA PlacesAre ==
    ASSUME FormatInv
    PROVE  /\ RecordSize \in Nat
           /\ \A k \in Subrecs :
                  /\ Sub(k).offset \in Nat /\ Sub(k).size \in Nat
                  /\ Sub(k).offset + Sub(k).size <= RecordSize
           /\ \A j, k \in Subrecs :
                  \/ j = k
                  \/ Sub(j).offset + Sub(j).size <= Sub(k).offset
                  \/ Sub(k).offset + Sub(k).size <= Sub(j).offset
<1>1. PICK f \in DOMAIN Formats : srec = WithMetrics(Formats[f])
  BY DEF FormatInv
<1> DEFINE raws == Formats[f]
           n == Len(raws)
           size == [j \in 1..n |-> SetMetrics(Svars, raws[j]).size]
           F(i) == Folded("sum", size, i)
<1>2. n \in Nat /\ DOMAIN raws = 1..n
  <2>1. raws \in Seq(Range(raws))
    BY FormatAssumption
  <2> HIDE DEF raws
  <2>2. QED
    BY <2>1
<1>3. DOMAIN srec = 1..n /\ Subrecs = 1..n
  BY <1>1, <1>2 DEF WithMetrics, Subrecs
<1>4. \A k \in 1..n : size[k] \in Nat /\ Sub(k).size = size[k]
  <2>1. ASSUME NEW k \in 1..n PROVE size[k] \in Nat /\ Sub(k).size = size[k]
    <3>1. Raw(raws[k]) /\ srec[k].size = SetMetrics(Svars, raws[k]).size
      BY <1>1, <1>3, SubIs
    <3>2. SetMetrics(Svars, raws[k]).size \in Nat
      BY <3>1, MetricsAre
    <3>3. QED
      BY <3>1, <3>2 DEF Sub
  <2>2. QED
    BY <2>1
<1>5. \A k \in 1..n : Sub(k).offset = F(k - 1)
  <2>1. ASSUME NEW k \in 1..n PROVE Sub(k).offset = F(k - 1)
    <3> DEFINE m == k - 1
               part == [j \in 1..m |-> SetMetrics(Svars, raws[j]).size]
    <3>1. Sub(k).offset = Sum(part)
      BY <1>1, <1>3, SubIs DEF Sub
    <3>2. m \in Nat /\ \A j \in 1..m : j \in 1..n
      BY <1>2
    <3>3. \A j \in 1..m : part[j] = size[j]
      BY <3>2
    <3>4. DOMAIN part = 1..m
      OBVIOUS
    <3> HIDE DEF part, m, size
    <3>5. Sum(part) = Folded("sum", part, m)
      BY <3>2, <3>4, SumIs
    <3>6. Folded("sum", part, m) = Folded("sum", size, m)
      BY <3>2, <3>3, FoldedSame
    <3>7. QED
      BY <3>1, <3>5, <3>6 DEF m
  <2>2. QED
    BY <2>1
<1>6. RecordSize = F(n)
  <2> DEFINE all == [k \in Subrecs |-> Sub(k).size]
  <2>1. DOMAIN all = 1..n /\ \A k \in 1..n : all[k] = size[k]
    BY <1>3, <1>4
  <2>2. RecordSize = Sum(all)
    BY DEF RecordSize
  <2> HIDE DEF all, size, n
  <2>3. Sum(all) = Folded("sum", all, n)
    BY <1>2, <2>1, SumIs
  <2>4. Folded("sum", all, n) = Folded("sum", size, n)
    BY <1>2, <2>1, FoldedSame
  <2>5. QED
    BY <2>2, <2>3, <2>4
<1> HIDE DEF size, n
<1>7. \A i \in 0..n : F(i) \in Nat
  BY <1>2, <1>4, FoldedNat
<1>8. ASSUME NEW j \in 1..n, NEW k \in j..n PROVE F(j - 1) + size[j] <= F(k)
  BY <1>2, <1>4, SumGrows
<1> HIDE DEF F
<1>9. \A k \in 1..n : Sub(k).offset \in Nat /\ Sub(k).size \in Nat
                      /\ Sub(k).offset + Sub(k).size <= RecordSize
  <2>1. ASSUME NEW k \in 1..n
        PROVE  Sub(k).offset \in Nat /\ Sub(k).size \in Nat
               /\ Sub(k).offset + Sub(k).size <= RecordSize
    <3>1. n \in k..n /\ k - 1 \in 0..n
      BY <1>2
    <3>2. F(k - 1) + size[k] <= F(n) /\ F(k - 1) \in Nat
      BY <1>7, <1>8, <3>1
    <3>3. QED
      BY <1>4, <1>5, <1>6, <3>2
  <2>2. QED
    BY <2>1
<1>10. ASSUME NEW j \in 1..n, NEW k \in 1..n, j < k
       PROVE  Sub(j).offset + Sub(j).size <= Sub(k).offset
  <2>1. k - 1 \in j..n
    BY <1>2, <1>10
  <2>2. F(j - 1) + size[j] <= F(k - 1)
    BY <1>8, <2>1
  <2>3. QED
    BY <1>4, <1>5, <2>2
<1>11. RecordSize \in Nat
  BY <1>2, <1>6, <1>7
<1>12. QED
  <2>1. ASSUME NEW j \in 1..n, NEW k \in 1..n
        PROVE  \/ j = k
               \/ Sub(j).offset + Sub(j).size <= Sub(k).offset
               \/ Sub(k).offset + Sub(k).size <= Sub(j).offset
    <3>1. j = k \/ j < k \/ k < j
      OBVIOUS
    <3>2. QED
      BY <1>10, <3>1
  <2>2. QED
    BY <1>3, <1>9, <1>11, <2>1
-----------------------------------------------------------------------------
(***************************************************************************)
(* A lump of an object-ordered subrecord is written over its own words.    *)
(***************************************************************************)
\* Words that are in the place of a subrecord, and the same for others' of a record.
InPlace(k, i) == Sub(k).offset < i /\ i <= Sub(k).offset + Sub(k).size

LEMMA LumpIs ==
    ASSUME FormatInv, NEW k \in ObjectOrdered, NEW l \in 1..Lumps(Sub(k)), l <= Len(Sub(k).svars)
    PROVE  LET sub == Sub(k)
               qty == IF sub.super = "surface" THEN sub.lump_atoms[1] ELSE sub.lump_atoms[1] * (l - l + 1)
               w   == TypeSize(Svars[sub.svars[l]].type)
           IN  /\ qty \in Nat /\ w \in Nat /\ LumpPlace(sub, l) \in Nat
               /\ sub.offset <= LumpPlace(sub, l)
               /\ LumpPlace(sub, l) + qty * w <= sub.offset + sub.size
<1>1. PICK f \in DOMAIN Formats : srec = WithMetrics(Formats[f])
  BY DEF FormatInv
<1> DEFINE sub == Sub(k)
           raw == Formats[f][k]
           m   == SetMetrics(Svars, raw)
           n   == MoQty(raw.super, raw.blocks)
           w   == TypeSize(Svars[raw.svars[1]].type)
           a   == m.lump_atoms[1]
<1>2. /\ Raw(raw) /\ sub.org = raw.org /\ sub.svars = raw.svars /\ sub.super = raw.super
      /\ sub.blocks = raw.blocks /\ sub.lump_atoms = m.lump_atoms
      /\ sub.lump_sizes = m.lump_sizes /\ sub.size = m.size /\ sub.org = "object"
  BY <1>1, SubIs DEF ObjectOrdered, Subrecs, Sub
<1> HIDE DEF raw
<1>3. /\ n \in Nat /\ w \in Nat /\ a \in Nat /\ m.lump_sizes[1] = a * w
      /\ m.size = IF raw.super = "surface" THEN m.lump_sizes[1] ELSE m.lump_sizes[1] * n
  BY <1>2, MoQtyNat, MetricsAre, TypeSizeIs
<1>4. Svars[sub.svars[l]].type = Svars[raw.svars[1]].type
  <2>1. Len(raw.svars) \in Nat /\ DOMAIN raw.svars = 1..Len(raw.svars)
    BY <1>2, SvarsAre
  <2>2. l \in DOMAIN raw.svars
    <3>1. l \in Nat /\ 1 <= l
      BY <1>2, <1>3 DEF Lumps
    <3>2. QED
      BY <1>2, <2>1, <3>1
  <2>3. QED
    BY <1>2, <2>2, RawIs
<1>5. sub.offset \in Nat
  BY PlacesAre DEF ObjectOrdered
<1>6. Lumps(sub) = IF raw.super = "surface" THEN 1 ELSE n
  BY <1>2 DEF Lumps
<1>7. LumpPlace(sub, l) = sub.offset + m.lump_sizes[1] * (l - 1)
  BY <1>2 DEF LumpPlace
<1> DEFINE qty == IF sub.super = "surface" THEN sub.lump_atoms[1] ELSE sub.lump_atoms[1] * (l - l + 1)
           off == sub.offset
           place == LumpPlace(sub, l)
<1>8. l \in Nat /\ 1 <= l /\ l <= Lumps(sub)
  BY <1>3, <1>6
<1>9. qty = a
  BY <1>2, <1>3, <1>8
<1> HIDE DEF a, w, n, m
<1>10. CASE raw.super = "surface"
  <2>1. l = 1 /\ sub.size = a * w
    BY <1>2, <1>3, <1>6, <1>8, <1>10
  <2>2. m.lump_sizes[1] * (l - 1) = 0 /\ a * w \in Nat
    BY <1>3, <2>1
  <2>3. place = off
    BY <1>5, <1>7, <2>2
  <2> HIDE DEF place, qty, off, sub
  <2>4. qty \in Nat /\ place \in Nat /\ off <= place /\ place + qty * w <= off + sub.size
    BY <1>3, <1>5, <1>9, <2>1, <2>2, <2>3 DEF off
  <2>5. QED
    BY <1>3, <1>4, <2>4 DEF w, place, qty, off, sub
<1>11. CASE raw.super # "surface"
  <2> DEFINE x == a * w
  <2>1. x \in Nat /\ sub.size = x * n /\ l <= n /\ place = off + x * (l - 1)
    BY <1>2, <1>3, <1>6, <1>7, <1>8, <1>11
  <2> HIDE DEF x
  <2>2. x * (l - 1) + x <= x * n /\ x * (l - 1) \in Nat
    <3>1. x * (l - 1) + x = x * l /\ x * (l - 1) \in Nat
      BY <1>8, <2>1
    <3>2. x * l <= x * n
      BY <1>3, <1>8, <2>1
    <3>3. QED
      BY <3>1, <3>2
  <2>3. qty * w = x
    BY <1>9 DEF x
  <2> HIDE DEF place, qty, off, sub
  <2>4. qty \in Nat /\ place \in Nat /\ off <= place /\ place + qty * w <= off + sub.size
    BY <1>3, <1>5, <1>9, <2>1, <2>2, <2>3 DEF off
  <2>5. QED
    BY <1>3, <1>4, <2>4 DEF w, place, qty, off, sub
<1>12. QED
  BY <1>10, <1>11

\* ToWords: so many words for each atom.
LEMMA WordsAre ==
    ASSUME NEW data, NEW qty \in Nat, NEW w \in Nat
    PROVE  Len(ToWords(SubSeq(data, 1, qty), w)) = qty * w
<1> DEFINE s == SubSeq(data, 1, qty)
<1>1. Len(s) = qty
  <2>1. s = [i \in 1..qty |-> data[i]]
    OBVIOUS
  <2>2. s = [i \in 1..qty |-> s[i]]
    BY <2>1
  <2> HIDE DEF s
  <2>3. QED
    BY <2>2, FunctionSeq
<1> HIDE DEF s
<1> DEFINE n == Len(s) * w
           t == ToWords(s, w)
<1>2. n \in Nat /\ n = qty * w
  BY <1>1
<1>3. t = [i \in 1..n |-> t[i]]
  BY DEF ToWords
<1> HIDE DEF t, n
<1>4. Len(t) = n
  BY <1>2, <1>3, FunctionSeq
<1>5. QED
  BY <1>2, <1>4 DEF s, t

\* mc_wrt_subrec and mc_rewrite_subrec keep the length of a record.
LEMMA RecordKept ==
    ASSUME NEW record, NEW k, NEW start, NEW stop, NEW data
    PROVE  DOMAIN WriteLumps(record, k, start, stop, data) = DOMAIN record
BY DEF WriteLumps, PutWords

LEMMA OthersKept ==
    ASSUME FormatInv, NEW k \in ObjectOrdered, NEW l \in 1..Lumps(Sub(k)), MayWrite(k, l, l),
           NEW record, NEW data, NEW i \in DOMAIN record, ~InPlace(k, i), i \in Nat
    PROVE  WriteLumps(record, k, l, l, data)[i] = record[i]
<1> DEFINE sub == Sub(k)
           qty == IF sub.super = "surface" THEN sub.lump_atoms[1] ELSE sub.lump_atoms[1] * (l - l + 1)
           w   == TypeSize(Svars[sub.svars[l]].type)
           place == LumpPlace(sub, l)
           new == ToWords(SubSeq(data, 1, qty), w)
<1>1. sub.org = "object"
  BY DEF ObjectOrdered
<1>2. l <= Len(sub.svars)
  BY <1>1 DEF MayWrite
<1>3. /\ qty \in Nat /\ w \in Nat /\ place \in Nat /\ sub.offset <= place
      /\ place + qty * w <= sub.offset + sub.size
  BY <1>2, LumpIs
<1>4. WriteLumps(record, k, l, l, data) = PutWords(record, place, new)
  BY <1>1 DEF WriteLumps
<1>5. Len(new) = qty * w
  BY <1>3, WordsAre
<1>6. sub.offset \in Nat /\ sub.size \in Nat
  BY PlacesAre DEF ObjectOrdered
<1>7. ~(i > place /\ i <= place + Len(new))
  <2>1. qty * w \in Nat
    BY <1>3
  <2> HIDE DEF place, new, qty, w
  <2>2. QED
    BY <1>3, <1>5, <1>6, <2>1 DEF InPlace
<1> HIDE DEF place, new
<1>8. QED
  BY <1>4, <1>7 DEF PutWords
-----------------------------------------------------------------------------
(***************************************************************************)
(* The records keep their length, as the formats say.                      *)
(***************************************************************************)
LEMMA FormatInit == Init => FormatInv
BY EmptyIs DEF Init, FormatInv

LEMMA SameFormat ==
    ASSUME FormatInv, srec' = srec, \A st \in 1..Len(disk') : DOMAIN disk'[st] = 1..RecordSize
    PROVE  FormatInv'
<1>1. RecordSize' = RecordSize
  BY DEF RecordSize, Subrecs, Sub
<1>2. QED
  BY <1>1 DEF FormatInv

LEMMA FormatStep ==
    ASSUME TypeInv, FormatInv, [Next]_vars
    PROVE  FormatInv'
<1>0. IsSeq(disk) /\ Len(disk) \in Nat /\ \A st \in 1..Len(disk) : DOMAIN disk[st] = 1..RecordSize
  BY DEF TypeInv, StatesInv, IsSeq, FormatInv
<1>1. CASE NewState
  <2> DEFINE x == Hole(RecordSize)
  <2>1. disk' = Append(disk, x) /\ srec' = srec
    BY <1>1 DEF NewState
  <2>2. DOMAIN x = 1..RecordSize
    BY DEF Hole
  <2> HIDE DEF x
  <2>3. /\ Len(disk') = Len(disk) + 1 /\ disk'[Len(disk) + 1] = x
        /\ \A st \in 1..Len(disk) : disk'[st] = disk[st]
    BY <1>0, <2>1, AppendIs
  <2>4. \A st \in 1..Len(disk') : st \in 1..Len(disk) \/ st = Len(disk) + 1
    BY <1>0, <2>3
  <2>5. \A st \in 1..Len(disk') : DOMAIN disk'[st] = 1..RecordSize
    BY <1>0, <2>2, <2>3, <2>4
  <2>6. QED
    BY <2>1, <2>5, SameFormat
<1>2. ASSUME NEW st \in 1..Len(disk), NEW w, DOMAIN w = DOMAIN disk[st], srec' = srec,
             disk' = [disk EXCEPT ![st] = w]
      PROVE  FormatInv'
  <2>1. LET t == [disk EXCEPT ![st] = w]
        IN  Len(t) = Len(disk) /\ (st \in 1..Len(disk) => t[st] = w)
            /\ \A i \in 1..Len(disk) : i # st => t[i] = disk[i]
    BY <1>0, ReplaceIs
  <2>2. Len(disk') = Len(disk) /\ disk'[st] = w /\ \A i \in 1..Len(disk) : i # st => disk'[i] = disk[i]
    BY <1>2, <2>1
  <2>3. \A i \in 1..Len(disk') : DOMAIN disk'[i] = 1..RecordSize
    BY <1>0, <1>2, <2>2
  <2>4. QED
    BY <1>2, <2>3, SameFormat
<1>3. CASE \E k \in Subrecs : \E l \in 1..Lumps(Sub(k)) : WrtSubrec(k, l)
  <2>1. PICK k \in Subrecs : \E l \in 1..Lumps(Sub(k)) : WrtSubrec(k, l)
    BY <1>3
  <2>2. PICK l \in 1..Lumps(Sub(k)) : WrtSubrec(k, l)
    BY <2>1
  <2> DEFINE st == Len(disk)
             start == writing[k] + 1
             w == WriteLumps(disk[st], k, start, l, Data(<<st, clock>>, k, start, l))
  <2>3. st \in 1..Len(disk) /\ srec' = srec
    BY <2>2 DEF WrtSubrec, TypeInv, StatesInv, IsSeq
  <2>4. disk' = [disk EXCEPT ![st] = w]
    BY <2>2 DEF WrtSubrec
  <2>5. DOMAIN w = DOMAIN disk[st]
    BY RecordKept
  <2> HIDE DEF w, st
  <2>6. QED
    BY <1>2, <2>3, <2>4, <2>5
<1>4. CASE \E k \in Subrecs : \E l \in 1..Lumps(Sub(k)) : \E st \in 1..MaxStates : RewriteSubrec(st, k, l)
  <2>1. PICK k \in Subrecs : \E l \in 1..Lumps(Sub(k)) : \E st \in 1..MaxStates : RewriteSubrec(st, k, l)
    BY <1>4
  <2>2. PICK l \in 1..Lumps(Sub(k)) : \E st \in 1..MaxStates : RewriteSubrec(st, k, l)
    BY <2>1
  <2>3. PICK st \in 1..MaxStates : RewriteSubrec(st, k, l)
    BY <2>2
  <2> DEFINE w == WriteLumps(disk[st], k, l, l, Data(<<st, clock + 1>>, k, l, l))
  <2>4. st \in 1..Len(disk) /\ srec' = srec
    <3>1. st \in 1..Complete /\ Complete \in 0..Len(disk)
      BY <2>3, QuantitiesIs DEF RewriteSubrec, TypeInv
    <3>2. QED
      BY <1>0, <2>3, <3>1 DEF RewriteSubrec
  <2>5. disk' = [disk EXCEPT ![st] = w]
    BY <2>3 DEF RewriteSubrec
  <2>6. DOMAIN w = DOMAIN disk[st]
    BY RecordKept
  <2> HIDE DEF w
  <2>7. QED
    BY <1>2, <2>4, <2>5, <2>6
<1>5. CASE \E st \in 1..MaxStates : Restart(st)
  <2>1. PICK st \in 1..MaxStates : Restart(st)
    BY <1>5
  <2> DEFINE n == st - 1
  <2>2. n \in 0..Len(disk) /\ disk' = SubSeq(disk, 1, n) /\ srec' = srec
    BY <1>0, <2>1 DEF Restart
  <2> HIDE DEF n
  <2>3. Len(disk') = n /\ \A i \in 1..n : disk'[i] = disk[i] /\ i \in 1..Len(disk)
    BY <1>0, <2>2, PrefixIs
  <2>4. QED
    BY <1>0, <2>2, <2>3, SameFormat
<1>6. CASE \/ EndState
           \/ \E h \in Handles :
                  \/ \E qty \in 0..MaxBuffers : SetBufferQty(h, qty)
                  \/ \E st \in 1..MaxStates, k \in Subrecs, malformed \in BOOLEAN :
                         ReadResults(h, st, k, malformed)
                  \/ QueryQtyStates(h)
                  \/ \E st \in 1..MaxStates, class \in ClassNames :
                         \E v \in Range(SubrecVars(class, Subrecs)) : MrGetResult(h, st, class, v)
           \/ UNCHANGED vars
  <2>1. disk' = disk /\ srec' = srec
    BY <1>6 DEF EndState, SetBufferQty, ReadResults, QueryQtyStates, MrGetResult, vars
  <2>2. QED
    BY <1>0, <2>1, SameFormat
<1>7. QED
  BY <1>1, <1>3, <1>4, <1>5, <1>6 DEF Next

-----------------------------------------------------------------------------
(***************************************************************************)
(* The rings hold what the state files have.                               *)
(***************************************************************************)
\* What the state files have of a subrecord, state by state.
Stored(k) == [st \in 1..Complete |-> SubrecWords(st, k)]

\* A buffer that claims a state has its words W.
Holds(q, W) ==
    /\ FreeIsEmpty(q)
    /\ \A i \in 1..Len(q.numbers) : q.numbers[i] > 0 =>
           q.numbers[i] \in DOMAIN W /\ q.data[i] = W[q.numbers[i]]

\* The inductive invariant: more than the buffers of states asked for, all of them.
BuffersInv == \A h \in Handles, k \in ObjectOrdered : Holds(queue[h][k], Stored(k))

LEMMA HoldsLess ==
    ASSUME NEW q, NEW r, NEW W, Holds(q, W), NothingNew(q, r), FreeIsEmpty(r)
    PROVE  Holds(r, W)
BY DEF Holds, NothingNew

\* A state is read, of a subrecord that has words or of one that has none.
LEMMA HoldsRead ==
    ASSUME NEW q, NEW r, NEW W, NEW st \in DOMAIN W, RingOK(q), Holds(q, W),
           ReadInto(q, r, st, W[st]), Len(r.numbers) = Len(q.numbers), FreeIsEmpty(r),
           W[st] = << >> => \A s \in DOMAIN W : W[s] = << >>
    PROVE  Holds(r, W)
<1>1. ASSUME NEW i \in 1..Len(r.numbers), r.numbers[i] > 0
      PROVE  r.numbers[i] \in DOMAIN W /\ r.data[i] = W[r.numbers[i]]
  <2>1. CASE r.numbers[i] = q.numbers[i] /\ r.data[i] = q.data[i]
    BY <1>1, <2>1 DEF Holds
  <2>2. CASE r.numbers[i] = st /\ r.data[i] = IF W[st] = << >> THEN q.data[i] ELSE W[st]
    <3>1. CASE W[st] # << >>
      BY <2>2, <3>1
    <3>2. CASE W[st] = << >>
      <4>1. q.numbers[i] = Unused \/ q.numbers[i] > 0
        BY ResultsAssumption DEF RingOK
      <4>2. q.data[i] = << >>
        BY <3>2, <4>1 DEF Holds, FreeIsEmpty, NoData
      <4>3. QED
        BY <2>2, <3>2, <4>2
    <3>3. QED
      BY <3>1, <3>2
  <2>3. QED
    BY <2>1, <2>2 DEF ReadInto
<1>2. QED
  BY <1>1 DEF Holds

LEMMA HoldsSame ==
    ASSUME NEW q, NEW W, NEW V, Holds(q, W),
           \A i \in 1..Len(q.numbers) : q.numbers[i] > 0 =>
               q.numbers[i] \in DOMAIN V /\ V[q.numbers[i]] = W[q.numbers[i]]
    PROVE  Holds(q, V)
BY DEF Holds
\* The words of a subrecord that a state has, of the record.
LEMMA WordsIs ==
    ASSUME FormatInv, NEW k \in Subrecs, NEW st \in 1..Len(disk)
    PROVE  SubrecWords(st, k) = [i \in 1..Sub(k).size |-> disk[st][Sub(k).offset + i]]
<1> DEFINE off == Sub(k).offset
           size == Sub(k).size
           d == disk[st]
<1>1. off \in Nat /\ size \in Nat
  BY PlacesAre
<1>2. ~(st > Len(disk))
  OBVIOUS
<1>3. SubrecWords(st, k) = SubSeq(d, off + 1, off + size)
  BY <1>2 DEF SubrecWords, GetWords
<1> HIDE DEF off, size, d
<1>4. SubSeq(d, off + 1, off + size) = [i \in 1..size |-> d[off + i]]
  BY <1>1
<1>5. QED
  BY <1>3, <1>4 DEF off, size, d

\* A subrecord without words has none in any state.
LEMMA NoWords ==
    ASSUME FormatInv, TypeInv, NEW k \in Subrecs, NEW st \in DOMAIN Stored(k), Stored(k)[st] = << >>
    PROVE  \A s \in DOMAIN Stored(k) : Stored(k)[s] = << >>
<1> DEFINE size == Sub(k).size
           off == Sub(k).offset
<1>1. \A s \in 1..Complete : s \in 1..Len(disk) /\ Stored(k)[s] = SubrecWords(s, k)
  <2>1. Complete \in 0..Len(disk) /\ Len(disk) \in Nat
    BY QuantitiesIs DEF TypeInv, StatesInv, IsSeq
  <2>2. QED
    BY <2>1 DEF Stored
<1>2. \A s \in 1..Complete : Stored(k)[s] = [i \in 1..size |-> disk[s][off + i]]
  BY <1>1, WordsIs
<1>3. DOMAIN Stored(k) = 1..Complete
  BY DEF Stored
<1> HIDE DEF size, off
<1>4. DOMAIN Stored(k)[st] = 1..size /\ DOMAIN << >> = {}
  BY <1>2, <1>3, EmptyIs
<1>5. 1..size = {}
  BY <1>4
<1>6. ASSUME NEW s \in 1..Complete PROVE Stored(k)[s] = << >>
  <2>1. Stored(k)[s] = [i \in {} |-> disk[s][off + i]]
    BY <1>2, <1>5
  <2>2. [i \in {} |-> disk[s][off + i]] = Stored(k)[st]
    BY <1>2, <1>3, <1>5
  <2>3. QED
    BY <2>1, <2>2
<1>7. QED
  BY <1>3, <1>6

\* A state keeps the words of a subrecord.
Keeps(st, k) ==
    /\ st \in 1..Complete /\ st \in 1..Complete'
    /\ SubrecWords(st, k)' = SubrecWords(st, k)

LEMMA StoredKept ==
    ASSUME NEW k, NEW st, Keeps(st, k)
    PROVE  st \in DOMAIN Stored(k)' /\ Stored(k)'[st] = Stored(k)[st]
BY DEF Keeps, Stored

LEMMA RecordKeeps ==
    ASSUME NEW k, NEW st \in 1..Complete, st \in 1..Complete', st \in 1..Len(disk), st \in 1..Len(disk'),
           srec' = srec, disk'[st] = disk[st]
    PROVE  Keeps(st, k)
<1>1. ~(st > Len(disk)) /\ ~(st > Len(disk'))
  OBVIOUS
<1>2. QED
  BY <1>1 DEF Keeps, SubrecWords, GetWords, Sub

\* The rings stay as they are, and the states in them keep their words.
LEMMA RingsStay ==
    ASSUME BuffersInv, UNCHANGED <<srec, queue>>,
           \A h \in Handles, k \in ObjectOrdered : \A i \in 1..Len(queue[h][k].numbers) :
               queue[h][k].numbers[i] > 0 => Keeps(queue[h][k].numbers[i], k)
    PROVE  BuffersInv'
<1>1. ASSUME NEW h \in Handles, NEW k \in ObjectOrdered
      PROVE  Holds(queue'[h][k], Stored(k)')
  <2> DEFINE q == queue[h][k]
             W == Stored(k)
             V == Stored(k)'
  <2>1. Holds(q, W)
    BY DEF BuffersInv
  <2>2. \A i \in 1..Len(q.numbers) : q.numbers[i] > 0 =>
            q.numbers[i] \in DOMAIN V /\ V[q.numbers[i]] = W[q.numbers[i]]
    BY StoredKept
  <2>3. queue'[h][k] = q
    OBVIOUS
  <2> HIDE DEF q, W, V
  <2>4. Holds(q, V)
    BY <2>1, <2>2, HoldsSame
  <2>5. QED
    BY <2>3, <2>4 DEF V
<1>2. ObjectOrdered' = ObjectOrdered
  BY DEF ObjectOrdered, Subrecs, Sub
<1>3. QED
  BY <1>1, <1>2 DEF BuffersInv
\* States in the course of being written do not count, nor do those taken back.
LEMMA BuffersStay ==
    ASSUME "restart" \notin App, TypeInv, FormatInv, KnownInv, BuffersInv, KnownInv', TypeInv',
           \/ NewState \/ EndState
           \/ \E k \in Subrecs : \E l \in 1..Lumps(Sub(k)) : WrtSubrec(k, l)
           \/ \E st \in 1..MaxStates : Restart(st)
           \/ \E h \in Handles : QueryQtyStates(h)
           \/ UNCHANGED vars
    PROVE  BuffersInv'
<1>1. UNCHANGED <<srec, queue>>
  BY DEF NewState, EndState, WrtSubrec, Restart, QueryQtyStates, vars
<1>2. /\ StatesInv /\ Complete \in 0..Len(disk) /\ Len(disk) \in Nat /\ IsSeq(disk)
      /\ StatesInv' /\ Complete' \in 0..Len(disk') /\ Len(disk') \in Nat
  <2>1. StatesInv /\ Complete \in 0..Len(disk) /\ Len(disk) \in Nat /\ IsSeq(disk)
    BY QuantitiesIs DEF TypeInv, StatesInv, IsSeq
  <2>2. StatesInv' /\ Len(disk') \in Nat
    BY DEF TypeInv, StatesInv, IsSeq
  <2>3. Complete' \in 0..Len(disk')
    BY <2>2 DEF Complete, StatesInv
  <2>4. QED
    BY <2>1, <2>2, <2>3
<1>3. ASSUME NEW h \in Handles, NEW k \in ObjectOrdered, NEW i \in 1..Len(queue[h][k].numbers),
             queue[h][k].numbers[i] > 0
      PROVE  /\ queue[h][k].numbers[i] \in 1..Complete /\ queue[h][k].numbers[i] \in 1..Len(disk)
             /\ queue[h][k].numbers[i] \in Range(queue[h][k].numbers)
  <2> DEFINE q == queue[h][k]
             W == Stored(k)
  <2>1. Holds(q, W) /\ RingOK(q)
    BY DEF BuffersInv, ObjectOrdered, TypeInv, RingsInv
  <2>2. DOMAIN W = 1..Complete
    BY DEF Stored
  <2> HIDE DEF q, W
  <2>3. q.numbers[i] \in 1..Complete
    BY <1>3, <2>1, <2>2 DEF Holds, q
  <2>4. q.numbers[i] \in Range(q.numbers)
    BY <2>1 DEF RingOK, IsSeq, Range, q
  <2>5. QED
    BY <1>2, <2>3, <2>4 DEF q
<1>4. ASSUME \A st \in 1..Complete : (\E h \in Handles, k \in ObjectOrdered : st \in Range(queue[h][k].numbers))
                 => st \in 1..Complete' /\ disk'[st] = disk[st]
      PROVE  BuffersInv'
  <2>1. ASSUME NEW h \in Handles, NEW k \in ObjectOrdered, NEW i \in 1..Len(queue[h][k].numbers),
               queue[h][k].numbers[i] > 0
        PROVE  Keeps(queue[h][k].numbers[i], k)
    <3> DEFINE st == queue[h][k].numbers[i]
    <3>1. st \in 1..Complete /\ st \in 1..Len(disk) /\ st \in Range(queue[h][k].numbers)
      BY <1>3, <2>1
    <3>2. st \in 1..Complete' /\ disk'[st] = disk[st]
      BY <1>4, <3>1
    <3> HIDE DEF st
    <3>3. st \in 1..Len(disk')
      BY <1>2, <3>2
    <3>4. Keeps(st, k)
      BY <1>1, <3>1, <3>2, <3>3, RecordKeeps
    <3>5. QED
      BY <3>4 DEF st
  <2>2. QED
    BY <1>1, <2>1, RingsStay
<1>5. CASE NewState
  <2>1. PICK x : disk' = Append(disk, x)
    BY <1>5 DEF NewState
  <2>2. Len(disk') = Len(disk) + 1 /\ \A st \in 1..Len(disk) : disk'[st] = disk[st]
    BY <1>2, <2>1, AppendIs
  <2>3. Complete = Len(disk) /\ (Complete' = Len(disk') \/ Complete' = Len(disk') - 1)
    BY <1>5 DEF NewState, Complete
  <2>4. QED
    BY <1>2, <1>4, <2>2, <2>3
<1>6. CASE EndState
  <2>1. disk' = disk /\ Complete' = Len(disk)
    BY <1>6 DEF EndState, Complete
  <2>2. QED
    BY <1>2, <1>4, <2>1
<1>7. CASE \E k \in Subrecs : \E l \in 1..Lumps(Sub(k)) : WrtSubrec(k, l)
  <2>1. PICK k \in Subrecs : \E l \in 1..Lumps(Sub(k)) : WrtSubrec(k, l)
    BY <1>7
  <2>2. PICK l \in 1..Lumps(Sub(k)) : WrtSubrec(k, l)
    BY <2>1
  <2>3. PICK w : disk' = [disk EXCEPT ![Len(disk)] = w]
    BY <2>2 DEF WrtSubrec
  <2> DEFINE n == Len(disk)
  <2>4. LET t == [disk EXCEPT ![n] = w]
        IN  Len(t) = Len(disk) /\ \A i \in 1..Len(disk) : i # n => t[i] = disk[i]
    BY <1>2, ReplaceIs
  <2>5. Len(disk') = n /\ \A i \in 1..n : i # n => disk'[i] = disk[i]
    BY <2>3, <2>4
  <2>6. Complete = n - 1 /\ (Complete' = n \/ Complete' = n - 1)
    BY <2>2, <2>5 DEF WrtSubrec, Complete
  <2> HIDE DEF n
  <2>7. \A st \in 1..Complete : st \in 1..Complete' /\ disk'[st] = disk[st]
    BY <1>2, <2>5, <2>6 DEF n
  <2>8. QED
    BY <1>4, <2>7
<1>8. CASE \E st \in 1..MaxStates : Restart(st)
  <2>1. PICK st \in 1..MaxStates : Restart(st)
    BY <1>8
  <2> DEFINE n == st - 1
  <2>2. n \in 0..Len(disk) /\ disk' = SubSeq(disk, 1, n) /\ writing' = NotWriting
    BY <1>2, <2>1 DEF Restart
  <2>3. \A h \in Handles, k \in ObjectOrdered, i \in st..Len(disk) : i \notin Range(queue[h][k].numbers)
    BY <2>1 DEF Restart, ObjectOrdered
  <2>4. n \in Nat /\ st = n + 1
    BY <1>2, <2>2
  <2> HIDE DEF n
  <2>5. Len(disk') = n /\ \A i \in 1..n : disk'[i] = disk[i]
    BY <1>2, <2>2, PrefixIs
  <2>6. Complete' = n
    BY <2>2, <2>5 DEF Complete
  <2>7. ASSUME NEW s \in 1..Complete, NEW h \in Handles, NEW k \in ObjectOrdered,
               s \in Range(queue[h][k].numbers)
        PROVE  s \in 1..n
    <3>1. s \in 1..Len(disk)
      BY <1>2
    <3>2. s \notin st..Len(disk)
      BY <2>3, <2>7
    <3>3. QED
      BY <1>2, <2>4, <3>1, <3>2
  <2>8. QED
    BY <1>4, <2>5, <2>6, <2>7
<1>9. CASE (\E h \in Handles : QueryQtyStates(h)) \/ UNCHANGED vars
  <2>1. UNCHANGED <<disk, writing>>
    BY <1>9 DEF QueryQtyStates, vars
  <2>2. Complete' = Complete
    BY <2>1 DEF Complete
  <2>3. QED
    BY <1>4, <2>1, <2>2
<1>10. QED
  BY <1>5, <1>6, <1>7, <1>8, <1>9

\* The states stay as they are, and a ring has what it had or what is read into it.
LEMMA RingsRead ==
    ASSUME BuffersInv, UNCHANGED <<srec, disk, writing>>,
           \A h \in Handles, k \in ObjectOrdered : Holds(queue[h][k], Stored(k)) => Holds(queue'[h][k], Stored(k))
    PROVE  BuffersInv'
<1>1. ObjectOrdered' = ObjectOrdered /\ Complete' = Complete
  BY DEF ObjectOrdered, Subrecs, Sub, Complete
<1>2. ASSUME NEW k PROVE Stored(k)' = Stored(k)
  BY <1>1 DEF Stored, SubrecWords, Sub
<1>3. QED
  BY <1>1, <1>2 DEF BuffersInv

\* A state that a handle knows of is read.
LEMMA RingRead ==
    ASSUME TypeInv, FormatInv, NEW h \in Handles, NEW k \in Subrecs, NEW st \in 1..MaxStates,
           st <= Complete, Holds(queue[h][k], Stored(k))
    PROVE  Holds(QueueAfter(queue[h][k], st, SubrecWords(st, k)), Stored(k))
<1> DEFINE q == queue[h][k]
           W == Stored(k)
           words == SubrecWords(st, k)
           r == QueueAfter(q, st, words)
<1>1. RingOK(q) /\ Holds(q, W)
  BY DEF TypeInv, RingsInv
<1>2. st \in 1..Complete
  BY QuantitiesIs DEF TypeInv
<1>3. DOMAIN W = 1..Complete /\ W[st] = words
  BY <1>2 DEF Stored
<1>4. W[st] = << >> => \A s \in DOMAIN W : W[s] = << >>
  BY <1>2, <1>3, NoWords
<1> HIDE DEF q, W, words
<1>5. Len(r.numbers) = Len(q.numbers) /\ ReadInto(q, r, st, words) /\ (FreeIsEmpty(q) => FreeIsEmpty(r))
  BY <1>1, QueueAfterIs
<1>6. FreeIsEmpty(r)
  BY <1>1, <1>5 DEF Holds
<1> HIDE DEF r
<1>7. Holds(r, W)
  BY <1>1, <1>2, <1>3, <1>4, <1>5, <1>6, HoldsRead
<1>8. QED
  BY <1>7 DEF q, W, words, r
LEMMA BuffersRead ==
    ASSUME TypeInv, FormatInv, KnownInv, BuffersInv,
           \E h \in Handles :
               \/ \E qty \in 0..MaxBuffers : SetBufferQty(h, qty)
               \/ \E st \in 1..MaxStates, k \in Subrecs, malformed \in BOOLEAN :
                      ReadResults(h, st, k, malformed)
               \/ \E st \in 1..MaxStates, class \in ClassNames :
                      \E v \in Range(SubrecVars(class, Subrecs)) : MrGetResult(h, st, class, v)
    PROVE  BuffersInv'
<1>1. UNCHANGED <<srec, disk, writing>>
  BY DEF SetBufferQty, ReadResults, MrGetResult
<1>2. RingsInv /\ Rings(queue) /\ DOMAIN queue = Handles /\ \A h \in Handles : DOMAIN queue[h] = Subrecs
  BY DEF TypeInv, RingsInv, Rings, Over
<1>3. ObjectOrdered \subseteq Subrecs
  BY DEF ObjectOrdered
<1>4. ASSUME NEW h \in Handles, NEW st \in 1..MaxStates, st <= KnownFor(h, st) PROVE st <= Complete
  <2>1. st \in Nat /\ Complete \in Nat /\ known[h] \in Nat /\ known[h] <= Complete
    BY QuantitiesIs, ResultsAssumption DEF TypeInv, StatesInv, KnownInv
  <2>2. QED
    BY <1>4, <2>1 DEF KnownFor
<1>5. CASE \E h \in Handles : \E qty \in 0..MaxBuffers : SetBufferQty(h, qty)
  <2>1. PICK h \in Handles, qty \in 0..MaxBuffers : SetBufferQty(h, qty)
    BY <1>5
  <2>2. ASSUME NEW g \in Handles, NEW k \in ObjectOrdered, Holds(queue[g][k], Stored(k))
        PROVE  Holds(queue'[g][k], Stored(k))
    <3> DEFINE q == queue[g][k]
               W == Stored(k)
    <3>1. \/ queue'[g][k] = q
          \/ /\ queue'[g][k] = InitQueue(q, qty)
             /\ qty = 0 \/ Len(q.numbers) <= qty
      BY <1>2, <1>3, <2>1 DEF SetBufferQty
    <3>2. RingOK(q) /\ Holds(q, W)
      BY <1>2, <1>3, <2>2 DEF RingsInv
    <3> HIDE DEF q, W
    <3>3. CASE qty = 0 \/ Len(q.numbers) <= qty
      <4> DEFINE r == InitQueue(q, qty)
      <4>1. NothingNew(q, r) /\ (FreeIsEmpty(q) => FreeIsEmpty(r))
        BY <3>2, <3>3, InitQueueIs
      <4>2. FreeIsEmpty(q)
        BY <3>2 DEF Holds
      <4> HIDE DEF r
      <4>3. Holds(r, W)
        BY <3>2, <4>1, <4>2, HoldsLess
      <4>4. QED
        BY <3>1, <3>2, <4>3 DEF r, W
    <3>4. CASE queue'[g][k] = q
      BY <3>2, <3>4 DEF W
    <3>5. QED
      BY <3>1, <3>3, <3>4
  <2>3. QED
    BY <1>1, <2>2, RingsRead
<1>6. CASE \E h \in Handles : \E st \in 1..MaxStates, k \in Subrecs, malformed \in BOOLEAN :
               ReadResults(h, st, k, malformed)
  <2>1. PICK h \in Handles, st \in 1..MaxStates, k \in Subrecs : \E malformed \in BOOLEAN :
               ReadResults(h, st, k, malformed)
    BY <1>6
  <2> DEFINE r == QueueAfter(queue[h][k], st, SubrecWords(st, k))
  <2>2. queue' = queue \/ (queue' = PutRing(h, k, r) /\ st <= KnownFor(h, st))
    <3>1. PICK malformed \in BOOLEAN : ReadResults(h, st, k, malformed)
      BY <2>1
    <3> DEFINE rval == Rval(h, st, k, malformed)
    <3>2. ~(st <= KnownFor(h, st)) => rval = "invalid_state"
      <4>1. st \in Int /\ KnownFor(h, st) \in Int
        BY QuantitiesIs, ResultsAssumption DEF TypeInv, StatesInv, KnownFor
      <4>2. QED
        BY <4>1 DEF Rval
    <3>3. queue' = IF rval \in {"invalid_state", "malformed"} \/ Sub(k).org = "result"
                   THEN queue ELSE [queue EXCEPT ![h][k] = r]
      BY <1>2, <3>1 DEF ReadResults
    <3> HIDE DEF rval, r
    <3>4. QED
      BY <3>2, <3>3 DEF PutRing
  <2>3. CASE queue' = queue
    BY <1>1, <2>3, RingsRead
  <2>4. CASE queue' = PutRing(h, k, r) /\ st <= KnownFor(h, st)
    <3>1. st <= Complete
      BY <1>4, <2>4
    <3>2. Holds(queue[h][k], Stored(k)) => Holds(r, Stored(k))
      BY <3>1, RingRead
    <3> HIDE DEF r
    <3>3. \A g \in Handles, j \in Subrecs : queue'[g][j] = IF g = h /\ j = k THEN r ELSE queue[g][j]
      BY <1>2, <2>4, PutRingIs
    <3>4. \A g \in Handles, j \in ObjectOrdered :
              Holds(queue[g][j], Stored(j)) => Holds(queue'[g][j], Stored(j))
      BY <1>3, <3>2, <3>3
    <3>5. QED
      BY <1>1, <3>4, RingsRead
  <2>5. QED
    BY <2>2, <2>3, <2>4
<1>7. CASE \E h \in Handles : \E st \in 1..MaxStates, class \in ClassNames :
               \E v \in Range(SubrecVars(class, Subrecs)) : MrGetResult(h, st, class, v)
  <2>1. PICK h \in Handles, st \in 1..MaxStates, class \in ClassNames :
               \E v \in Range(SubrecVars(class, Subrecs)) : MrGetResult(h, st, class, v)
    BY <1>7
  <2>2. \A g \in Handles, k \in Subrecs :
            \/ queue'[g][k] = queue[g][k]
            \/ /\ g = h /\ st <= KnownFor(h, st)
               /\ queue'[g][k] = QueueAfter(queue[h][k], st, SubrecWords(st, k))
    BY <1>2, <2>1 DEF MrGetResult
  <2>3. ASSUME NEW g \in Handles, NEW k \in ObjectOrdered, Holds(queue[g][k], Stored(k))
        PROVE  Holds(queue'[g][k], Stored(k))
    <3>1. CASE queue'[g][k] = queue[g][k]
      BY <2>3, <3>1
    <3>2. CASE /\ g = h /\ st <= KnownFor(h, st)
               /\ queue'[g][k] = QueueAfter(queue[h][k], st, SubrecWords(st, k))
      <4>1. st <= Complete /\ k \in Subrecs
        BY <1>3, <1>4, <3>2
      <4>2. Holds(QueueAfter(queue[h][k], st, SubrecWords(st, k)), Stored(k))
        BY <2>3, <3>2, <4>1, RingRead
      <4>3. QED
        BY <3>2, <4>2
    <3>3. QED
      BY <1>3, <2>2, <3>1, <3>2
  <2>4. QED
    BY <1>1, <2>3, RingsRead
<1>8. QED
  BY <1>5, <1>6, <1>7

LEMMA SameWords ==
    ASSUME NEW d, NEW e, NEW off \in Nat, NEW size \in Nat, \A i \in 1..size : d[off + i] = e[off + i]
    PROVE  GetWords(d, off, size) = GetWords(e, off, size)
<1>1. /\ SubSeq(d, off + 1, off + size) = [i \in 1..size |-> d[off + i]]
      /\ SubSeq(e, off + 1, off + size) = [i \in 1..size |-> e[off + i]]
  OBVIOUS
<1>2. QED
  BY <1>1 DEF GetWords

\* A lump of another subrecord is none of a subrecord's words.
LEMMA OtherWords ==
    ASSUME FormatInv, NEW k \in ObjectOrdered, NEW l \in 1..Lumps(Sub(k)), MayWrite(k, l, l),
           NEW j \in Subrecs, j # k, NEW record, DOMAIN record = 1..RecordSize, NEW data
    PROVE  GetWords(WriteLumps(record, k, l, l, data), Sub(j).offset, Sub(j).size)
               = GetWords(record, Sub(j).offset, Sub(j).size)
<1> DEFINE off == Sub(j).offset
           size == Sub(j).size
           new == WriteLumps(record, k, l, l, data)
<1>1. k \in Subrecs
  BY DEF ObjectOrdered
<1>2. /\ off \in Nat /\ size \in Nat /\ off + size <= RecordSize /\ RecordSize \in Nat
      /\ Sub(k).offset \in Nat /\ Sub(k).size \in Nat
      /\ off + size <= Sub(k).offset \/ Sub(k).offset + Sub(k).size <= off
  BY <1>1, PlacesAre
<1>3. ASSUME NEW x \in 1..size PROVE new[off + x] = record[off + x]
  <2> DEFINE i == off + x
  <2>1. i \in Nat /\ i \in DOMAIN record /\ ~InPlace(k, i)
    <3> DEFINE from == Sub(k).offset
               qty  == Sub(k).size
    <3>1. InPlace(k, i) <=> from < i /\ i <= from + qty
      BY DEF InPlace
    <3> HIDE DEF off, size, from, qty
    <3>2. /\ off \in Nat /\ size \in Nat /\ off + size <= RecordSize /\ RecordSize \in Nat
          /\ from \in Nat /\ qty \in Nat /\ (off + size <= from \/ from + qty <= off)
      BY <1>2 DEF from, qty
    <3>3. i \in 1..RecordSize /\ ~(from < i /\ i <= from + qty)
      BY ONLY <3>2, x \in 1..size, i = off + x
    <3>4. QED
      BY <3>1, <3>3
  <2> HIDE DEF i
  <2>2. WriteLumps(record, k, l, l, data)[i] = record[i]
    <3> HIDE DEF new, off, size
    <3>1. k \in ObjectOrdered /\ l \in 1..Lumps(Sub(k)) /\ MayWrite(k, l, l) /\ FormatInv
      OBVIOUS
    <3>2. \A d : \A n \in DOMAIN record : n \in Nat /\ ~InPlace(k, n)
                 => WriteLumps(record, k, l, l, d)[n] = record[n]
      BY ONLY <3>1, OthersKept
    <3>3. QED
      BY <2>1, <3>2
  <2>3. QED
    BY <2>2 DEF i
<1> HIDE DEF off, size, new
<1>4. GetWords(new, off, size) = GetWords(record, off, size)
  BY <1>2, <1>3, SameWords
<1>5. QED
  BY <1>4 DEF off, size, new
\* mc_rewrite_subrec: the writer gives up its ring of the subrecord, no other ring has
\* the state, and the rings of other subrecords have words that it leaves alone.
LEMMA BuffersRewrite ==
    ASSUME "stale_rewrite" \notin App, TypeInv, FormatInv, BuffersInv,
           NEW st \in 1..MaxStates, NEW k \in Subrecs, NEW l \in 1..Lumps(Sub(k)), RewriteSubrec(st, k, l)
    PROVE  BuffersInv'
<1> DEFINE data == Data(<<st, clock + 1>>, k, l, l)
           w == WriteLumps(disk[st], k, l, l, data)
<1>1. /\ disk' = [disk EXCEPT ![st] = w] /\ UNCHANGED <<srec, writing>>
      /\ queue' = DropQueue("writer", k) /\ st \in 1..Complete
      /\ st \notin Range(queue["reader"][k].numbers)
      /\ k \in ObjectOrdered /\ MayWrite(k, l, l)
  BY DEF RewriteSubrec
<1>2. /\ IsSeq(disk) /\ Len(disk) \in Nat /\ Complete \in 0..Len(disk)
      /\ RingsInv /\ \A s \in 1..Complete : s \in 1..Len(disk)
  <2>1. IsSeq(disk) /\ Len(disk) \in Nat /\ Complete \in 0..Len(disk) /\ RingsInv
    BY QuantitiesIs DEF TypeInv, StatesInv, IsSeq
  <2>2. QED
    BY <2>1
<1>3. \A j \in Subrecs : j # k =>
          GetWords(w, Sub(j).offset, Sub(j).size) = GetWords(disk[st], Sub(j).offset, Sub(j).size)
  <2> DEFINE record == disk[st]
  <2>1. DOMAIN record = 1..RecordSize
    BY <1>1, <1>2 DEF FormatInv
  <2> HIDE DEF record, data
  <2>2. ASSUME NEW j \in Subrecs, j # k
        PROVE  GetWords(WriteLumps(record, k, l, l, data), Sub(j).offset, Sub(j).size)
                   = GetWords(record, Sub(j).offset, Sub(j).size)
    BY <1>1, <2>1, <2>2, OtherWords
  <2>3. QED
    BY <2>2 DEF record
<1> HIDE DEF w
<1>4. Len(disk') = Len(disk) /\ disk'[st] = w /\ \A s \in 1..Len(disk) : s # st => disk'[s] = disk[s]
  <2>1. LET t == [disk EXCEPT ![st] = w]
        IN  /\ Len(t) = Len(disk) /\ (st \in 1..Len(disk) => t[st] = w)
            /\ \A i \in 1..Len(disk) : i # st => t[i] = disk[i]
    BY <1>2, ReplaceIs
  <2>2. QED
    BY <1>1, <1>2, <2>1
<1>5. Complete' = Complete /\ ObjectOrdered' = ObjectOrdered /\ ObjectOrdered \subseteq Subrecs
  BY <1>1, <1>4 DEF Complete, ObjectOrdered, Subrecs, Sub
<1>6. ASSUME NEW s \in 1..Complete, NEW j \in ObjectOrdered, s # st \/ j # k PROVE Keeps(s, j)
  <2>1. s \in 1..Complete' /\ s \in 1..Len(disk) /\ s \in 1..Len(disk')
    BY <1>2, <1>4, <1>5
  <2>2. CASE s # st
    BY <1>1, <1>4, <2>1, <2>2, RecordKeeps
  <2>3. CASE s = st /\ j # k
    <3>1. ~(s > Len(disk)) /\ ~(s > Len(disk'))
      BY <2>1
    <3>2. SubrecWords(s, j) = GetWords(disk[s], Sub(j).offset, Sub(j).size)
      BY <3>1 DEF SubrecWords
    <3>3. SubrecWords(s, j)' = GetWords(disk'[s], Sub(j).offset, Sub(j).size)
      BY <1>1, <3>1 DEF SubrecWords, Sub, GetWords
    <3>4. disk'[s] = w
      BY <1>4, <2>3
    <3>5. SubrecWords(s, j)' = SubrecWords(s, j)
      BY <1>3, <1>5, <2>3, <3>2, <3>3, <3>4
    <3>6. QED
      BY <2>1, <3>5 DEF Keeps
  <2>4. QED
    BY <1>6, <2>2, <2>3
<1>7. ASSUME NEW h \in Handles, NEW j \in ObjectOrdered PROVE Holds(queue'[h][j], Stored(j)')
  <2> DEFINE q == queue[h][j]
             W == Stored(j)
             V == Stored(j)'
             n == NoRing(queue["writer"][k])
  <2>1. queue'[h][j] = IF h = "writer" /\ j = k THEN n ELSE q
    <3>1. queue' = PutRing("writer", k, n)
      BY <1>1, <1>2, DropQueueIs DEF Handles
    <3>2. \A g \in Handles, i \in Subrecs :
              queue'[g][i] = IF g = "writer" /\ i = k THEN n ELSE queue[g][i]
      BY <1>2, <3>1, PutRingIs DEF RingsInv, Handles
    <3>3. QED
      BY <1>5, <3>2
  <2>2. CASE h = "writer" /\ j = k
    <3>1. RingOK(queue["writer"][k])
      BY <1>2 DEF RingsInv, Handles
    <3>2. FreeIsEmpty(n) /\ Len(n.numbers) = 0
      BY <3>1, NoBuffersIs DEF NoRing
    <3> HIDE DEF n, V
    <3>3. Holds(n, V)
      BY <3>2 DEF Holds
    <3>4. QED
      BY <2>1, <2>2, <3>3 DEF V
  <2>3. CASE ~(h = "writer" /\ j = k)
    <3>1. Holds(q, W) /\ RingOK(q) /\ DOMAIN W = 1..Complete
      BY <1>2, <1>5 DEF BuffersInv, RingsInv, Stored
    <3>2. h = "reader" /\ j = k => st \notin Range(q.numbers)
      BY <1>1
    <3>3. h = "reader" \/ j # k
      BY <2>3 DEF Handles
    <3>4. ASSUME NEW i \in 1..Len(q.numbers), q.numbers[i] > 0
          PROVE  q.numbers[i] \in DOMAIN V /\ V[q.numbers[i]] = W[q.numbers[i]]
      <4> DEFINE s == q.numbers[i]
      <4>1. s \in 1..Complete
        BY <3>1, <3>4 DEF Holds
      <4>2. s \in Range(q.numbers)
        BY <3>1 DEF RingOK, IsSeq, Range
      <4>3. s # st \/ j # k
        BY <3>2, <3>3, <4>2
      <4> HIDE DEF s
      <4>4. Keeps(s, j)
        BY <1>6, <4>1, <4>3
      <4>5. s \in DOMAIN V /\ V[s] = W[s]
        BY <4>4, StoredKept
      <4>6. QED
        BY <4>5 DEF s
    <3>5. \A i \in 1..Len(q.numbers) : q.numbers[i] > 0 =>
              q.numbers[i] \in DOMAIN V /\ V[q.numbers[i]] = W[q.numbers[i]]
      BY <3>4
    <3>6. Holds(q, W)
      BY <3>1
    <3> HIDE DEF q, W, V
    <3>7. Holds(q, V)
      BY ONLY <3>5, <3>6, HoldsSame
    <3>8. QED
      BY <2>1, <2>3, <3>7 DEF V
  <2>4. QED
    BY <2>2, <2>3
<1>8. QED
  BY <1>5, <1>7 DEF BuffersInv

LEMMA BuffersInit == Init => BuffersInv
<1> SUFFICES ASSUME Init PROVE BuffersInv
  OBVIOUS
<1>1. ASSUME NEW h \in Handles, NEW k \in ObjectOrdered PROVE Holds(queue[h][k], Stored(k))
  <2> DEFINE q == EmptyQueue(2)
  <2>1. queue[h][k] = q
    BY DEF Init, ObjectOrdered
  <2>2. 2 \in 0..MaxBuffers
    BY ResultsAssumption
  <2>3. FreeIsEmpty(q) /\ Len(q.numbers) = 2 /\ \A i \in 1..2 : q.numbers[i] = Unused
    BY <2>2, EmptyQueueIs
  <2> HIDE DEF q
  <2>4. Holds(q, Stored(k))
    BY <2>3 DEF Holds, Unused
  <2>5. QED
    BY <2>1, <2>4
<1>2. QED
  BY <1>1 DEF BuffersInv

LEMMA BuffersStep ==
    ASSUME App \cap {"restart", "stale_rewrite"} = {}, TypeInv, FormatInv, KnownInv, BuffersInv, [Next]_vars
    PROVE  BuffersInv'
<1>1. "restart" \notin App /\ "stale_rewrite" \notin App
  OBVIOUS
<1>2. TypeInv' /\ KnownInv'
  BY <1>1, TypeStep, KnownStep
<1>3. CASE \/ NewState \/ EndState
           \/ \E k \in Subrecs : \E l \in 1..Lumps(Sub(k)) : WrtSubrec(k, l)
           \/ \E st \in 1..MaxStates : Restart(st)
           \/ \E h \in Handles : QueryQtyStates(h)
           \/ UNCHANGED vars
  BY <1>1, <1>2, <1>3, BuffersStay
<1>4. CASE \E k \in Subrecs : \E l \in 1..Lumps(Sub(k)) : \E st \in 1..MaxStates : RewriteSubrec(st, k, l)
  BY <1>1, <1>4, BuffersRewrite
<1>5. CASE \E h \in Handles :
               \/ \E qty \in 0..MaxBuffers : SetBufferQty(h, qty)
               \/ \E st \in 1..MaxStates, k \in Subrecs, malformed \in BOOLEAN :
                      ReadResults(h, st, k, malformed)
               \/ \E st \in 1..MaxStates, class \in ClassNames :
                      \E v \in Range(SubrecVars(class, Subrecs)) : MrGetResult(h, st, class, v)
  BY <1>5, BuffersRead
<1>6. QED
  BY <1>3, <1>4, <1>5 DEF Next

\* What a buffer gives is what the files have.
LEMMA BuffersAreCurrent == TypeInv /\ BuffersInv => BuffersCurrent
<1> SUFFICES ASSUME TypeInv, BuffersInv,
                    NEW h \in Handles, NEW st \in 1..Complete, NEW k \in Subrecs
             PROVE  Input(h, st, k) = SubrecWords(st, k)
  BY DEF BuffersCurrent
<1> DEFINE q == queue[h][k]
           W == Stored(k)
           T == {i \in DOMAIN q.numbers : q.numbers[i] = st}
<1>1. CASE ~(Sub(k).org = "object" /\ st \in Range(q.numbers))
  BY <1>1 DEF Input
<1>2. CASE Sub(k).org = "object" /\ st \in Range(q.numbers)
  <2>1. Holds(q, W) /\ RingOK(q) /\ W[st] = SubrecWords(st, k)
    BY <1>2 DEF BuffersInv, ObjectOrdered, TypeInv, RingsInv, Stored
  <2>2. Input(h, st, k) = q.data[Hit(q, st)] /\ Hit(q, st) = Min(T)
    BY <1>2 DEF Input, Hit
  <2>3. st > 0
    BY QuantitiesIs DEF TypeInv
  <2> HIDE DEF q, W
  <2>4. DOMAIN q.numbers = 1..Len(q.numbers)
    BY <2>1 DEF RingOK, IsSeq
  <2>5. T # {} /\ T \in SUBSET Nat
    BY <1>2, <2>4 DEF Range
  <2>6. \A i \in T : q.data[i] = W[st]
    BY <2>1, <2>3, <2>4 DEF Holds
  <2> HIDE DEF T
  <2>7. Min(T) \in T
    BY <2>5, MinIs
  <2>8. QED
    BY <2>1, <2>2, <2>6, <2>7
<1>3. QED
  BY <1>1, <1>2

\* BuffersCurrent, the part of ReadsBack that is about the buffers, where the reader does
\* not hold what another process rewrites or takes back: for any formats, and however
\* many buffers a ring has, gets or gives up, what a handle reads of a state by way of a
\* buffer is what the state files have.
THEOREM BuffersCorrect == App \cap {"restart", "stale_rewrite"} = {} => (Spec => []BuffersCurrent)
<1> SUFFICES ASSUME App \cap {"restart", "stale_rewrite"} = {} PROVE Spec => []BuffersCurrent
  OBVIOUS
<1> DEFINE I == TypeInv /\ FormatInv /\ KnownInv /\ BuffersInv
<1>1. Init => I
  BY TypeInit, FormatInit, TimesInit, BuffersInit
<1>2. I /\ [Next]_vars => I'
  <2>1. "restart" \notin App
    OBVIOUS
  <2>2. QED
    BY <2>1, TypeStep, FormatStep, KnownStep, BuffersStep
<1>3. I => BuffersCurrent
  BY BuffersAreCurrent
<1>4. QED
  BY <1>1, <1>2, <1>3, PTL DEF Spec
=============================================================================
