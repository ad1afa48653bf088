--------------------------- MODULE MeshDataProofs ---------------------------
(***************************************************************************)
(* More proofs about Mesh: the types of its variables, that the data of    *)
(* every object is in the files and read back under the object's id, and   *)
(* that the questions about meshes, classes and definitions, and the       *)
(* counts of elements, are answered right.                                 *)
(***************************************************************************)
EXTENDS MeshProofs

-----------------------------------------------------------------------------
(***************************************************************************)
(* The ids of a list of blocks.                                            *)
(***************************************************************************)
\* What FlattenSeq computes: each partial result by the one before it.
Flattens(f, ss, k) == f = [i \in 1..k |-> IF i = 1 THEN ss[i] ELSE f[i-1] \o ss[i]]

LEMMA FlattensExists ==
    ASSUME NEW ss, NEW n \in Nat
    PROVE  \A k \in 1..n : \E f : Flattens(f, ss, k)
<1> DEFINE Bad == {k \in 1..n : ~\E f : Flattens(f, ss, k)}
<1>1. SUFFICES ASSUME Bad # {} PROVE FALSE
  OBVIOUS
<1>2. Bad \in SUBSET Nat
  <2>1. 1..n \subseteq Nat /\ Bad \subseteq 1..n
    OBVIOUS
  <2>2. QED
    BY <2>1
<1>3. PICK k \in Bad : \A j \in Bad : k <= j
  <2> HIDE DEF Bad
  <2>1. QED
    BY <1>1, <1>2, LeastElement
<1>4. k \in 1..n /\ ~\E f : Flattens(f, ss, k)
  BY <1>3
<1>5. ASSUME NEW j \in 1..n, j < k PROVE \E f : Flattens(f, ss, j)
  <2>1. j \notin Bad
    <3> HIDE DEF Bad
    <3>1. QED
      BY <1>3, <1>4, <1>5
  <2>2. QED
    BY <2>1
<1>6. CASE k = 1
  <2>1. Flattens([i \in 1..1 |-> ss[i]], ss, 1)
    BY DEF Flattens
  <2>2. QED
    BY <2>1, <1>4, <1>6
<1>7. CASE k # 1
  <2>1. k - 1 \in 1..n /\ k - 1 < k /\ k \in Nat /\ k > 1
    BY <1>4, <1>7
  <2>2. PICK g : Flattens(g, ss, k - 1)
    BY <2>1, <1>5
  <2> DEFINE h == [i \in 1..k |-> IF i < k THEN g[i] ELSE g[k - 1] \o ss[k]]
  <2>3. ASSUME NEW i \in 1..k
        PROVE  h[i] = IF i = 1 THEN ss[i] ELSE h[i-1] \o ss[i]
    <3>1. CASE i < k
      <4>1. i \in 1..k-1
        BY <3>1, <2>1
      <4>2. g[i] = IF i = 1 THEN ss[i] ELSE g[i-1] \o ss[i]
        BY <2>2, <4>1 DEF Flattens
      <4>3. i # 1 => h[i - 1] = g[i - 1]
        BY <3>1, <2>1
      <4>4. h[i] = g[i]
        BY <3>1
      <4> HIDE DEF h
      <4>5. QED
        BY <4>2, <4>3, <4>4
    <3>2. CASE i = k
      <4>0. ~(i < k)
        BY <3>2, <2>1
      <4>1. h[i] = g[k - 1] \o ss[k]
        BY <4>0
      <4>2. h[k - 1] = g[k - 1]
        BY <2>1
      <4> HIDE DEF h
      <4>3. h[i - 1] = g[k - 1] /\ ss[i] = ss[k] /\ i # 1
        BY <3>2, <4>2, <2>1
      <4>4. QED
        BY <4>1, <4>3
    <3>3. QED
      BY <3>1, <3>2, <2>1
  <2>4. h = [i \in 1..k |-> h[i]]
    OBVIOUS
  <2>5. Flattens(h, ss, k)
    <3> HIDE DEF h
    <3>1. [i \in 1..k |-> h[i]] = [i \in 1..k |-> IF i = 1 THEN ss[i] ELSE h[i-1] \o ss[i]]
      BY <2>3
    <3>2. QED
      BY <3>1, <2>4 DEF Flattens
  <2>6. QED
    BY <2>5, <1>4
<1>8. QED
  BY <1>6, <1>7

LEMMA FlattenIs ==
    ASSUME NEW ss, Len(ss) \in Nat \ {0}
    PROVE  \E f : /\ FlattenSeq(ss) = f[Len(ss)]
                  /\ \A i \in 1..Len(ss) : f[i] = IF i = 1 THEN ss[i] ELSE f[i-1] \o ss[i]
<1> DEFINE f == CHOOSE f : f = [i \in 1..Len(ss) |-> IF i = 1 THEN ss[i] ELSE f[i-1] \o ss[i]]
<1>1. \E g : g = [i \in 1..Len(ss) |-> IF i = 1 THEN ss[i] ELSE g[i-1] \o ss[i]]
  BY FlattensExists, Len(ss) \in 1..Len(ss) DEF Flattens
<1>2. f = [i \in 1..Len(ss) |-> IF i = 1 THEN ss[i] ELSE f[i-1] \o ss[i]]
  BY <1>1
<1>3. FlattenSeq(ss) = f[Len(ss)]
  BY DEF FlattenSeq
<1> HIDE DEF f
<1>4. \A i \in 1..Len(ss) : f[i] = IF i = 1 THEN ss[i] ELSE f[i-1] \o ss[i]
  BY <1>2
<1>5. QED
  BY <1>3, <1>4

\* The list of one block.
LEMMA ListOfOne ==
    ASSUME NEW r \in IdRange
    PROVE  BlocksToList(<<r>>) = [i \in 1..r.stop - r.start + 1 |-> r.start + i - 1]
<1> DEFINE ss == [k \in DOMAIN <<r>> |->
                     [i \in 1..<<r>>[k].stop - <<r>>[k].start + 1 |-> <<r>>[k].start + i - 1]]
<1>1. /\ DOMAIN ss = 1..1 /\ Len(ss) = 1 /\ 1 \in 1..1
      /\ ss[1] = [i \in 1..r.stop - r.start + 1 |-> r.start + i - 1]
  OBVIOUS
<1>2. FlattenSeq(ss) = BlocksToList(<<r>>)
  BY DEF BlocksToList
<1> HIDE DEF ss
<1>3. PICK f : /\ FlattenSeq(ss) = f[Len(ss)]
               /\ \A i \in 1..Len(ss) : f[i] = IF i = 1 THEN ss[i] ELSE f[i-1] \o ss[i]
  BY <1>1, FlattenIs
<1>4. QED
  BY <1>1, <1>2, <1>3

LEMMA SeqIs ==
    ASSUME NEW S, NEW s \in Seq(S)
    PROVE  Len(s) \in Nat /\ DOMAIN s = 1..Len(s) /\ \A p \in DOMAIN s : s[p] \in S
  OBVIOUS

\* The list has the ids of the blocks, each once if no two blocks share one.
LEMMA ListIs ==
    ASSUME NEW ranges \in Seq(IdRange)
    PROVE  LET ids == BlocksToList(ranges)
           IN  /\ ids \in Seq(1..MaxId)
               /\ \A x : x \in Covered(ranges) <=> \E p \in DOMAIN ids : ids[p] = x
               /\ (\A k, l \in DOMAIN ranges : k # l => Ids(ranges[k]) \cap Ids(ranges[l]) = {})
                  => \A p, q \in DOMAIN ids : ids[p] = ids[q] => p = q
<1> DEFINE n == Len(ranges)
           ss == [k \in DOMAIN ranges |->
                     [i \in 1..ranges[k].stop - ranges[k].start + 1 |-> ranges[k].start + i - 1]]
           Apart == \A k, l \in DOMAIN ranges : k # l => Ids(ranges[k]) \cap Ids(ranges[l]) = {}
           Good(k, ids) ==
               /\ ids \in Seq(1..MaxId)
               /\ \A x : (\E p \in DOMAIN ids : ids[p] = x) <=> \E j \in 1..k : x \in Ids(ranges[j])
               /\ Apart => \A p, q \in DOMAIN ids : ids[p] = ids[q] => p = q
<1>1. n \in Nat /\ DOMAIN ranges = 1..n /\ DOMAIN ss = 1..n /\ Len(ss) = n
  OBVIOUS
<1>2. ASSUME NEW k \in 1..n
      PROVE  /\ ss[k] \in Seq(1..MaxId)
             /\ \A x : (\E p \in DOMAIN ss[k] : ss[k][p] = x) <=> x \in Ids(ranges[k])
             /\ \A p, q \in DOMAIN ss[k] : ss[k][p] = ss[k][q] => p = q
  <2>1. PICK a, b : a = ranges[k].start /\ b = ranges[k].stop
    OBVIOUS
  <2>2. a \in 1..MaxId /\ b \in 1..MaxId /\ a <= b /\ MaxId \in Nat
    BY <1>1, <2>1, MeshAssumption DEF IdRange
  <2>3. ss[k] = [i \in 1..b - a + 1 |-> a + i - 1]
    BY <1>1, <2>1
  <2> HIDE DEF ss
  <2>4. DOMAIN ss[k] = 1..b - a + 1 /\ \A i \in 1..b - a + 1 : ss[k][i] = a + i - 1
    BY <2>3
  <2>5. \A i \in 1..b - a + 1 : a + i - 1 \in 1..MaxId
    BY <2>2
  <2>6. b - a + 1 \in Nat
    BY <2>2
  <2>7. ss[k] \in Seq(1..MaxId)
    BY <2>3, <2>5, <2>6, FunctionIsSeq
  <2>8. ASSUME NEW x PROVE (\E p \in DOMAIN ss[k] : ss[k][p] = x) <=> x \in a..b
    <3>1. ASSUME x \in a..b PROVE \E p \in DOMAIN ss[k] : ss[k][p] = x
      <4>1. x - a + 1 \in 1..b - a + 1 /\ a + (x - a + 1) - 1 = x
        BY <2>2, <3>1
      <4>2. QED
        BY <2>4, <4>1
    <3>2. ASSUME NEW p \in 1..b - a + 1, a + p - 1 = x PROVE x \in a..b
      BY <2>2, <3>2
    <3>3. QED
      BY <2>4, <3>1, <3>2
  <2>9. \A x : (\E p \in DOMAIN ss[k] : ss[k][p] = x) <=> x \in Ids(ranges[k])
    BY <2>1, <2>8 DEF Ids
  <2>10. \A p, q \in DOMAIN ss[k] : ss[k][p] = ss[k][q] => p = q
    BY <2>2, <2>4
  <2>11. QED
    BY <2>7, <2>9, <2>10
<1>3. FlattenSeq(ss) = BlocksToList(ranges)
  BY DEF BlocksToList
<1>4. \A x : x \in Covered(ranges) <=> \E j \in 1..n : x \in Ids(ranges[j])
  BY <1>1 DEF Covered
<1>5. CASE n = 0
  <2>1. ss = << >>
    BY <1>1, <1>5
  <2>2. BlocksToList(ranges) = << >>
    BY <1>1, <1>3, <1>5, <2>1 DEF FlattenSeq
  <2>3. QED
    BY <1>1, <1>4, <1>5, <2>2
<1> HIDE DEF ss
<1>6. CASE n # 0
  <2>1. PICK f : /\ FlattenSeq(ss) = f[n]
                 /\ \A i \in 1..n : f[i] = IF i = 1 THEN ss[i] ELSE f[i-1] \o ss[i]
    BY <1>1, <1>6, FlattenIs
  <2> DEFINE Bad == {k \in 1..n : ~Good(k, f[k])}
  <2>2. Good(1, ss[1])
    <3>1. 1 \in 1..n
      BY <1>1, <1>6
    <3>2. \A x : (\E j \in 1..1 : x \in Ids(ranges[j])) <=> x \in Ids(ranges[1])
      OBVIOUS
    <3>3. QED
      BY <1>2, <3>1, <3>2
  <2>3. ASSUME NEW k \in 1..n, k > 1, Good(k - 1, f[k - 1]) PROVE Good(k, f[k])
    <3>1. PICK u, v : u = f[k - 1] /\ v = ss[k]
      OBVIOUS
    <3> HIDE DEF Good
    <3>2. f[k] = u \o v
      <4>1. k \in 1..n /\ k # 1
        BY <1>1, <2>3
      <4>2. f[k] = f[k - 1] \o ss[k]
        BY <2>1, <4>1
      <4>3. QED
        BY <3>1, <4>2
    <3>3. /\ u \in Seq(1..MaxId) /\ v \in Seq(1..MaxId)
          /\ \A x : (\E p \in DOMAIN u : u[p] = x) <=> \E j \in 1..k - 1 : x \in Ids(ranges[j])
          /\ \A x : (\E p \in DOMAIN v : v[p] = x) <=> x \in Ids(ranges[k])
          /\ Apart => \A p, q \in DOMAIN u : u[p] = u[q] => p = q
          /\ \A p, q \in DOMAIN v : v[p] = v[q] => p = q
      <4>1. Good(k - 1, u)
        BY <2>3, <3>1
      <4>2. /\ v \in Seq(1..MaxId)
            /\ \A x : (\E p \in DOMAIN v : v[p] = x) <=> x \in Ids(ranges[k])
            /\ \A p, q \in DOMAIN v : v[p] = v[q] => p = q
        BY <1>2, <3>1
      <4>3. QED
        BY <4>1, <4>2 DEF Good
    <3>4. PICK w : w = u \o v
      OBVIOUS
    <3>5. /\ w \in Seq(1..MaxId) /\ DOMAIN w = 1..Len(u) + Len(v)
          /\ Len(u) \in Nat /\ Len(v) \in Nat /\ DOMAIN u = 1..Len(u) /\ DOMAIN v = 1..Len(v)
          /\ \A p \in 1..Len(u) + Len(v) : w[p] = IF p <= Len(u) THEN u[p] ELSE v[p - Len(u)]
      BY <3>3, <3>4
    <3>6. \A p \in DOMAIN w :
              \/ p \in DOMAIN u /\ w[p] = u[p]
              \/ p - Len(u) \in DOMAIN v /\ w[p] = v[p - Len(u)] /\ p \in Nat
      BY <3>5
    <3>7. /\ \A p \in DOMAIN u : p \in DOMAIN w /\ w[p] = u[p]
          /\ \A p \in DOMAIN v : p + Len(u) \in DOMAIN w /\ w[p + Len(u)] = v[p]
      <4>1. ASSUME NEW p \in DOMAIN v PROVE p + Len(u) \in DOMAIN w /\ w[p + Len(u)] = v[p]
        <5>1. p + Len(u) \in 1..Len(u) + Len(v) /\ ~(p + Len(u) <= Len(u)) /\ (p + Len(u)) - Len(u) = p
          BY <3>5
        <5>2. QED
          BY <3>5, <5>1
      <4>2. QED
        BY <3>5, <4>1
    <3>8. ASSUME NEW x
          PROVE (\E p \in DOMAIN w : w[p] = x) <=> \E j \in 1..k : x \in Ids(ranges[j])
      <4>1. (\E p \in DOMAIN w : w[p] = x) <=> (\E p \in DOMAIN u : u[p] = x) \/ \E p \in DOMAIN v : v[p] = x
        BY <3>6, <3>7
      <4>2. (\E j \in 1..k : x \in Ids(ranges[j]))
            <=> (\E j \in 1..k - 1 : x \in Ids(ranges[j])) \/ x \in Ids(ranges[k])
        <5>1. \A j : j \in 1..k <=> j \in 1..k - 1 \/ j = k
          BY <1>1, <2>3
        <5>2. QED
          BY <5>1
      <4>3. QED
        BY <3>3, <4>1, <4>2
    <3>9. ASSUME Apart, NEW p \in DOMAIN w, NEW q \in DOMAIN w, w[p] = w[q] PROVE p = q
      <4>1. \A i \in DOMAIN u, j \in DOMAIN v : u[i] # v[j]
        <5>1. SUFFICES ASSUME NEW i \in DOMAIN u, NEW j \in DOMAIN v, u[i] = v[j] PROVE FALSE
          OBVIOUS
        <5>2. PICK l \in 1..k - 1 : u[i] \in Ids(ranges[l])
          BY <3>3
        <5>3. u[i] \in Ids(ranges[k])
          BY <3>3, <5>1
        <5>4. l \in 1..n /\ k \in 1..n /\ l # k
          BY <1>1, <2>3
        <5>5. QED
          BY <1>1, <3>9, <5>2, <5>3, <5>4
      <4>2. CASE p \in DOMAIN u
        <5>1. w[p] = u[p]
          BY <3>7, <4>2
        <5>2. q \in DOMAIN u /\ w[q] = u[q]
          BY <3>6, <3>9, <4>1, <4>2, <5>1
        <5>3. QED
          BY <3>3, <3>9, <4>2, <5>1, <5>2
      <4>3. CASE p \notin DOMAIN u
        <5>1. p - Len(u) \in DOMAIN v /\ w[p] = v[p - Len(u)] /\ p \in Nat
          BY <3>6, <4>3
        <5>2. q - Len(u) \in DOMAIN v /\ w[q] = v[q - Len(u)] /\ q \in Nat
          BY <3>6, <3>9, <4>1, <5>1
        <5>3. p - Len(u) = q - Len(u)
          BY <3>3, <3>9, <5>1, <5>2
        <5>4. QED
          BY <3>5, <5>1, <5>2, <5>3
      <4>4. QED
        BY <4>2, <4>3
    <3>10. Good(k, w)
      BY <3>5, <3>8, <3>9 DEF Good
    <3>11. QED
      BY <3>2, <3>4, <3>10
  <2>4. Bad = {}
    <3>1. SUFFICES ASSUME Bad # {} PROVE FALSE
      OBVIOUS
    <3>2. Bad \subseteq 1..n
      OBVIOUS
    <3>3. PICK k : k \in Bad /\ \A j \in Bad : k <= j
      <4> HIDE DEF Bad
      <4>1. Bad \in SUBSET Nat
        BY <1>1, <3>2
      <4>2. Min(Bad) \in Bad /\ \A j \in Bad : Min(Bad) <= j
        BY <3>1, <4>1, LeastElement
      <4>3. QED
        BY <4>2
    <3>4. k \in 1..n /\ ~Good(k, f[k])
      BY <3>3
    <3> HIDE DEF Good
    <3>5. k # 1
      <4>1. f[1] = ss[1]
        BY <1>1, <1>6, <2>1
      <4>2. QED
        BY <2>2, <3>4, <4>1
    <3>6. k > 1 /\ k - 1 \in 1..n /\ ~(k <= k - 1)
      BY <1>1, <3>4, <3>5
    <3>7. Good(k - 1, f[k - 1])
      BY <3>3, <3>6
    <3>8. QED
      BY <2>3, <3>4, <3>6, <3>7
  <2>5. Good(n, f[n])
    <3>1. n \in 1..n /\ n \notin Bad
      <4>1. n \in 1..n
        BY <1>1, <1>6
      <4> HIDE DEF Bad
      <4>2. QED
        BY <2>4, <4>1
    <3> HIDE DEF Good
    <3>2. QED
      BY <3>1
  <2>6. f[n] = BlocksToList(ranges)
    BY <1>3, <2>1
  <2>7. QED
    BY <1>4, <2>5, <2>6
<1>7. QED
  BY <1>5, <1>6

-----------------------------------------------------------------------------
(***************************************************************************)
(* Types.                                                                  *)
(***************************************************************************)
NodesWhole == \A p \in Places : At(p).type = "NODES" => Len(At(p).ranges) = 1

\* What the type invariant says beyond the invariant of MeshProofs, which a step
\* keeps; a family that is not open has no file that is not committed.
TypeInv ==
    /\ files \in Seq(Seq(Entry)) /\ NodesWhole
    /\ cur \in 0..Len(files) /\ fresh \in BOOLEAN /\ (fresh => cur = Len(files))
    /\ proc # "open" => ~fresh
    /\ cached \in [mesh : {0} \cup MeshIds, classes : SUBSET Classes]
    /\ entry \in Entry /\ added \in Nat
    /\ at \in Nat \X Nat
    /\ given \in [MeshIds -> [Classes -> [1..MaxId -> Nat]]]
    /\ clock \in 0..MaxDefs

LEMMA TypesFollow ==
    ASSUME IInv, TypeInv
    PROVE  TypeOK
<1>1. files # << >> /\ meshes \in Seq([name : Names, table : [Classes -> ClassRecord]])
      /\ stranded \in [MeshIds -> [Classes -> SUBSET (1..MaxId)]]
  BY DEF IInv, FilesInv, FilesTyped, MemoryInv, MeshesLoaded, StrandedInv
<1>2. proc \in {"open", "loading", "closed", "failed"} /\ doing \in {"none", "define", "load"}
  BY DEF IInv, CallInv
<1>3. QED
  BY <1>1, <1>2 DEF TypeOK, TypeInv

\* The first of a set of places.
LEMMA FirstIs ==
    ASSUME NEW S, files \in Seq(Seq(S)), NEW P \in SUBSET Places, P # {}
    PROVE  /\ FirstOf(P) \in P
           /\ \A q \in P \ {FirstOf(P)} : Earlier(FirstOf(P), q)
<1>1. \A p \in P : \E i, j \in Nat : p = <<i, j>>
  BY PlaceIs
<1> DEFINE I == {p[1] : p \in P}
<1>2. I \in SUBSET Nat /\ I # {}
  BY <1>1
<1>3. PICK i \in I : \A k \in I : i <= k
  <2> HIDE DEF I
  <2>1. QED
    BY <1>2, LeastElement
<1> DEFINE J == {p[2] : p \in {q \in P : q[1] = i}}
<1>4. J \in SUBSET Nat /\ J # {}
  BY <1>1, <1>3
<1>5. PICK j \in J : \A k \in J : j <= k
  <2> HIDE DEF I, J
  <2>1. QED
    BY <1>4, LeastElement
<1>6. <<i, j>> \in P /\ i \in Nat /\ j \in Nat
  <2>1. PICK p \in P : p[1] = i /\ j = p[2]
    BY <1>5
  <2>2. PICK k, l \in Nat : p = <<k, l>>
    BY <1>1
  <2>3. QED
    BY <2>1, <2>2
<1>7. ASSUME NEW q \in P, q # <<i, j>> PROVE Earlier(<<i, j>>, q)
  <2>1. PICK k, l \in Nat : q = <<k, l>>
    BY <1>1
  <2>2. k \in I
    BY <2>1
  <2>3. i <= k
    BY <1>3, <2>2
  <2>4. k = i => l \in J
    BY <2>1
  <2>5. k = i => j <= l
    BY <1>5, <2>4
  <2>6. k = i => l # j
    BY <1>7, <2>1
  <2> HIDE DEF I, J
  <2>7. i < k \/ (i = k /\ j < l)
    BY <1>6, <2>1, <2>3, <2>5, <2>6
  <2>8. QED
    BY <2>1, <2>7 DEF Earlier
<1> HIDE DEF I, J
<1>8. \E p \in P : \A q \in P \ {p} : Earlier(p, q)
  BY <1>6, <1>7
<1>9. QED
  BY <1>8 DEF FirstOf

\* Max of a set of file numbers.
LEMMA MaxIs ==
    ASSUME NEW n \in Nat, NEW V \in SUBSET (1..n), V # {}
    PROVE  Max(V) \in V
<1> DEFINE T == {n - v : v \in V}
<1>1. T \in SUBSET Nat /\ T # {}
  <2>1. \A v \in V : v \in 1..n /\ n - v \in Nat
    OBVIOUS
  <2>2. QED
    BY <2>1
<1>2. PICK t \in T : \A k \in T : t <= k
  <2> HIDE DEF T
  <2>1. QED
    BY <1>1, LeastElement
<1>3. PICK v \in V : t = n - v
  OBVIOUS
<1>4. \A w \in V : v >= w
  <2>1. SUFFICES ASSUME NEW w \in V PROVE v >= w
    OBVIOUS
  <2>2. n - w \in T
    OBVIOUS
  <2>3. n - v <= n - w
    BY <1>2, <1>3, <2>2
  <2> HIDE DEF T
  <2>4. v \in Nat /\ w \in Nat
    OBVIOUS
  <2>5. QED
    BY <2>3, <2>4
<1> HIDE DEF T
<1>5. QED
  BY <1>4 DEF Max

\* An entry that is entered leaves the files typed, and the last one open.
LEMMA EnterTypes ==
    ASSUME files \in Seq(Seq(Entry)), files # << >>, NEW e \in Entry, Enter(e)
    PROVE  /\ files' \in Seq(Seq(Entry))
           /\ cur' \in 0..Len(files') /\ fresh' = TRUE /\ cur' = Len(files')
<1>1. cur' = Len(files') /\ fresh' = TRUE
  BY DEF Enter
<1>2. files' \in Seq(Seq(Entry))
  <2>1. PICK n : n = Len(files)
    OBVIOUS
  <2>2. n \in Nat /\ n \in DOMAIN files /\ files[n] \in Seq(Entry)
    BY <2>1
  <2>3. Append(files[n], e) \in Seq(Entry) /\ <<e>> \in Seq(Entry)
    BY <2>2
  <2>4. files' = IF fresh THEN [files EXCEPT ![n] = Append(files[n], e)] ELSE Append(files, <<e>>)
    BY <2>1 DEF Enter
  <2> HIDE DEF Entry
  <2>5. CASE fresh
    <3>1. PICK s : s = Append(files[n], e)
      OBVIOUS
    <3>2. QED
      BY <2>2, <2>3, <2>4, <2>5, <3>1
  <2>6. CASE ~fresh
    <3>1. PICK s : s = <<e>>
      OBVIOUS
    <3>2. s \in Seq(Entry) /\ files' = Append(files, s)
      BY <2>3, <2>4, <2>6, <3>1
    <3>3. QED
      BY <3>2
  <2>7. QED
    BY <2>5, <2>6
<1>3. Len(files') \in 0..Len(files')
  <2>1. Len(files') \in Nat
    BY <1>2
  <2>2. QED
    BY <2>1
<1>4. QED
  BY <1>1, <1>2, <1>3

\* And every entry is the new one or as it was.
LEMMA EnterEntries ==
    ASSUME NEW S, files \in Seq(Seq(S)), files # << >>, NEW e \in S, Enter(e)
    PROVE  /\ \A p \in Places' : (At(p)' = e /\ (fresh => p[1] = Len(files)))
                                 \/ (p \in Places /\ At(p)' = At(p))
           /\ \A p \in Places : p \in Places' /\ At(p)' = At(p)
<1>1. PICK n : n = Len(files)
  OBVIOUS
<1>2. n \in Nat /\ n \in 1..n /\ DOMAIN files = 1..n /\ \A i \in 1..n : files[i] \in Seq(S)
  BY <1>1
<1>3. files' = IF fresh THEN [files EXCEPT ![n] = Append(files[n], e)] ELSE Append(files, <<e>>)
  BY <1>1 DEF Enter
<1>4. \A i, j : i \in 1..n /\ j \in DOMAIN files[i] => <<i, j>> \in Places /\ At(<<i, j>>) = files[i][j]
  BY <1>2 DEF Places, At
<1>5. ASSUME NEW i \in DOMAIN files', NEW j \in DOMAIN files'[i]
      PROVE  (files'[i][j] = e /\ (fresh => i = n)) \/ (i \in 1..n /\ j \in DOMAIN files[i] /\ files'[i][j] = files[i][j])
  <2>1. CASE fresh
    <3>1. PICK s, t : s = files[n] /\ t = Append(s, e)
      OBVIOUS
    <3>2. /\ s \in Seq(S) /\ Len(s) \in Nat /\ DOMAIN s = 1..Len(s) /\ DOMAIN t = 1..Len(s) + 1
          /\ t[Len(s) + 1] = e /\ \A k \in 1..Len(s) : t[k] = s[k]
      BY <1>2, <3>1
    <3>3. i \in 1..n /\ files'[i] = IF i = n THEN t ELSE files[i]
      BY <1>2, <1>3, <2>1, <3>1, <1>5
    <3>4. CASE i = n
      <4>1. j \in 1..Len(s) \/ j = Len(s) + 1
        BY <3>2, <3>3, <3>4, <1>5
      <4>2. QED
        BY <3>1, <3>2, <3>3, <3>4, <4>1
    <3>5. CASE i # n
      BY <3>3, <3>5, <1>5
    <3>6. QED
      BY <3>4, <3>5
  <2>2. CASE ~fresh
    <3>1. PICK t : t = <<e>>
      OBVIOUS
    <3>2. files' = Append(files, t)
      BY <1>3, <2>2, <3>1
    <3>3. t \in Seq(S)
      BY <3>1
    <3>4. /\ DOMAIN files' = 1..n + 1 /\ files'[n + 1] = t
          /\ \A k \in 1..n : files'[k] = files[k]
      BY <1>1, <1>2, <3>2, <3>3
    <3>5. i \in 1..n \/ i = n + 1
      BY <1>2, <3>4, <1>5
    <3>6. QED
      BY <2>2, <3>1, <3>4, <3>5, <1>5
  <2>3. QED
    BY <2>1, <2>2
<1>6. ASSUME NEW p \in Places'
      PROVE  (At(p)' = e /\ (fresh => p[1] = n)) \/ (p \in Places /\ At(p)' = At(p))
  <2>1. PICK i \in DOMAIN files' : p \in {i} \X DOMAIN files'[i]
    BY <1>6 DEF Places
  <2>2. PICK j \in DOMAIN files'[i] : p = <<i, j>>
    BY <2>1
  <2>3. At(p)' = files'[i][j]
    BY <2>2 DEF At
  <2>4. QED
    BY <1>4, <1>5, <2>2, <2>3
<1>7. ASSUME NEW i \in 1..n, NEW j \in DOMAIN files[i]
      PROVE  i \in DOMAIN files' /\ j \in DOMAIN files'[i] /\ files'[i][j] = files[i][j]
  <2>1. CASE fresh
    <3>1. PICK s, t : s = files[n] /\ t = Append(s, e)
      OBVIOUS
    <3>2. /\ s \in Seq(S) /\ Len(s) \in Nat /\ DOMAIN s = 1..Len(s) /\ DOMAIN t = 1..Len(s) + 1
          /\ \A k \in 1..Len(s) : t[k] = s[k]
      BY <1>2, <3>1
    <3>3. DOMAIN files' = 1..n /\ files'[i] = IF i = n THEN t ELSE files[i]
      BY <1>2, <1>3, <2>1, <3>1
    <3>4. QED
      BY <3>1, <3>2, <3>3
  <2>2. CASE ~fresh
    <3>1. PICK t : t = <<e>>
      OBVIOUS
    <3>2. files' = Append(files, t) /\ t \in Seq(S)
      BY <1>3, <2>2, <3>1
    <3>3. DOMAIN files' = 1..n + 1 /\ files'[i] = files[i] /\ i \in 1..n + 1
      BY <1>1, <1>2, <3>2
    <3>4. QED
      BY <3>3
  <2>3. QED
    BY <2>1, <2>2
<1>8. ASSUME NEW p \in Places PROVE p \in Places' /\ At(p)' = At(p)
  <2>1. PICK i \in 1..n : p \in {i} \X DOMAIN files[i]
    BY <1>2, <1>8 DEF Places
  <2>2. PICK j \in DOMAIN files[i] : p = <<i, j>>
    BY <2>1
  <2>3. p \in Places'
    BY <1>7, <2>2 DEF Places
  <2>4. QED
    BY <1>7, <2>2, <2>3 DEF At
<1>9. QED
  BY <1>1, <1>6, <1>8

\* And keeps the definitions of nodes whole.
LEMMA EnterWhole ==
    ASSUME files \in Seq(Seq(Entry)), files # << >>, NodesWhole, NEW e \in Entry, Enter(e),
           e.type = "NODES" => Len(e.ranges) = 1
    PROVE  NodesWhole'
<1>1. \A p \in Places' : At(p)' = e \/ (p \in Places /\ At(p)' = At(p))
  BY EnterEntries
<1>2. QED
  BY <1>1 DEF NodesWhole

LEMMA WholeSame ==
    ASSUME NodesWhole, files' = files
    PROVE  NodesWhole'
  BY DEF NodesWhole, Places, At

\* A step that opens files opens some of them.
LEMMA VisitTypes ==
    ASSUME files \in Seq(Seq(Entry)), NEW P \in SUBSET Places, Visit(FilesOf(P)),
           cur \in 0..Len(files), fresh \in BOOLEAN, fresh => cur = Len(files)
    PROVE  cur' \in 0..Len(files) /\ fresh' \in BOOLEAN /\ (fresh' => fresh /\ cur' = Len(files))
<1>1. Len(files) \in Nat /\ FilesOf(P) \subseteq 1..Len(files)
  BY PlaceIs DEF FilesOf
<1>2. cur' = (IF FilesOf(P) = {} THEN cur ELSE Max(FilesOf(P)))
      /\ fresh' = (fresh /\ FilesOf(P) \subseteq {cur})
  BY DEF Visit
<1>3. CASE FilesOf(P) = {}
  BY <1>2, <1>3
<1>4. CASE FilesOf(P) # {}
  <2>1. Max(FilesOf(P)) \in FilesOf(P)
    BY <1>1, <1>4, MaxIs
  <2>2. cur' \in 0..Len(files)
    BY <1>1, <1>2, <1>4, <2>1
  <2>3. ASSUME fresh' PROVE fresh /\ cur' = Len(files)
    BY <1>2, <1>4, <2>1, <2>3
  <2>4. QED
    BY <1>2, <2>2, <2>3
<1>5. QED
  BY <1>3, <1>4

\* The data a caller gives for a list of ids.
LEMMA DataIs ==
    ASSUME NEW ranges \in Seq(IdRange), NEW call \in Nat
    PROVE  Data(ranges, call) \in Seq(Nat \X Nat)
<1>1. PICK ids : ids = BlocksToList(ranges)
  OBVIOUS
<1>2. PICK S : S = 1..MaxId /\ ids \in Seq(S)
  BY <1>1, ListIs
<1>3. /\ Len(ids) \in Nat /\ DOMAIN ids = 1..Len(ids)
      /\ \A p \in DOMAIN ids : ids[p] \in S
  BY <1>2, SeqIs
<1>4. \A p \in DOMAIN ids : <<ids[p], call>> \in Nat \X Nat
  BY <1>2, <1>3
<1>5. [p \in 1..Len(ids) |-> <<ids[p], call>>] \in [1..Len(ids) -> Nat \X Nat]
  BY <1>3, <1>4
<1>6. Data(ranges, call) = [p \in 1..Len(ids) |-> <<ids[p], call>>]
  BY <1>1, <1>3 DEF Data
<1>7. QED
  BY <1>3, <1>5, <1>6, FunctionIsSeq

\* What the invariant of MeshProofs says of files and entries.
LEMMA FilesNamed ==
    ASSUME IInv
    PROVE  /\ files # << >>
           /\ \A m \in DOMAIN meshes : m \in MeshIds
           /\ \A m \in MeshIds : m \in Nat
           /\ MaxId \in Nat /\ MaxDefs \in Nat /\ MaxFiles \in Nat
<1>1. files # << >> /\ MeshesLoaded /\ FilesInv /\ MemoryInv
  BY DEF IInv, FilesInv, FilesTyped, MemoryInv
<1>2. Cardinality(Names) \in Nat
  BY FS_CardinalityType, MeshAssumption
<1>3. QED
  BY <1>1, <1>2, FewMeshes, MeshAssumption DEF MeshIds

LEMMA NewMeshTyped ==
    ASSUME IInv, TypeInv, NEW n \in Names, MakeUmesh(n)
    PROVE  TypeInv'
<1>1. PICK e : e = [NoEntry EXCEPT !.mesh = Len(meshes) + 1, !.name = n]
  OBVIOUS
<1>2. /\ Enter(e) /\ proc = "open"
      /\ UNCHANGED <<cached, proc, doing, entry, added, at, given, clock>>
  BY <1>1 DEF MakeUmesh, Idle
<1>3. e \in Entry /\ e.type # "NODES"
  <2>1. Len(meshes) + 1 \in Nat
    BY DEF IInv, MemoryInv, MeshesLoaded
  <2>2. e = [type |-> "MESH_NAME", mesh |-> Len(meshes) + 1, name |-> n, superclass |-> "none",
             ranges |-> << >>, data |-> << >>]
    BY <1>1 DEF NoEntry
  <2>3. << >> \in Seq(IdRange) /\ << >> \in Seq(Nat \X Nat)
    OBVIOUS
  <2>4. QED
    BY <2>1, <2>2, <2>3 DEF Entry, Types
<1>4. files # << >>
  BY FilesNamed
<1>5. /\ files' \in Seq(Seq(Entry)) /\ NodesWhole'
      /\ cur' \in 0..Len(files') /\ fresh' = TRUE /\ cur' = Len(files')
  BY <1>2, <1>3, <1>4, EnterTypes, EnterWhole DEF TypeInv
<1>6. QED
  BY <1>2, <1>5 DEF TypeInv, Entry, MeshIds

LEMMA NewClassTyped ==
    ASSUME IInv, TypeInv, NEW m \in MeshIds, NEW c \in Classes, NEW s \in Superclasses, DefClass(m, c, s)
    PROVE  TypeInv'
<1>1. PICK e : e = [NoEntry EXCEPT !.type = "CLASS_DEF", !.mesh = m, !.name = c, !.superclass = s]
  OBVIOUS
<1>2. /\ Enter(e) /\ proc = "open"
      /\ UNCHANGED <<cached, proc, doing, entry, added, at, given>>
  BY <1>1 DEF DefClass, Idle
<1>3. e \in Entry /\ e.type # "NODES"
  <2>1. m \in Nat
    BY FilesNamed
  <2>2. e = [type |-> "CLASS_DEF", mesh |-> m, name |-> c, superclass |-> s,
             ranges |-> << >>, data |-> << >>]
    BY <1>1 DEF NoEntry
  <2>3. << >> \in Seq(IdRange) /\ << >> \in Seq(Nat \X Nat)
    OBVIOUS
  <2>4. QED
    BY <2>1, <2>2, <2>3 DEF Entry, Types
<1>4. files # << >>
  BY FilesNamed
<1>5. /\ files' \in Seq(Seq(Entry)) /\ NodesWhole'
      /\ cur' \in 0..Len(files') /\ fresh' = TRUE /\ cur' = Len(files')
  BY <1>2, <1>3, <1>4, EnterTypes, EnterWhole DEF TypeInv
<1>6. clock' \in 0..MaxDefs
  <2>1. /\ clock' = IF c \in Defined(m) THEN clock + 1 ELSE clock
        /\ c \in Defined(m) => clock < MaxDefs
    BY DEF DefClass
  <2>2. clock \in 0..MaxDefs /\ MaxDefs \in Nat
    BY FilesNamed DEF TypeInv
  <2>3. QED
    BY <2>1, <2>2
<1>7. QED
  BY <1>2, <1>5, <1>6 DEF TypeInv, Entry, MeshIds

LEMMA DefineTyped ==
    ASSUME IInv, TypeInv, NEW type \in ObjectTypes, NEW m \in DOMAIN meshes, NEW c \in Classes,
           NEW ranges \in Seq(IdRange), Define(type, m, c, ranges)
    PROVE  TypeInv'
<1>1. PICK x : x = Data(ranges, clock + 1)
  OBVIOUS
<1>2. /\ clock < MaxDefs /\ clock' = clock + 1 /\ added' = 0
      /\ entry' = [type |-> type, mesh |-> m, name |-> c, superclass |-> "none",
                   ranges |-> ranges, data |-> x]
      /\ UNCHANGED <<files, cur, fresh, cached, proc, at, given>>
  BY <1>1 DEF Define
<1>3. clock \in 0..MaxDefs /\ MaxDefs \in Nat /\ m \in Nat
  BY FilesNamed DEF TypeInv
<1>4. clock' \in 0..MaxDefs /\ clock + 1 \in Nat
  BY <1>2, <1>3
<1>5. x \in Seq(Nat \X Nat)
  BY <1>1, <1>4, DataIs
<1>6. entry' \in Entry
  BY <1>2, <1>3, <1>5 DEF Entry, Types
<1>7. NodesWhole'
  BY <1>2, WholeSame DEF TypeInv
<1>8. QED
  BY <1>2, <1>4, <1>6, <1>7 DEF TypeInv, Entry, MeshIds

LEMMA ReadTyped ==
    ASSUME IInv, TypeInv, NEW m, NEW c, NEW type, Read(m, c, type)
    PROVE  TypeInv'
<1>1. /\ Visit(FilesOf(Entries(type, m, c))) /\ proc = "open"
      /\ UNCHANGED <<files, cached, proc, entry, added, at, given, clock>>
  BY DEF Read, Idle
<1>2. Entries(type, m, c) \subseteq Places
  BY DEF Entries
<1>3. cur' \in 0..Len(files) /\ fresh' \in BOOLEAN /\ (fresh' => fresh /\ cur' = Len(files))
  BY <1>1, <1>2, VisitTypes DEF TypeInv
<1>4. NodesWhole'
  BY <1>1, WholeSame DEF TypeInv
<1>5. QED
  BY <1>1, <1>3, <1>4 DEF TypeInv, Entry, MeshIds

LEMMA NoEntryTyped == NoEntry \in Entry
  <1>1. << >> \in Seq(IdRange) /\ << >> \in Seq(Nat \X Nat)
    OBVIOUS
  <1>2. QED
    BY <1>1 DEF NoEntry, Entry, Types

LEMMA ToldTyped ==
    ASSUME given \in [MeshIds -> [Classes -> [1..MaxId -> Nat]]], clock \in Nat, NEW ids
    PROVE  Told(ids) \in [MeshIds -> [Classes -> [1..MaxId -> Nat]]]
<1>1. PICK m, c : m = entry.mesh /\ c = entry.name
  OBVIOUS
<1>2. PICK F : F = [1..MaxId -> Nat]
  OBVIOUS
<1>3. PICK g : g = [id \in 1..MaxId |-> IF id \in ids THEN clock ELSE given[m][c][id]]
  OBVIOUS
<1>4. Told(ids) = [given EXCEPT ![m][c] = g]
  BY <1>1, <1>3 DEF Told
<1>5. ASSUME m \in MeshIds, c \in Classes PROVE g \in F
  <2>1. given[m][c] \in [1..MaxId -> Nat]
    BY <1>5
  <2>2. \A id \in 1..MaxId : given[m][c][id] \in Nat
    BY <2>1
  <2>3. QED
    BY <1>2, <1>3, <2>2
<1>6. QED
  BY <1>2, <1>4, <1>5

LEMMA RefuseTyped ==
    ASSUME IInv, TypeInv, RefuseBlock
    PROVE  TypeInv'
<1>1. /\ proc' = (IF doing = "load" THEN "failed" ELSE proc) /\ doing # "none"
      /\ entry' = NoEntry /\ added' = 0
      /\ UNCHANGED <<files, cur, fresh, cached, at, given, clock>>
  BY DEF RefuseBlock, Done
<1>2. doing = "load" => proc # "open"
  BY DEF IInv, CallInv, LoadInv
<1>3. NodesWhole'
  BY <1>1, WholeSame DEF TypeInv
<1>4. QED
  BY <1>1, <1>2, <1>3, NoEntryTyped DEF TypeInv, Entry, MeshIds

\* The data of a definition some of whose nodes are given again.
LEMMA OverwriteTyped ==
    ASSUME NEW S, NEW data \in Seq(S), NEW r, NEW e, e.data \in Seq(S),
           e.ranges[1].start \in Nat, r.start \in Nat
    PROVE  Overwrite(data, r, e) \in Seq(S)
<1>1. PICK from, new, n : from = e.ranges[1].start - r.start /\ new = e.data /\ n = Len(data)
  OBVIOUS
<1>2. /\ from \in Int /\ Len(new) \in Nat /\ n \in Nat /\ DOMAIN data = 1..n
      /\ \A p \in 1..Len(new) : new[p] \in S
      /\ \A p \in 1..n : data[p] \in S
  BY <1>1, SeqIs
<1>3. PICK x : x = [p \in 1..n |-> IF p > from /\ p <= from + Len(new) THEN new[p - from] ELSE data[p]]
  OBVIOUS
<1>4. Overwrite(data, r, e) = x
  BY <1>1, <1>2, <1>3 DEF Overwrite
<1>5. ASSUME NEW p \in 1..n PROVE x[p] \in S
  <2>1. CASE p > from /\ p <= from + Len(new)
    <3>1. p - from \in 1..Len(new)
      BY <1>2, <2>1
    <3>2. QED
      BY <1>2, <1>3, <2>1, <3>1
  <2>2. CASE ~(p > from /\ p <= from + Len(new))
    BY <1>2, <1>3, <2>2
  <2>3. QED
    BY <2>1, <2>2
<1>6. x \in [1..n -> S]
  BY <1>3, <1>5
<1>7. QED
  BY <1>2, <1>4, <1>6, FunctionIsSeq

\* The definition update_nodes_def writes to is one of nodes that has the block.
LEMMA HitIs ==
    ASSUME files \in Seq(Seq(Entry)), NEW m, NEW c, NEW r, Containing(m, c, r) # {}
    PROVE  /\ FirstOf(Containing(m, c, r)) \in Places
           /\ FirstOf(Containing(m, c, r)) \in Candidates(m, c, r)
           /\ Matches(At(FirstOf(Containing(m, c, r))), "NODES", m, c)
           /\ Ids(r) \subseteq Ids(At(FirstOf(Containing(m, c, r))).ranges[1])
<1>1. Containing(m, c, r) \subseteq Places
  BY DEF Containing, Candidates, Entries
<1>2. FirstOf(Containing(m, c, r)) \in Containing(m, c, r)
  BY <1>1, FirstIs
<1>3. QED
  BY <1>2 DEF Containing, Candidates, Entries

LEMMA UpdateTyped ==
    ASSUME IInv, TypeInv, UpdateNodes
    PROVE  TypeInv'
<1>1. PICK m, c, r : m = entry.mesh /\ c = entry.name /\ r = Block
  OBVIOUS
<1>2. PICK hits, hit : hits = Containing(m, c, r) /\ hit = FirstOf(hits)
  OBVIOUS
<1>3. PICK opened : opened = FilesOf(IF hits = {} THEN Candidates(m, c, r)
                                     ELSE {p \in Candidates(m, c, r) : ~Earlier(hit, p)})
  OBVIOUS
<1>4. /\ doing = "define" /\ entry.type = "NODES" /\ added < Len(entry.ranges)
      /\ files' = IF hits = {} THEN files
                  ELSE [files EXCEPT ![hit[1]][hit[2]].data =
                            Overwrite(@, At(hit).ranges[1], entry)]
      /\ cur' = IF opened = {} \/ Max(opened) = cur THEN cur ELSE 0
      /\ fresh' = (fresh /\ opened \subseteq {cur})
      /\ given' = IF opened # {} \/ cur = 0 THEN Told(Ids(r)) ELSE given
      /\ entry' = NoEntry /\ added' = 0
      /\ UNCHANGED <<cached, proc, at, clock>>
  BY <1>1, <1>2, <1>3 DEF UpdateNodes, Done
<1>5. /\ files \in Seq(Seq(Entry)) /\ Len(files) \in Nat /\ NodesWhole /\ clock \in Nat
      /\ entry \in Entry /\ proc = "open" /\ DefineInv /\ EntryInv
  <2>1. DefineInv /\ EntryInv
    BY <1>4 DEF IInv, CallInv
  <2>2. files \in Seq(Seq(Entry)) /\ NodesWhole /\ entry \in Entry /\ clock \in 0..MaxDefs
    BY DEF TypeInv
  <2>3. Len(files) \in Nat
    BY <2>2, SeqIs
  <2>4. clock \in Nat
    BY <2>2, FilesNamed
  <2>5. QED
    BY <2>1, <2>2, <2>3, <2>4 DEF DefineInv
<1>6. given' \in [MeshIds -> [Classes -> [1..MaxId -> Nat]]]
  BY <1>4, <1>5, ToldTyped DEF TypeInv
<1>7. CASE hits = {}
  <2>1. NodesWhole' /\ files' = files
    BY <1>4, <1>5, <1>7, WholeSame
  <2>2. cur' \in 0..Len(files') /\ fresh' \in BOOLEAN /\ (fresh' => cur' = Len(files'))
    <3>1. fresh' => opened = {} \/ Max(opened) = cur
      <4>1. ASSUME opened = {cur} PROVE Max(opened) = cur
        BY <4>1 DEF Max
      <4>2. QED
        BY <1>4, <4>1
    <3>2. QED
      BY <1>4, <1>5, <2>1, <3>1 DEF TypeInv
  <2>3. QED
    BY <1>4, <1>5, <1>6, <2>1, <2>2, NoEntryTyped DEF TypeInv, Entry, MeshIds
<1>8. CASE hits # {}
  <2>1. hit \in Places /\ Matches(At(hit), "NODES", m, c)
    BY <1>2, <1>5, <1>8, HitIs
  <2>2. PICK i \in 1..Len(files) : \E j \in 1..Len(files[i]) : hit = <<i, j>>
    BY <1>5, <2>1, PlaceIs
  <2>3. PICK j \in 1..Len(files[i]) : hit = <<i, j>>
    BY <2>2
  <2>4. PICK x : x = Overwrite(files[i][j].data, At(hit).ranges[1], entry)
    OBVIOUS
  <2>5. files' = [files EXCEPT ![i][j].data = x]
    BY <1>4, <1>8, <2>3, <2>4
  <2>6. files[i][j] \in Entry /\ At(hit) = files[i][j] /\ files[i] \in Seq(Entry)
    BY <1>5, <2>1, <2>3, PlaceIs DEF At
  <2>7. x \in Seq(Nat \X Nat)
    <3>1. At(hit).ranges \in Seq(IdRange) /\ Len(At(hit).ranges) = 1
      BY <1>5, <2>1, <2>6 DEF NodesWhole, Matches, Entry
    <3>2. entry.ranges \in Seq(IdRange) /\ Len(entry.ranges) = 1
      BY <1>4, <1>5 DEF EntryInv, DefineInv
    <3>3. At(hit).ranges[1] \in IdRange /\ entry.ranges[1] \in IdRange
      BY <3>1, <3>2
    <3>4. At(hit).ranges[1].start \in Nat /\ entry.ranges[1].start \in Nat
      BY <3>3, MeshAssumption DEF IdRange
    <3>5. files[i][j].data \in Seq(Nat \X Nat) /\ entry.data \in Seq(Nat \X Nat)
      BY <1>5, <2>6 DEF Entry
    <3>6. QED
      BY <2>4, <3>4, <3>5, OverwriteTyped
  <2>8. /\ files' \in Seq(Seq(Entry)) /\ Len(files') = Len(files)
        /\ \A p \in Places' : p \in Places /\ At(p).type' = At(p).type /\ At(p).ranges' = At(p).ranges
    <3>1. PICK y : y = [files[i][j] EXCEPT !.data = x]
      OBVIOUS
    <3>2. y \in Entry /\ y.type = files[i][j].type /\ y.ranges = files[i][j].ranges
      <4>1. y = [type |-> files[i][j].type, mesh |-> files[i][j].mesh, name |-> files[i][j].name,
                 superclass |-> files[i][j].superclass, ranges |-> files[i][j].ranges, data |-> x]
        BY <2>6, <3>1 DEF Entry
      <4>2. QED
        BY <2>6, <2>7, <4>1 DEF Entry
    <3>3. PICK s : s = [files[i] EXCEPT ![j] = y]
      OBVIOUS
    <3>4. files' = [files EXCEPT ![i] = s]
      BY <2>5, <3>1, <3>3
    <3> HIDE DEF Entry
    <3>5. /\ s \in Seq(Entry) /\ DOMAIN s = DOMAIN files[i]
          /\ \A k \in DOMAIN s : s[k] = IF k = j THEN y ELSE files[i][k]
      BY <2>6, <3>2, <3>3
    <3>6. /\ files' \in Seq(Seq(Entry)) /\ Len(files') = Len(files) /\ DOMAIN files' = DOMAIN files
          /\ \A k \in DOMAIN files' : files'[k] = IF k = i THEN s ELSE files[k]
      BY <1>5, <3>4, <3>5
    <3>7. ASSUME NEW p \in Places'
          PROVE  p \in Places /\ At(p).type' = At(p).type /\ At(p).ranges' = At(p).ranges
      <4>1. PICK k \in DOMAIN files' : p \in {k} \X DOMAIN files'[k]
        BY DEF Places
      <4>2. PICK l \in DOMAIN files'[k] : p = <<k, l>>
        BY <4>1
      <4>3. k \in DOMAIN files /\ l \in DOMAIN files[k]
        BY <3>5, <3>6, <4>2
      <4>4. p \in Places
        BY <4>2, <4>3 DEF Places
      <4>5. files'[k][l] = files[k][l] \/ (k = i /\ l = j /\ files'[k][l] = y)
        BY <3>5, <3>6, <4>2
      <4>6. At(p)' = files'[k][l] /\ At(p) = files[k][l]
        BY <4>2 DEF At
      <4>7. QED
        BY <3>2, <4>4, <4>5, <4>6
    <3>8. QED
      BY <3>6, <3>7
  <2>9. NodesWhole'
    BY <1>5, <2>8 DEF NodesWhole
  <2>10. cur' \in 0..Len(files') /\ fresh' \in BOOLEAN /\ (fresh' => cur' = Len(files'))
    <3>1. fresh' => opened = {} \/ Max(opened) = cur
      <4>1. ASSUME opened = {cur} PROVE Max(opened) = cur
        BY <4>1 DEF Max
      <4>2. QED
        BY <1>4, <4>1
    <3>2. QED
      BY <1>4, <1>5, <2>8, <3>1 DEF TypeInv
  <2>11. QED
    BY <1>4, <1>5, <1>6, <2>8, <2>9, <2>10, NoEntryTyped DEF TypeInv, Entry, MeshIds
<1>9. QED
  BY <1>7, <1>8

LEMMA DefinesTyped ==
    ASSUME IInv, TypeInv, Defines
    PROVE  TypeInv'
<1>1. /\ Enter(entry) /\ given' = Told(Covered(entry.ranges)) /\ doing = "define"
      /\ entry' = NoEntry /\ added' = 0
      /\ UNCHANGED <<cached, proc, at, clock>>
  BY DEF Defines, Done
<1>2. files # << >> /\ DefineInv /\ clock \in Nat
  <2>1. clock \in 0..MaxDefs /\ MaxDefs \in Nat
    BY FilesNamed DEF TypeInv
  <2>2. QED
    BY <1>1, <2>1, FilesNamed DEF IInv, CallInv
<1>3. entry \in Entry /\ (entry.type = "NODES" => Len(entry.ranges) = 1) /\ proc = "open"
  BY <1>2 DEF TypeInv, DefineInv
<1>4. /\ files' \in Seq(Seq(Entry)) /\ NodesWhole'
      /\ cur' \in 0..Len(files') /\ fresh' = TRUE /\ cur' = Len(files')
  BY <1>1, <1>2, <1>3, EnterTypes, EnterWhole DEF TypeInv
<1>5. given' \in [MeshIds -> [Classes -> [1..MaxId -> Nat]]]
  BY <1>1, <1>2, ToldTyped DEF TypeInv
<1>6. QED
  BY <1>1, <1>3, <1>4, <1>5, NoEntryTyped DEF TypeInv, Entry, MeshIds

\* Where init_meshes goes next.
LEMMA NextTyped ==
    ASSUME files \in Seq(Seq(Entry)), at \in Places
    PROVE  NextPlace \in Nat \X Nat /\ at[1] \in 1..Len(files)
<1>1. PICK i \in 1..Len(files) : \E j \in 1..Len(files[i]) : at = <<i, j>>
  BY PlaceIs
<1>2. PICK j \in 1..Len(files[i]) : at = <<i, j>>
  BY <1>1
<1>3. i \in Nat /\ j \in Nat /\ at[1] = i /\ at[2] = j
  BY <1>1, <1>2
<1>4. QED
  BY <1>3 DEF NextPlace

LEMMA LoadTyped ==
    ASSUME IInv, IInv', TypeInv, Load
    PROVE  TypeInv'
<1>1. files \in Seq(Seq(Entry)) /\ files # << >> /\ Len(files) \in Nat \ {0}
  <2>1. files \in Seq(Seq(Entry)) /\ files # << >>
    BY FilesNamed DEF TypeInv
  <2>2. QED
    BY <2>1
<1>2. files' = files /\ NodesWhole' /\ UNCHANGED <<fresh, cached, given, clock>>
  <2>1. files' = files /\ UNCHANGED <<fresh, cached, given, clock>>
    BY DEF Load, Reopen, LoadMesh, LoadClass, LoadObjects, Loaded, LoadEnds
  <2>2. QED
    BY <2>1, WholeSame DEF TypeInv
<1>3. proc # "open" /\ ~fresh
  <2>1. proc # "open"
    BY DEF Load, Reopen, LoadMesh, LoadClass, LoadObjects, Loaded, LoadEnds, IInv, CallInv, LoadInv
  <2>2. QED
    BY <2>1 DEF TypeInv
<1>4. (LoadMesh \/ LoadClass \/ LoadObjects \/ Loaded) => at \in Places
  <2>1. ASSUME proc = "loading", doing = "none", ~AtEnd PROVE at \in Places
    BY <2>1, LoadStep
  <2>2. Loaded => at \in Places
    BY DEF Loaded, IInv, CallInv, LoadInv
  <2>3. QED
    BY <2>1, <2>2 DEF LoadMesh, LoadClass, LoadObjects
<1>5. cur' \in 0..Len(files)
  <2>1. CASE Reopen
    <3>1. PICK P : P = {p \in Places : At(p).type = "MESH_NAME"}
      OBVIOUS
    <3>2. cur' = IF P = {} THEN 1 ELSE FirstOf(P)[1]
      BY <2>1, <3>1 DEF Reopen
    <3>3. P # {} => FirstOf(P) \in Places
      BY <1>1, <3>1, FirstIs
    <3>4. P # {} => FirstOf(P)[1] \in 1..Len(files)
      BY <1>1, <3>3, PlaceIs
    <3>5. QED
      BY <1>1, <3>2, <3>4
  <2>2. CASE ~Reopen
    <3>1. cur' = cur \/ (cur' = at[1] /\ at \in Places)
      BY <1>4, <2>2 DEF Load, LoadMesh, LoadClass, LoadObjects, Loaded, LoadEnds
    <3>2. at \in Places => at[1] \in 1..Len(files)
      BY <1>1, NextTyped
    <3>3. QED
      BY <1>1, <3>1, <3>2 DEF TypeInv
  <2>3. QED
    BY <2>1, <2>2
<1>6. at' \in Nat \X Nat
  <2>1. at' = at \/ at' \in {<<1, 1>>, <<2, 1>>} \/ (at' = NextPlace /\ at \in Places)
    BY <1>4 DEF Load, Reopen, LoadMesh, LoadClass, LoadObjects, Loaded, LoadEnds
  <2>2. QED
    BY <1>1, <2>1, NextTyped DEF TypeInv
<1>7. entry' \in Entry /\ added' \in Nat
  <2>1. CASE LoadObjects
    <3>1. PICK e, x : /\ e = At(at) /\ added' = 0
                      /\ entry' = IF e.type = "SURFACE_CONNS" THEN [e EXCEPT !.ranges = x] ELSE e
      BY <2>1 DEF LoadObjects
    <3>2. e \in Entry
      BY <1>1, <1>4, <2>1, <3>1, PlaceIs
    <3>3. entry'.ranges = e.ranges
      <4>1. doing' = "load" /\ at' = at
        BY <2>1 DEF LoadObjects
      <4>2. LoadInv'
        BY <4>1 DEF IInv, CallInv
      <4>3. entry'.ranges = At(at)'.ranges
        BY <4>2 DEF LoadInv
      <4>4. QED
        BY <1>2, <3>1, <4>1, <4>3 DEF At
    <3>4. e = [type |-> e.type, mesh |-> e.mesh, name |-> e.name, superclass |-> e.superclass,
               ranges |-> e.ranges, data |-> e.data]
      BY <3>2 DEF Entry
    <3>5. entry' = e
      BY <3>1, <3>3, <3>4
    <3>6. QED
      BY <3>1, <3>2, <3>5
  <2>2. CASE ~LoadObjects
    <3>1. (entry' = entry /\ added' = added) \/ (entry' = NoEntry /\ added' = 0)
      BY <2>2 DEF Load, Reopen, LoadMesh, LoadClass, Loaded, LoadEnds, Done
    <3>2. QED
      BY <3>1, NoEntryTyped DEF TypeInv
  <2>3. QED
    BY <2>1, <2>2
<1>8. QED
  BY <1>2, <1>3, <1>5, <1>6, <1>7 DEF TypeInv, Entry, MeshIds

LEMMA TypeStep ==
    ASSUME IInv, IInv', TypeInv, [Next]_vars
    PROVE  TypeInv'
<1>1. ASSUME NEW n \in Names, MakeUmesh(n) PROVE TypeInv'
  BY <1>1, NewMeshTyped
<1>2. ASSUME NEW m \in MeshIds, Query(m) PROVE TypeInv'
  <2>1. NodesWhole'
    BY <1>2, WholeSame DEF TypeInv, Query
  <2>2. cached' \in [mesh : {0} \cup MeshIds, classes : SUBSET Classes]
    BY <1>2 DEF Query, Defined
  <2>3. QED
    BY <1>2, <2>1, <2>2 DEF TypeInv, Query, Entry, MeshIds
<1>3. ASSUME NEW m \in MeshIds, NEW d \in Declared, DefClass(m, d[1], d[2]) PROVE TypeInv'
  <2>1. d[1] \in Classes /\ d[2] \in Superclasses
    BY MeshAssumption
  <2>2. QED
    BY <1>3, <2>1, NewClassTyped
<1>4. ASSUME NEW m \in MeshIds, NEW c \in Classes, NEW r \in Ranges,
             DefClassIdents(m, c, r) \/ DefNodes(m, c, r) \/ DefConnSeq(m, c, r)
      PROVE  TypeInv'
  <2>1. <<r>> \in Seq(IdRange)
    BY MeshAssumption
  <2>2. m \in DOMAIN meshes /\ \E type \in ObjectTypes : Define(type, m, c, <<r>>)
    BY <1>4 DEF DefClassIdents, DefNodes, DefConnSeq, HasClass, ObjectTypes
  <2>3. QED
    BY <2>1, <2>2, DefineTyped
<1>5. ASSUME NEW m \in MeshIds, NEW c \in Classes, NEW list \in Lists, DefConnArb(m, c, list) PROVE TypeInv'
  <2>1. list \in Seq(IdRange)
    BY MeshAssumption
  <2>2. m \in DOMAIN meshes /\ \E type \in ObjectTypes : Define(type, m, c, list)
    BY <1>5 DEF DefConnArb, HasClass, ObjectTypes
  <2>3. QED
    BY <2>1, <2>2, DefineTyped
<1>6. ASSUME NEW m \in MeshIds, NEW c \in Classes, DefConnSurface(m, c) PROVE TypeInv'
  <2>1. PICK s : s = NextSurface(Class(m, c).blocks)
    OBVIOUS
  <2>2. PICK ranges : ranges = <<[start |-> s, stop |-> s]>>
    OBVIOUS
  <2>3. m \in DOMAIN meshes /\ s <= MaxId /\ \E type \in ObjectTypes : Define(type, m, c, ranges)
    BY <1>6, <2>1, <2>2 DEF DefConnSurface, HasClass, ObjectTypes
  <2>4. s \in Nat /\ s >= 1
    <3>1. BlocksLoaded(m, c)
      BY <2>3 DEF IInv, MemoryInv
    <3>2. Ordered(Class(m, c).blocks)
      BY <3>1 DEF BlocksLoaded
    <3>3. QED
      BY <2>1, <3>2, SurfacePositive
  <2>5. [start |-> s, stop |-> s] \in IdRange
    <3>1. s \in 1..MaxId /\ s <= s
      BY <2>3, <2>4, MeshAssumption
    <3>2. QED
      BY <3>1 DEF IdRange
  <2>6. ranges \in Seq(IdRange)
    BY <2>2, <2>5
  <2>7. QED
    BY <2>3, <2>6, DefineTyped
<1>7. ASSUME NEW m, NEW c, NEW type, Read(m, c, type) PROVE TypeInv'
  BY <1>7, ReadTyped
<1>8. CASE AddBlock
  <2>1. NodesWhole'
    BY <1>8, WholeSame DEF TypeInv, AddBlock
  <2>2. /\ added' = added + 1 /\ added \in Nat
        /\ UNCHANGED <<files, cur, fresh, cached, proc, entry, at, given, clock>>
    BY <1>8 DEF AddBlock, TypeInv
  <2>3. added' \in Nat
    BY <2>2
  <2>4. QED
    BY <2>1, <2>2, <2>3 DEF TypeInv, Entry, MeshIds
<1>9. CASE Steps
  BY <1>8, <1>9, RefuseTyped, UpdateTyped, DefinesTyped DEF Steps
<1>10. CASE Flush
  <2>1. NodesWhole'
    BY <1>10, WholeSame DEF TypeInv, Flush
  <2>2. Len(files) \in Nat
    BY DEF TypeInv
  <2>3. cur' = 0 /\ fresh' = FALSE /\ UNCHANGED <<files, cached, proc, entry, added, at, given, clock>>
    BY <1>10 DEF Flush
  <2>4. cur' \in 0..Len(files)
    BY <2>2, <2>3
  <2>5. QED
    BY <2>1, <2>3, <2>4 DEF TypeInv, Entry, MeshIds
<1>11. CASE Close
  <2>1. NodesWhole'
    BY <1>11, WholeSame DEF TypeInv, Close
  <2>2. Len(files) \in Nat
    BY DEF TypeInv
  <2>3. NoQuery \in [mesh : {0} \cup MeshIds, classes : SUBSET Classes]
    BY DEF NoQuery
  <2>4. /\ cur' = 0 /\ fresh' = FALSE /\ cached' = NoQuery
        /\ UNCHANGED <<files, entry, added, at, given, clock>>
    BY <1>11 DEF Close, ForgetClassData
  <2>5. cur' \in 0..Len(files)
    BY <2>2, <2>4
  <2>6. QED
    BY <2>1, <2>3, <2>4, <2>5 DEF TypeInv, Entry, MeshIds
<1>12. CASE Load
  BY <1>12, LoadTyped
<1>13. CASE UNCHANGED vars
  <2>1. NodesWhole'
    BY <1>13, WholeSame DEF TypeInv, vars
  <2>2. QED
    BY <1>13, <2>1 DEF TypeInv, vars, Entry, MeshIds
<1>14. QED
  BY <1>1, <1>2, <1>3, <1>4, <1>5, <1>6, <1>7, <1>9, <1>10, <1>11, <1>12, <1>13 DEF Next

LEMMA TypeInit == Init => TypeInv
<1>1. SUFFICES ASSUME Init PROVE TypeInv
  OBVIOUS
<1>2. /\ files = << << >> >> /\ cur = 1 /\ fresh = TRUE /\ cached = NoQuery /\ proc = "open"
      /\ entry = NoEntry /\ added = 0 /\ at = <<1, 1>> /\ clock = 0
      /\ given = [m \in MeshIds |-> [c \in Classes |-> [id \in 1..MaxId |-> 0]]]
  BY <1>1 DEF Init
<1>3. files \in Seq(Seq(Entry)) /\ Len(files) = 1
  <2>1. << >> \in Seq(Entry)
    OBVIOUS
  <2> HIDE DEF Entry
  <2>2. QED
    BY <1>2, <2>1
<1>4. NodesWhole
  BY <1>2 DEF NodesWhole, Places
<1>5. cached \in [mesh : {0} \cup MeshIds, classes : SUBSET Classes]
  BY <1>2 DEF NoQuery
<1>6. given \in [MeshIds -> [Classes -> [1..MaxId -> Nat]]]
  BY <1>2
<1>7. clock \in 0..MaxDefs
  BY <1>2, MeshAssumption
<1>8. at \in Nat \X Nat
  BY <1>2
<1>9. QED
  BY <1>2, <1>3, <1>4, <1>5, <1>6, <1>7, <1>8, NoEntryTyped DEF TypeInv

\* The variables have their types, and only the last file may be uncommitted,
\* which is then open: for any meshes, classes and application.
THEOREM TypeCorrect == Spec => []TypeOK
<1>1. IInv /\ TypeInv /\ [Next]_vars => IInv' /\ TypeInv'
  BY NextInv, TypeStep
<1>2. IInv /\ TypeInv => TypeOK
  BY TypesFollow
<1>3. QED
  BY <1>1, <1>2, InitInv, TypeInit, PTL DEF Spec

-----------------------------------------------------------------------------
(***************************************************************************)
(* Data.                                                                   *)
(***************************************************************************)
\* The data of a list of objects, each with the call that gave it.
DataOf(ranges, told) ==
    LET ids == BlocksToList(ranges) IN [k \in DOMAIN ids |-> <<ids[k], told[ids[k]]>>]

\* The data of an entry is what was last told of its objects.
ObjectData ==
    \A p \in Places : \A e, told :
        IsObject(p) /\ e = At(p) /\ told = given[e.mesh][e.name]
        => e.data = DataOf(e.ranges, told)

GivenInFiles ==
    \A m \in MeshIds, c \in Classes, id \in 1..MaxId : given[m][c][id] > 0 =>
        \E p \in Places : IsObject(p) /\ Of(p, m, c) /\ id \in Covered(At(p).ranges)

\* The surfaces of a class are in one file: mc_load_surface counts from each
\* file's first.
SurfacesTogether ==
    \A p, q \in Places :
        /\ At(p).type = "SURFACE_CONNS"
        /\ Matches(At(q), "SURFACE_CONNS", At(p).mesh, At(p).name)
        => p[1] = q[1]

\* What a call in progress brings, and what its guard made sure of.
CallData ==
    doing = "define" =>
        /\ entry.data = Data(entry.ranges, clock)
        /\ /\ entry.type = "NODES" /\ added = 0
           /\ Ids(Block) \cap Covered(Class(entry.mesh, entry.name).blocks) # {}
           => Containing(entry.mesh, entry.name, Block) # {}
        /\ entry.type = "SURFACE_CONNS" =>
               FilesOf(Entries("SURFACE_CONNS", entry.mesh, entry.name))
                   \subseteq (IF fresh THEN {Len(files)} ELSE {})

DataInv == ObjectData /\ GivenInFiles /\ SurfacesTogether /\ CallData

\* The objects of a class are all of one type.
LEMMA OneType ==
    ASSUME FilesInv, NEW p \in Places, NEW q \in Places, IsObject(p), IsObject(q),
           At(p).mesh = At(q).mesh, At(p).name = At(q).name
    PROVE  At(p).type = At(q).type
<1>1. PICK D : files \in Seq(Seq(EntryOf(D)))
  BY DEF FilesInv, FilesTyped
<1>2. PICK m, c : m = At(p).mesh /\ c = At(p).name
  OBVIOUS
<1>3. PICK d \in Places : FirstDef(d, m, c) /\ Fits(At(p).type, At(d).superclass)
  BY <1>2 DEF FilesInv, ClassesNamed
<1>4. PICK e \in Places : FirstDef(e, m, c) /\ Fits(At(q).type, At(e).superclass)
  BY <1>2 DEF FilesInv, ClassesNamed
<1>5. d = e
  <2>1. (d = e \/ Earlier(d, e)) /\ (d = e \/ Earlier(e, d))
    BY <1>3, <1>4 DEF FirstDef
  <2>2. ~(Earlier(d, e) /\ Earlier(e, d))
    BY <1>1, <1>3, <1>4, PlacesOrdered
  <2>3. QED
    BY <2>1, <2>2
<1>6. QED
  BY <1>3, <1>4, <1>5 DEF Fits

\* An id of a class is in one definition.
LEMMA OnePlace ==
    ASSUME FilesInv, NEW p \in Places, NEW q \in Places, IsObject(p), IsObject(q),
           At(p).mesh = At(q).mesh, At(p).name = At(q).name,
           NEW id, id \in Covered(At(p).ranges), id \in Covered(At(q).ranges)
    PROVE  p = q
<1>1. PICK k \in DOMAIN At(p).ranges : id \in Ids(At(p).ranges[k])
  BY DEF Covered
<1>2. PICK l \in DOMAIN At(q).ranges : id \in Ids(At(q).ranges[l])
  BY DEF Covered
<1>3. p # q => <<p, k>> # <<q, l>>
  OBVIOUS
<1>4. QED
  BY <1>1, <1>2, <1>3 DEF FilesInv, IdsOnce

\* Where the datum of an object is in the data of its definition.
LEMMA OffsetIs ==
    ASSUME NEW ranges \in Seq(IdRange), NEW told, NEW id, id \in Covered(ranges)
    PROVE  DataOf(ranges, told)[Offset(ranges, id)] = <<id, told[id]>>
<1>1. PICK ids : ids = BlocksToList(ranges)
  OBVIOUS
<1>2. \E k \in DOMAIN ids : ids[k] = id
  BY <1>1, ListIs
<1>3. PICK k : k = Offset(ranges, id)
  OBVIOUS
<1>4. k = CHOOSE k0 \in DOMAIN ids : ids[k0] = id
  BY <1>1, <1>3 DEF Offset
<1>5. k \in DOMAIN ids /\ ids[k] = id
  BY <1>2, <1>4
<1>6. DataOf(ranges, told) = [j \in DOMAIN ids |-> <<ids[j], told[ids[j]]>>]
  BY <1>1 DEF DataOf
<1>7. DataOf(ranges, told)[k] = <<ids[k], told[ids[k]]>>
  BY <1>5, <1>6
<1>8. QED
  BY <1>3, <1>5, <1>7

\* And of a definition of one block.
LEMMA BlockData ==
    ASSUME NEW r \in IdRange, NEW told
    PROVE  /\ DataOf(<<r>>, told) = [k \in 1..r.stop - r.start + 1 |-> <<r.start + k - 1, told[r.start + k - 1]>>]
           /\ \A id \in Ids(r) : DataOf(<<r>>, told)[id - r.start + 1] = <<id, told[id]>>
<1>1. PICK a, b : a = r.start /\ b = r.stop
  OBVIOUS
<1>2. a \in Nat /\ b \in Nat
  BY <1>1, MeshAssumption DEF IdRange
<1>3. PICK ids : ids = BlocksToList(<<r>>)
  OBVIOUS
<1>4. ids = [i \in 1..b - a + 1 |-> a + i - 1]
  BY <1>1, <1>3, ListOfOne
<1>5. DOMAIN ids = 1..b - a + 1 /\ \A k \in 1..b - a + 1 : ids[k] = a + k - 1
  BY <1>4
<1>6. DataOf(<<r>>, told) = [k \in DOMAIN ids |-> <<ids[k], told[ids[k]]>>]
  BY <1>3 DEF DataOf
<1>7. DataOf(<<r>>, told) = [k \in 1..b - a + 1 |-> <<a + k - 1, told[a + k - 1]>>]
  BY <1>5, <1>6
<1>8. ASSUME NEW id \in a..b PROVE DataOf(<<r>>, told)[id - a + 1] = <<id, told[id]>>
  <2>1. id - a + 1 \in 1..b - a + 1 /\ a + (id - a + 1) - 1 = id
    BY <1>2
  <2>2. DataOf(<<r>>, told)[id - a + 1] = <<a + (id - a + 1) - 1, told[a + (id - a + 1) - 1]>>
    BY <1>7, <2>1
  <2>3. QED
    BY <2>1, <2>2
<1>9. QED
  BY <1>1, <1>7, <1>8 DEF Ids

LEMMA LastOfOne ==
    ASSUME NEW p
    PROVE  LastOf({p}) = p
  BY DEF LastOf

\* The places of a file come in an order.
LEMMA EarlierTrans ==
    ASSUME NEW S, files \in Seq(Seq(S)), NEW p \in Places, NEW q \in Places, NEW r \in Places,
           Earlier(p, q), Earlier(q, r)
    PROVE  Earlier(p, r)
<1>1. \A x \in Places : x[1] \in Nat /\ x[2] \in Nat
  <2>1. \A x \in Places : \E i, j \in Nat : x = <<i, j>>
    BY PlaceIs
  <2>2. QED
    BY <2>1
<1>2. QED
  BY <1>1 DEF Earlier

\* The entry of a surface.
SurfaceAt(p, m, c, s) ==
    /\ p \in Places /\ s \in 1..MaxId
    /\ Matches(At(p), "SURFACE_CONNS", m, c)
    /\ At(p).ranges = <<[start |-> s, stop |-> s]>>

LEMMA SurfaceCovers ==
    ASSUME NEW p, NEW m, NEW c, NEW s, SurfaceAt(p, m, c, s)
    PROVE  Covered(At(p).ranges) = {s} /\ IsObject(p) /\ Of(p, m, c) /\ p \in Places
<1>1. PICK ranges : ranges = <<[start |-> s, stop |-> s]>> /\ ranges = At(p).ranges
  BY DEF SurfaceAt
<1>2. DOMAIN ranges = {1} /\ ranges[1].start = s /\ ranges[1].stop = s
  BY <1>1
<1>3. s..s = {s}
  BY MeshAssumption DEF SurfaceAt
<1>4. Ids(ranges[1]) = {s}
  BY <1>2, <1>3 DEF Ids
<1>5. Covered(ranges) = {s}
  BY <1>2, <1>4 DEF Covered
<1>6. QED
  BY <1>1, <1>5 DEF SurfaceAt, Matches, IsObject, ObjectTypes, Of

\* Every surface has an id, and one of another id but the first is after it.
LEMMA SurfaceHas ==
    ASSUME FilesInv, NEW p \in Places, NEW m, NEW c, Matches(At(p), "SURFACE_CONNS", m, c)
    PROVE  \E s : SurfaceAt(p, m, c, s)
<1>1. PICK s \in 1..MaxId : At(p).ranges = <<[start |-> s, stop |-> s]>>
  BY DEF FilesInv, SurfacesInOrder, Matches
<1>2. QED
  BY <1>1 DEF SurfaceAt

LEMMA SurfaceBefore ==
    ASSUME FilesInv, NEW p, NEW m, NEW c, NEW s, SurfaceAt(p, m, c, s), s > 1
    PROVE  \E q : SurfaceAt(q, m, c, s - 1) /\ Earlier(q, p)
<1>1. /\ p \in Places /\ Covered(At(p).ranges) = {s} /\ IsObject(p) /\ Of(p, m, c)
      /\ At(p).type = "SURFACE_CONNS" /\ At(p).mesh = m /\ At(p).name = c
  BY SurfaceCovers DEF SurfaceAt, Matches
<1>2. PICK t \in 1..MaxId :
          /\ At(p).ranges = <<[start |-> t, stop |-> t]>>
          /\ t > 1 => \E q \in Places : /\ IsObject(q) /\ Of(q, m, c)
                                        /\ Earlier(q, p) /\ t - 1 \in Covered(At(q).ranges)
  BY <1>1 DEF FilesInv, SurfacesInOrder
<1>3. t = s
  <2>1. SurfaceAt(p, m, c, t)
    BY <1>1, <1>2 DEF SurfaceAt, Matches
  <2>2. QED
    BY <1>1, <2>1, SurfaceCovers
<1>4. PICK q \in Places : IsObject(q) /\ Of(q, m, c) /\ Earlier(q, p) /\ s - 1 \in Covered(At(q).ranges)
  BY <1>2, <1>3
<1>5. At(q).type = "SURFACE_CONNS"
  BY <1>1, <1>4, OneType DEF Of
<1>6. Matches(At(q), "SURFACE_CONNS", m, c)
  BY <1>4, <1>5 DEF Matches, Of
<1>7. PICK u : SurfaceAt(q, m, c, u)
  BY <1>6, SurfaceHas
<1>8. u = s - 1
  BY <1>4, <1>7, SurfaceCovers
<1>9. QED
  BY <1>4, <1>7, <1>8

LEMMA SurfaceOnce ==
    ASSUME FilesInv, NEW p, NEW q, NEW m, NEW c, NEW s, SurfaceAt(p, m, c, s), SurfaceAt(q, m, c, s)
    PROVE  p = q
<1>1. /\ p \in Places /\ q \in Places /\ IsObject(p) /\ IsObject(q) /\ Of(p, m, c) /\ Of(q, m, c)
      /\ s \in Covered(At(p).ranges) /\ s \in Covered(At(q).ranges)
  BY SurfaceCovers
<1>2. At(p).mesh = At(q).mesh /\ At(p).name = At(q).name
  BY <1>1 DEF Of
<1>3. QED
  BY <1>1, <1>2, OnePlace

\* Earlier surfaces of a class have smaller ids.
LEMMA EarlierSurface ==
    ASSUME FilesInv, NEW p, NEW q, NEW m, NEW c, NEW s, NEW t,
           SurfaceAt(p, m, c, s), SurfaceAt(q, m, c, t), Earlier(q, p)
    PROVE  t < s
<1>1. PICK D : files \in Seq(Seq(EntryOf(D)))
  BY DEF FilesInv, FilesTyped
<1>2. s \in 1..MaxId /\ t \in 1..MaxId /\ p \in Places /\ q \in Places /\ MaxId \in Nat
  BY MeshAssumption DEF SurfaceAt
<1> DEFINE U == {u \in s..MaxId : \E x : SurfaceAt(x, m, c, u) /\ Earlier(x, p)}
<1>3. SUFFICES ASSUME ~(t < s) PROVE FALSE
  OBVIOUS
<1>4. U \in SUBSET Nat /\ t \in U
  BY <1>2, <1>3
<1>5. PICK u : u \in U /\ \A k \in U : u <= k
  <2> HIDE DEF U
  <2>1. Min(U) \in U /\ \A k \in U : Min(U) <= k
    BY <1>4, LeastElement
  <2>2. QED
    BY <2>1
<1>6. PICK x : SurfaceAt(x, m, c, u) /\ Earlier(x, p)
  BY <1>5
<1>7. u # s
  <2>1. u = s => x = p
    BY <1>6, SurfaceOnce
  <2>2. QED
    BY <1>1, <1>2, <1>6, <2>1, PlacesOrdered
<1>8. u \in s..MaxId /\ u > 1 /\ u - 1 \in s..MaxId /\ ~(u <= u - 1)
  BY <1>2, <1>5, <1>7
<1>9. PICK y : SurfaceAt(y, m, c, u - 1) /\ Earlier(y, x)
  BY <1>6, <1>8, SurfaceBefore
<1>10. Earlier(y, p)
  BY <1>1, <1>2, <1>6, <1>9, EarlierTrans DEF SurfaceAt
<1>11. u - 1 \in U
  BY <1>8, <1>9, <1>10
<1>12. QED
  BY <1>5, <1>8, <1>11

\* And every smaller id has an earlier surface.
LEMMA SmallerSurface ==
    ASSUME FilesInv, NEW p, NEW m, NEW c, NEW s, SurfaceAt(p, m, c, s), NEW k \in 1..s - 1
    PROVE  \E q : SurfaceAt(q, m, c, k) /\ Earlier(q, p)
<1>1. PICK D : files \in Seq(Seq(EntryOf(D)))
  BY DEF FilesInv, FilesTyped
<1>2. s \in 1..MaxId /\ p \in Places /\ MaxId \in Nat
  BY MeshAssumption DEF SurfaceAt
<1> DEFINE Has(j) == \E q : SurfaceAt(q, m, c, j) /\ Earlier(q, p)
           T == {i \in 1..s - 1 : ~Has(s - i)}
<1>3. SUFFICES ASSUME ~Has(k) PROVE FALSE
  OBVIOUS
<1>4. T \in SUBSET Nat /\ s - k \in T
  <2>1. s - k \in 1..s - 1 /\ s - (s - k) = k
    BY <1>2
  <2> HIDE DEF Has
  <2>2. ~Has(s - (s - k))
    BY <1>3, <2>1
  <2>3. QED
    BY <2>1, <2>2
<1>5. PICK i : i \in T /\ \A j \in T : i <= j
  <2> HIDE DEF T
  <2>1. Min(T) \in T /\ \A j \in T : Min(T) <= j
    BY <1>4, LeastElement
  <2>2. QED
    BY <2>1
<1>6. i \in 1..s - 1 /\ ~Has(s - i)
  BY <1>5
<1>7. \E x : SurfaceAt(x, m, c, s - i + 1) /\ (x = p \/ Earlier(x, p))
  <2>1. CASE i = 1
    <3>1. s - i + 1 = s
      BY <1>2, <2>1
    <3>2. QED
      BY <3>1
  <2>2. CASE i # 1
    <3>1. i - 1 \in 1..s - 1 /\ ~(i <= i - 1) /\ s - (i - 1) = s - i + 1
      BY <1>2, <1>6, <2>2
    <3>2. i - 1 \notin T
      <4> HIDE DEF T
      <4>1. QED
        BY <1>5, <3>1
    <3>3. Has(s - (i - 1))
      BY <3>1, <3>2
    <3>4. QED
      BY <3>1, <3>3
  <2>3. QED
    BY <2>1, <2>2
<1>8. PICK x : SurfaceAt(x, m, c, s - i + 1) /\ (x = p \/ Earlier(x, p))
  BY <1>7
<1>9. s - i + 1 > 1 /\ (s - i + 1) - 1 = s - i
  BY <1>2, <1>6
<1>10. PICK y : SurfaceAt(y, m, c, s - i) /\ Earlier(y, x)
  BY <1>8, <1>9, SurfaceBefore
<1>11. Earlier(y, p)
  BY <1>1, <1>2, <1>8, <1>10, EarlierTrans DEF SurfaceAt
<1>12. QED
  BY <1>6, <1>10, <1>11

\* So a surface of a class that is in one file has as many before it as its id says.
LEMMA SurfacesCount ==
    ASSUME FilesInv, SurfacesTogether, NEW p, NEW m, NEW c, NEW s, SurfaceAt(p, m, c, s)
    PROVE  Cardinality(PrecedingInFile("SURFACE_CONNS", p)) = s - 1
<1>1. /\ s \in 1..MaxId /\ p \in Places /\ MaxId \in Nat
      /\ At(p).type = "SURFACE_CONNS" /\ At(p).mesh = m /\ At(p).name = c
  BY MeshAssumption DEF SurfaceAt, Matches
<1>2. PICK n : n = s - 1 /\ n \in Nat
  BY <1>1
<1> DEFINE P == PrecedingInFile("SURFACE_CONNS", p)
           g == [k \in 1..n |-> CHOOSE q : SurfaceAt(q, m, c, k) /\ Earlier(q, p)]
<1>3. \A q : q \in P <=> \E k : SurfaceAt(q, m, c, k) /\ Earlier(q, p)
  <2>1. \A q : q \in P <=> /\ q \in Places /\ Matches(At(q), "SURFACE_CONNS", m, c)
                           /\ Earlier(q, p) /\ q[1] = p[1]
    BY <1>1 DEF PrecedingInFile, Entries
  <2>2. \A q \in Places : Matches(At(q), "SURFACE_CONNS", m, c) => q[1] = p[1]
    BY <1>1 DEF SurfacesTogether, Matches
  <2>3. \A q : (\E k : SurfaceAt(q, m, c, k)) <=> q \in Places /\ Matches(At(q), "SURFACE_CONNS", m, c)
    BY SurfaceHas DEF SurfaceAt
  <2> HIDE DEF P
  <2>4. QED
    BY <2>1, <2>2, <2>3
<1>4. \A k \in 1..n : SurfaceAt(g[k], m, c, k) /\ Earlier(g[k], p)
  <2>1. SUFFICES ASSUME NEW k \in 1..n PROVE SurfaceAt(g[k], m, c, k) /\ Earlier(g[k], p)
    OBVIOUS
  <2>2. \E q : SurfaceAt(q, m, c, k) /\ Earlier(q, p)
    BY <1>2, SmallerSurface
  <2>3. g[k] = CHOOSE q : SurfaceAt(q, m, c, k) /\ Earlier(q, p)
    OBVIOUS
  <2> HIDE DEF g
  <2>4. QED
    BY <2>2, <2>3
<1>5. DOMAIN g = 1..n /\ g = [k \in 1..n |-> g[k]]
  OBVIOUS
<1> HIDE DEF P, g
<1>6. \A k \in 1..n : g[k] \in P
  BY <1>3, <1>4
<1>7. g \in [1..n -> P]
  BY <1>5, <1>6
<1>8. \A k, l \in 1..n : g[k] = g[l] => k = l
  <2>1. \A k \in 1..n : Covered(At(g[k]).ranges) = {k}
    BY <1>4, SurfaceCovers
  <2>2. QED
    BY <2>1
<1>9. \A q \in P : \E k \in 1..n : g[k] = q
  <2>1. SUFFICES ASSUME NEW q \in P PROVE \E k \in 1..n : g[k] = q
    OBVIOUS
  <2>2. PICK k : SurfaceAt(q, m, c, k) /\ Earlier(q, p)
    BY <1>3
  <2>3. k < s
    BY <2>2, EarlierSurface
  <2>4. k \in 1..n
    BY <1>1, <1>2, <2>2, <2>3 DEF SurfaceAt
  <2>5. g[k] = q
    BY <1>4, <2>2, <2>4, SurfaceOnce
  <2>6. QED
    BY <2>4, <2>5
<1>10. g \in Bijection(1..n, P)
  BY <1>5, <1>7, <1>8, <1>9 DEF Bijection, Injection, IsInjective, Surjection
<1>11. ExistsBijection(1..n, P)
  BY <1>10 DEF ExistsBijection
<1>12. Cardinality(P) = n
  BY <1>2, <1>11, FS_CountingElements
<1>13. QED
  BY <1>2, <1>12 DEF P

\* A reader finds the datum of an id in its place.
LEMMA DataRead ==
    ASSUME FilesInv, files \in Seq(Seq(Entry)), NodesWhole, ObjectData, SurfacesTogether,
           NEW m, NEW c, NEW p \in Places, IsObject(p), Of(p, m, c),
           NEW id, id \in Covered(At(p).ranges)
    PROVE  /\ At(p).type # "SURFACE_CONNS" =>
                  ReadObject(m, c, At(p).type, id) = <<id, given[m][c][id]>>
           /\ At(p).type = "SURFACE_CONNS" => ReadSurface(m, c, id) = <<id, given[m][c][id]>>
<1>1. /\ At(p).ranges \in Seq(IdRange) /\ At(p).mesh = m /\ At(p).name = c
      /\ At(p).data = DataOf(At(p).ranges, given[m][c])
  <2>1. At(p) \in Entry
    BY PlaceIs
  <2>2. QED
    BY <2>1 DEF Entry, Of, ObjectData
<1>2. At(p).data[Offset(At(p).ranges, id)] = <<id, given[m][c][id]>>
  BY <1>1, OffsetIs
<1>3. \A q \in Places : IsObject(q) /\ Of(q, m, c) /\ id \in Covered(At(q).ranges) => q = p
  BY <1>1, OnePlace DEF Of
<1>4. ASSUME At(p).type # "SURFACE_CONNS"
      PROVE  ReadObject(m, c, At(p).type, id) = <<id, given[m][c][id]>>
  <2>1. PICK type : type = At(p).type
    OBVIOUS
  <2>2. {q \in Entries(type, m, c) : id \in Covered(At(q).ranges)} = {p}
    <3>1. \A q : q \in Entries(type, m, c) <=> q \in Places /\ At(q).type = type /\ Of(q, m, c)
      BY DEF Entries, Matches, Of
    <3>2. \A q \in Places : At(q).type = type => IsObject(q)
      BY <2>1 DEF IsObject
    <3>3. \A q : q \in Entries(type, m, c) /\ id \in Covered(At(q).ranges) <=> q = p
      BY <1>3, <2>1, <3>1, <3>2
    <3>4. QED
      BY <3>3
  <2>3. LastOf({q \in Entries(type, m, c) : id \in Covered(At(q).ranges)}) = p
    BY <2>2, LastOfOne
  <2>4. ReadObject(m, c, type, id) =
            IF type = "NODES" THEN NodeOf(At(p), id) ELSE At(p).data[Offset(At(p).ranges, id)]
    BY <2>3 DEF ReadObject
  <2>5. CASE type = "NODES"
    <3>1. PICK r : r = At(p).ranges[1]
      OBVIOUS
    <3>2. Len(At(p).ranges) = 1
      BY <2>1, <2>5 DEF NodesWhole
    <3>3. At(p).ranges = <<r>> /\ r \in IdRange
      BY <1>1, <3>1, <3>2
    <3>4. id \in Ids(r)
      <4>1. DOMAIN At(p).ranges = {1}
        BY <3>3
      <4>2. QED
        BY <3>1, <4>1 DEF Covered
    <3>5. At(p).data[id - r.start + 1] = <<id, given[m][c][id]>>
      <4>1. PICK told, data : told = given[m][c] /\ data = DataOf(<<r>>, told)
        OBVIOUS
      <4>2. data[id - r.start + 1] = <<id, told[id]>>
        BY <3>3, <3>4, <4>1, BlockData
      <4>3. At(p).data = data
        BY <1>1, <3>3, <4>1
      <4>4. QED
        BY <4>1, <4>2, <4>3
    <3>6. QED
      BY <2>1, <2>4, <2>5, <3>1, <3>5 DEF NodeOf
  <2>6. CASE type # "NODES"
    BY <1>2, <2>1, <2>4, <2>6
  <2>7. QED
    BY <2>5, <2>6
<1>5. ASSUME At(p).type = "SURFACE_CONNS" PROVE ReadSurface(m, c, id) = <<id, given[m][c][id]>>
  <2>1. Matches(At(p), "SURFACE_CONNS", m, c)
    BY <1>1, <1>5 DEF Matches
  <2>2. SurfaceAt(p, m, c, id)
    <3>1. PICK s : SurfaceAt(p, m, c, s)
      BY <2>1, SurfaceHas
    <3>2. id = s
      BY <3>1, SurfaceCovers
    <3>3. QED
      BY <3>1, <3>2
  <2>3. /\ DOMAIN files = 1..Len(files)
        /\ \A q \in Places : q[1] \in 1..Len(files)
    <3>1. DOMAIN files = 1..Len(files)
      BY PlaceIs
    <3>2. \A q \in Places : \E i \in 1..Len(files) : q[1] = i
      BY PlaceIs
    <3>3. QED
      BY <3>1, <3>2
  <2>4. ASSUME NEW q
        PROVE  (\E i \in DOMAIN files : q \in NthInFile(m, c, i, id)) <=> q = p
    <3>1. (\E i \in DOMAIN files : q \in NthInFile(m, c, i, id))
          <=> /\ q \in Places /\ Matches(At(q), "SURFACE_CONNS", m, c)
              /\ Cardinality(PrecedingInFile("SURFACE_CONNS", q)) = id - 1
      BY <2>3 DEF NthInFile, Entries
    <3>2. ASSUME q \in Places, Matches(At(q), "SURFACE_CONNS", m, c),
                 Cardinality(PrecedingInFile("SURFACE_CONNS", q)) = id - 1
          PROVE  q = p
      <4>1. PICK s : SurfaceAt(q, m, c, s)
        BY <3>2, SurfaceHas
      <4>2. id - 1 = s - 1
        BY <3>2, <4>1, SurfacesCount
      <4>3. id = s
        BY <2>2, <4>1, <4>2 DEF SurfaceAt
      <4>4. QED
        BY <2>2, <4>1, <4>3, SurfaceOnce
    <3>3. Cardinality(PrecedingInFile("SURFACE_CONNS", p)) = id - 1
      BY <2>2, SurfacesCount
    <3>4. QED
      BY <2>1, <3>1, <3>2, <3>3
  <2>5. UNION {NthInFile(m, c, i, id) : i \in DOMAIN files} = {p}
    BY <2>4
  <2>6. ReadSurface(m, c, id) = SurfaceOf(At(p))
    BY <2>5, LastOfOne DEF ReadSurface, SurfaceRead
  <2>7. At(p).data[1] = <<id, given[m][c][id]>>
    <3>1. PICK r : r = [start |-> id, stop |-> id]
      OBVIOUS
    <3>2. At(p).ranges = <<r>>
      BY <2>2, <3>1 DEF SurfaceAt
    <3>3. r \in IdRange /\ id \in Ids(r) /\ id - r.start + 1 = 1
      <4>1. id \in 1..MaxId /\ MaxId \in Nat
        BY <2>2, MeshAssumption DEF SurfaceAt
      <4>2. id <= id /\ id \in id..id /\ id - id + 1 = 1
        BY <4>1
      <4>3. QED
        BY <3>1, <4>1, <4>2 DEF IdRange, Ids
    <3>4. PICK told, data : told = given[m][c] /\ data = DataOf(<<r>>, told)
      OBVIOUS
    <3>5. data[1] = <<id, told[id]>>
      <4>1. data[id - r.start + 1] = <<id, told[id]>>
        BY <3>3, <3>4, BlockData
      <4>2. QED
        BY <3>3, <4>1
    <3>6. At(p).data = data
      BY <1>1, <3>2, <3>4
    <3>7. QED
      BY <3>4, <3>5, <3>6
  <2>8. QED
    BY <2>6, <2>7 DEF SurfaceOf
<1>6. QED
  BY <1>4, <1>5

\* So what was given is read back.
LEMMA DataFollows ==
    ASSUME IInv, TypeInv, ObjectData, GivenInFiles, SurfacesTogether
    PROVE  DataLoaded
<1>1. FilesInv /\ files \in Seq(Seq(Entry)) /\ NodesWhole /\ MemoryInv
  BY DEF IInv, TypeInv
<1>2. SUFFICES ASSUME Idle, NEW m \in DOMAIN meshes, NEW c \in Classes, NEW id \in 1..MaxId,
                      given[m][c][id] > 0
      PROVE  LET datum == <<id, given[m][c][id]>>
             IN  CASE HasClass(m, c, {"node"})    -> ReadObject(m, c, "NODES", id) = datum
                   [] HasClass(m, c, {"element"}) -> ReadObject(m, c, "ELEM_CONNS", id) = datum
                   [] HasClass(m, c, {"surface"}) -> ReadSurface(m, c, id) = datum
                   [] HasClass(m, c, {"ident"})   -> ReadObject(m, c, "CLASS_IDENTS", id) = datum
  BY DEF DataLoaded
<1>3. m \in MeshIds
  BY FilesNamed
<1>4. PICK p \in Places : IsObject(p) /\ Of(p, m, c) /\ id \in Covered(At(p).ranges)
  BY <1>2, <1>3 DEF GivenInFiles
<1>5. PICK q \in Places : FirstDef(q, m, c) /\ Fits(At(p).type, At(q).superclass)
  BY <1>1, <1>4 DEF FilesInv, ClassesNamed, Of
<1>6. Known = Places
  BY <1>2 DEF Idle, Known, Seen
<1>7. Class(m, c).superclass = At(q).superclass
  BY <1>1, <1>2, <1>5, <1>6, SuperclassIs DEF MemoryInv
<1>8. Fits(At(p).type, Class(m, c).superclass)
  BY <1>5, <1>7
<1>9. /\ At(p).type # "SURFACE_CONNS" =>
             ReadObject(m, c, At(p).type, id) = <<id, given[m][c][id]>>
      /\ At(p).type = "SURFACE_CONNS" => ReadSurface(m, c, id) = <<id, given[m][c][id]>>
  BY <1>1, <1>4, DataRead
<1>10. PICK s : s = Class(m, c).superclass
  OBVIOUS
<1>11. /\ HasClass(m, c, {"node"}) <=> s = "node"
       /\ HasClass(m, c, {"element"}) <=> s = "element"
       /\ HasClass(m, c, {"surface"}) <=> s = "surface"
       /\ HasClass(m, c, {"ident"}) <=> s = "ident"
  BY <1>2, <1>10 DEF HasClass
<1>12. \/ s = "node" /\ ReadObject(m, c, "NODES", id) = <<id, given[m][c][id]>>
       \/ s = "element" /\ ReadObject(m, c, "ELEM_CONNS", id) = <<id, given[m][c][id]>>
       \/ s = "surface" /\ ReadSurface(m, c, id) = <<id, given[m][c][id]>>
       \/ s = "ident" /\ ReadObject(m, c, "CLASS_IDENTS", id) = <<id, given[m][c][id]>>
  BY <1>8, <1>9, <1>10 DEF Fits
<1>13. CASE s = "node"
  BY <1>11, <1>12, <1>13
<1>14. CASE s = "element"
  BY <1>11, <1>12, <1>14
<1>15. CASE s = "surface"
  BY <1>11, <1>12, <1>15
<1>16. CASE s = "ident"
  BY <1>11, <1>12, <1>16
<1>17. QED
  BY <1>12, <1>13, <1>14, <1>15, <1>16

\* What it says after a step.
LEMMA ObjectDataNext ==
    ASSUME \A p \in Places' : \A e, told :
               IsObject(p)' /\ e = At(p)' /\ told = given'[e.mesh][e.name]
               => e.data = DataOf(e.ranges, told)
    PROVE  ObjectData'
  BY DEF ObjectData

\* Steps that leave files and objects alone.
LEMMA DataSame ==
    ASSUME ObjectData, GivenInFiles, SurfacesTogether, files' = files, given' = given
    PROVE  ObjectData' /\ GivenInFiles' /\ SurfacesTogether'
<1>1. Places' = Places /\ \A p : At(p)' = At(p)
  BY DEF Places, At
<1>2. ObjectData'
  <2>1. SUFFICES ASSUME NEW p \in Places', NEW e, NEW told, IsObject(p)', e = At(p)',
                        told = given'[e.mesh][e.name]
                 PROVE  e.data = DataOf(e.ranges, told)
    BY ObjectDataNext
  <2>2. p \in Places /\ At(p) = e /\ IsObject(p)
    BY <1>1, <2>1 DEF IsObject
  <2>3. QED
    BY <2>1, <2>2 DEF ObjectData
<1>3. GivenInFiles'
  BY <1>1 DEF GivenInFiles, IsObject, Of, Covered, MeshIds
<1>4. SurfacesTogether'
  BY <1>1 DEF SurfacesTogether, Matches
<1>5. QED
  BY <1>2, <1>3, <1>4

\* An entry that is not about objects is entered.
LEMMA DataEnter ==
    ASSUME IInv, TypeInv, DataInv, NEW e \in Entry, Enter(e), e.type \notin ObjectTypes,
           given' = given, doing' = "none"
    PROVE  DataInv'
<1>1. files \in Seq(Seq(Entry)) /\ files # << >>
  BY FilesNamed DEF TypeInv
<1>2. /\ \A p \in Places' : At(p)' = e \/ (p \in Places /\ At(p)' = At(p))
      /\ \A p \in Places : p \in Places' /\ At(p)' = At(p)
  BY <1>1, EnterEntries
<1>3. \A p \in Places' : At(p).type' \in ObjectTypes => p \in Places /\ At(p)' = At(p)
  BY <1>2
<1>4. ObjectData'
  <2>1. SUFFICES ASSUME NEW p \in Places', NEW x, NEW told, IsObject(p)', x = At(p)',
                        told = given'[x.mesh][x.name]
                 PROVE  x.data = DataOf(x.ranges, told)
    BY ObjectDataNext
  <2>2. p \in Places /\ At(p) = x /\ IsObject(p)
    BY <1>3, <2>1 DEF IsObject
  <2>3. QED
    BY <2>1, <2>2 DEF DataInv, ObjectData
<1>5. GivenInFiles'
  <2>1. SUFFICES ASSUME NEW m \in MeshIds, NEW c \in Classes, NEW id \in 1..MaxId, given[m][c][id] > 0
                 PROVE  \E p \in Places' : IsObject(p)' /\ Of(p, m, c)' /\ id \in Covered(At(p).ranges)'
    BY DEF GivenInFiles, MeshIds
  <2>2. PICK p \in Places : IsObject(p) /\ Of(p, m, c) /\ id \in Covered(At(p).ranges)
    BY <2>1 DEF DataInv, GivenInFiles
  <2>3. QED
    BY <1>2, <2>2 DEF IsObject, Of, Covered
<1>6. SurfacesTogether'
  <2>1. SUFFICES ASSUME NEW p \in Places', NEW q \in Places', At(p).type' = "SURFACE_CONNS",
                        Matches(At(q), "SURFACE_CONNS", At(p).mesh, At(p).name)'
                 PROVE  p[1] = q[1]
    BY DEF SurfacesTogether
  <2>2. /\ p \in Places /\ At(p)' = At(p) /\ q \in Places /\ At(q)' = At(q)
    BY <1>3, <2>1 DEF Matches, ObjectTypes
  <2>3. QED
    BY <2>1, <2>2 DEF DataInv, SurfacesTogether, Matches
<1>7. QED
  BY <1>4, <1>5, <1>6 DEF DataInv, CallData

\* A call begins.
LEMMA DataDefine ==
    ASSUME IInv, TypeInv, DataInv, NEW type \in ObjectTypes, NEW m, NEW c, NEW ranges \in Seq(IdRange),
           Define(type, m, c, ranges),
           type = "NODES" => /\ Len(ranges) = 1
                             /\ Ids(ranges[1]) \cap Covered(Class(m, c).blocks) # {}
                                    => Containing(m, c, ranges[1]) # {},
           type = "SURFACE_CONNS" =>
               FilesOf(Entries("SURFACE_CONNS", m, c)) \subseteq (IF fresh THEN {Len(files)} ELSE {})
    PROVE  DataInv'
<1>1. PICK x : x = Data(ranges, clock + 1)
  OBVIOUS
<1>2. /\ clock' = clock + 1 /\ added' = 0
      /\ entry' = [type |-> type, mesh |-> m, name |-> c, superclass |-> "none",
                   ranges |-> ranges, data |-> x]
      /\ UNCHANGED <<meshes, files, cur, fresh, cached, proc, at, given>>
  BY <1>1 DEF Define
<1>3. /\ entry'.type = type /\ entry'.mesh = m /\ entry'.name = c /\ entry'.ranges = ranges /\ entry'.data = x
  BY <1>2
<1>4. ObjectData' /\ GivenInFiles' /\ SurfacesTogether'
  BY <1>2, DataSame DEF DataInv
<1>5. x = Data(ranges, clock)'
  BY <1>1, <1>2 DEF Data, BlocksToList
<1>6. entry'.data = Data(entry.ranges, clock)'
  BY <1>3, <1>5 DEF Data, BlocksToList
<1>7. Block' = ranges[1]
  <2>1. added' + 1 = 1
    BY <1>2
  <2>2. QED
    BY <1>3, <2>1 DEF Block
<1>8. ASSUME entry'.type = "NODES", (Ids(Block) \cap Covered(Class(entry.mesh, entry.name).blocks) # {})'
      PROVE  Containing(entry.mesh, entry.name, Block)' # {}
  <2>1. PICK r : r = ranges[1]
    OBVIOUS
  <2>2. Class(entry.mesh, entry.name)' = Class(m, c)
    BY <1>2, <1>3 DEF Class
  <2>3. Ids(r) \cap Covered(Class(m, c).blocks) # {}
    BY <1>7, <1>8, <2>1, <2>2 DEF Ids, Covered
  <2>4. Containing(m, c, r) # {}
    BY <1>3, <1>8, <2>1, <2>3
  <2>5. Containing(entry.mesh, entry.name, Block)' = Containing(m, c, r)
    BY <1>2, <1>3, <1>7, <2>1 DEF Containing, Candidates, Entries, Matches, Places, At, Ids
  <2>6. QED
    BY <2>4, <2>5
<1>9. ASSUME entry'.type = "SURFACE_CONNS"
      PROVE  FilesOf(Entries("SURFACE_CONNS", entry.mesh, entry.name))'
                 \subseteq (IF fresh THEN {Len(files)} ELSE {})'
  <2>1. FilesOf(Entries("SURFACE_CONNS", entry.mesh, entry.name))' = FilesOf(Entries("SURFACE_CONNS", m, c))
    BY <1>2, <1>3 DEF FilesOf, Entries, Matches, Places, At
  <2>2. QED
    BY <1>2, <1>3, <1>9, <2>1
<1>10. CallData'
  BY <1>6, <1>8, <1>9 DEF CallData
<1>11. QED
  BY <1>4, <1>10 DEF DataInv

\* What is told of the ids of a call, and of others.
LEMMA ToldIs ==
    ASSUME given \in [MeshIds -> [Classes -> [1..MaxId -> Nat]]], NEW ids,
           entry.mesh \in MeshIds, entry.name \in Classes
    PROVE  /\ \A id \in 1..MaxId : Told(ids)[entry.mesh][entry.name][id] =
                  IF id \in ids THEN clock ELSE given[entry.mesh][entry.name][id]
           /\ \A m \in MeshIds, c \in Classes :
                  m # entry.mesh \/ c # entry.name => Told(ids)[m][c] = given[m][c]
<1>1. PICK m, c : m = entry.mesh /\ c = entry.name
  OBVIOUS
<1>2. PICK g : g = [id \in 1..MaxId |-> IF id \in ids THEN clock ELSE given[m][c][id]]
  OBVIOUS
<1>3. Told(ids) = [given EXCEPT ![m][c] = g]
  BY <1>1, <1>2 DEF Told
<1>4. Told(ids)[m][c] = g
  BY <1>1, <1>3
<1>5. \A k \in MeshIds, d \in Classes : k # m \/ d # c => Told(ids)[k][d] = given[k][d]
  BY <1>1, <1>3
<1>6. QED
  BY <1>1, <1>2, <1>4, <1>5

\* The data of a list only depends on what is told of its ids.
LEMMA DataOfSame ==
    ASSUME NEW ranges \in Seq(IdRange), NEW told, NEW other,
           \A id \in Covered(ranges) : id \in 1..MaxId => told[id] = other[id]
    PROVE  DataOf(ranges, told) = DataOf(ranges, other)
<1>1. PICK ids, S : ids = BlocksToList(ranges) /\ S = 1..MaxId
  OBVIOUS
<1>2. ids \in Seq(S) /\ \A k \in DOMAIN ids : ids[k] \in Covered(ranges)
  BY <1>1, ListIs
<1>3. \A k \in DOMAIN ids : ids[k] \in S
  BY <1>2, SeqIs
<1>4. \A k \in DOMAIN ids : told[ids[k]] = other[ids[k]]
  BY <1>1, <1>2, <1>3
<1>5. [k \in DOMAIN ids |-> <<ids[k], told[ids[k]]>>] = [k \in DOMAIN ids |-> <<ids[k], other[ids[k]]>>]
  BY <1>4
<1>6. QED
  BY <1>1, <1>5 DEF DataOf

\* What a call brings is its data under the call's number.
LEMMA DataOfCall ==
    ASSUME NEW ranges \in Seq(IdRange), NEW told, NEW call,
           \A id \in Covered(ranges) : id \in 1..MaxId => told[id] = call
    PROVE  DataOf(ranges, told) = Data(ranges, call)
<1>1. PICK ids, S : ids = BlocksToList(ranges) /\ S = 1..MaxId
  OBVIOUS
<1>2. ids \in Seq(S) /\ \A k \in DOMAIN ids : ids[k] \in Covered(ranges)
  BY <1>1, ListIs
<1>3. \A k \in DOMAIN ids : ids[k] \in S
  BY <1>2, SeqIs
<1>4. \A k \in DOMAIN ids : told[ids[k]] = call
  BY <1>1, <1>2, <1>3
<1>5. [k \in DOMAIN ids |-> <<ids[k], told[ids[k]]>>] = [k \in DOMAIN ids |-> <<ids[k], call>>]
  BY <1>4
<1>6. QED
  BY <1>1, <1>5 DEF DataOf, Data

\* The place of an object's entry has a mesh and a class.
LEMMA ObjectNamed ==
    ASSUME FilesInv, NEW p \in Places, IsObject(p), files \in Seq(Seq(Entry))
    PROVE  At(p).mesh \in MeshIds /\ At(p).name \in Classes /\ At(p).ranges \in Seq(IdRange)
<1>1. PICK D : files \in Seq(Seq(EntryOf(D)))
  BY DEF FilesInv, FilesTyped
<1>2. At(p) \in EntryOf(D)
  BY <1>1, PlaceIs
<1>3. At(p).mesh \in MeshIds /\ At(p).ranges \in Seq(IdRange)
  BY <1>2 DEF EntryOf
<1>4. At(p).name \in Classes
  BY DEF FilesInv, FilesTyped, IsMesh, IsObject, ObjectTypes
<1>5. QED
  BY <1>3, <1>4

\* A call that ends leaves its objects' data in the entry it writes.
LEMMA DataDefines ==
    ASSUME IInv, IInv', TypeInv, DataInv, Defines
    PROVE  DataInv'
<1>1. PICK e, m, c, g : e = entry /\ m = entry.mesh /\ c = entry.name /\ g = given'
  OBVIOUS
<1>2. /\ doing = "define" /\ added = Len(e.ranges) /\ Enter(e) /\ doing' = "none"
      /\ g = Told(Covered(e.ranges))
  BY <1>1 DEF Defines, Done
<1>3. /\ FilesInv /\ CallInv /\ EntryInv /\ DefineInv
      /\ ObjectData /\ GivenInFiles /\ SurfacesTogether /\ CallData
      /\ files \in Seq(Seq(Entry)) /\ e \in Entry
      /\ given \in [MeshIds -> [Classes -> [1..MaxId -> Nat]]]
  BY <1>1, <1>2 DEF IInv, CallInv, DataInv, TypeInv
<1>4. /\ proc = "open" /\ e \in EntryOf({e.data}) /\ e.type \in ObjectTypes
      /\ m \in MeshIds /\ c \in Classes /\ e.ranges \in Seq(IdRange)
      /\ e.mesh = m /\ e.name = c
      /\ \A k \in 1..added : Ids(e.ranges[k]) \cap Recorded(m, c) = {}
  BY <1>1, <1>3, FilesNamed DEF EntryInv, DefineInv
<1>5. /\ \A id \in 1..MaxId : g[m][c][id] = IF id \in Covered(e.ranges) THEN clock ELSE given[m][c][id]
      /\ \A k \in MeshIds, d \in Classes : k # m \/ d # c => g[k][d] = given[k][d]
  BY <1>1, <1>2, <1>3, <1>4, ToldIs
<1>6. PICK D : files \in Seq(Seq(EntryOf(D)))
  BY <1>3 DEF FilesInv, FilesTyped
<1>7. files # << >> /\ \A i \in 2..Len(files) : files[i] # << >>
  BY <1>3 DEF FilesInv, FilesTyped
<1>8. PICK n : Appended(n, e)
  BY <1>2, <1>4, <1>6, <1>7, EnterAppends
<1>9. /\ n \notin Places /\ Places' = Places \cup {n}
      /\ \A p \in Places : At(p)' = At(p)
      /\ At(n)' = e
  BY <1>8 DEF Appended
<1>10. fresh => n[1] = Len(files)
  <2>1. (At(n)' = e /\ (fresh => n[1] = Len(files))) \/ (n \in Places /\ At(n)' = At(n))
    BY <1>2, <1>3, <1>7, <1>9, EnterEntries
  <2>2. QED
    BY <1>9, <2>1
<1>11. \A p \in Places : \A id : IsObject(p) /\ Of(p, m, c) /\ id \in Covered(At(p).ranges)
           => id \notin Covered(e.ranges)
  <2>1. Known = Places
    BY <1>4 DEF Known, Seen
  <2>2. DOMAIN e.ranges = 1..added
    BY <1>2, <1>4
  <2>3. \A id \in Covered(e.ranges) : id \notin Recorded(m, c)
    BY <1>4, <2>2 DEF Covered
  <2>4. QED
    BY <2>1, <2>3, RecordedIs
<1>12. /\ \A p \in Places : (IsObject(p)' <=> IsObject(p)) /\ \A k, d : Of(p, k, d)' <=> Of(p, k, d)
       /\ IsObject(n)' /\ Of(n, m, c)'
  BY <1>4, <1>9 DEF IsObject, Of
<1>13. ObjectData'
  <2>1. e.data = DataOf(e.ranges, g[m][c])
    <3>1. PICK told : told = g[m][c]
      OBVIOUS
    <3>2. e.data = Data(e.ranges, clock)
      BY <1>1, <1>2, <1>3 DEF CallData
    <3>3. \A id \in Covered(e.ranges) : id \in 1..MaxId => told[id] = clock
      BY <1>5, <3>1
    <3>4. DataOf(e.ranges, told) = Data(e.ranges, clock)
      BY <1>4, <3>3, DataOfCall
    <3>5. QED
      BY <3>1, <3>2, <3>4
  <2>2. SUFFICES ASSUME NEW p \in Places', NEW x, NEW told, IsObject(p)', x = At(p)',
                        told = given'[x.mesh][x.name]
                 PROVE  x.data = DataOf(x.ranges, told)
    BY ObjectDataNext
  <2>3. CASE p = n
    BY <1>1, <1>4, <1>9, <2>1, <2>2, <2>3
  <2>4. CASE p # n
    <3>1. p \in Places /\ IsObject(p) /\ x = At(p)
      BY <1>9, <1>12, <2>2, <2>4
    <3>2. x.mesh \in MeshIds /\ x.name \in Classes /\ x.ranges \in Seq(IdRange)
      BY <1>3, <3>1, ObjectNamed
    <3>3. PICK old : old = given[x.mesh][x.name]
      OBVIOUS
    <3>4. x.data = DataOf(x.ranges, old)
      BY <1>3, <3>1, <3>3 DEF ObjectData
    <3>5. \A id \in Covered(x.ranges) : id \in 1..MaxId => old[id] = told[id]
      <4>1. CASE Of(p, m, c)
        BY <1>1, <1>5, <1>11, <2>2, <3>1, <3>3, <4>1 DEF Of
      <4>2. CASE ~Of(p, m, c)
        BY <1>1, <1>5, <2>2, <3>1, <3>2, <3>3, <4>2 DEF Of
      <4>3. QED
        BY <4>1, <4>2
    <3>6. QED
      BY <3>2, <3>4, <3>5, DataOfSame
  <2>5. QED
    BY <2>3, <2>4
<1>14. GivenInFiles'
  <2>1. SUFFICES ASSUME NEW k \in MeshIds, NEW d \in Classes, NEW id \in 1..MaxId, g[k][d][id] > 0
                 PROVE  \E p \in Places' : IsObject(p)' /\ Of(p, k, d)' /\ id \in Covered(At(p).ranges)'
    BY <1>1 DEF GivenInFiles, MeshIds
  <2>2. CASE k = m /\ d = c /\ id \in Covered(e.ranges)
    BY <1>9, <1>12, <2>2 DEF Covered
  <2>3. CASE ~(k = m /\ d = c /\ id \in Covered(e.ranges))
    <3>1. given[k][d][id] > 0
      BY <1>5, <2>1, <2>3
    <3>2. PICK p \in Places : IsObject(p) /\ Of(p, k, d) /\ id \in Covered(At(p).ranges)
      BY <1>3, <3>1 DEF GivenInFiles
    <3>3. QED
      BY <1>9, <1>12, <3>2 DEF Covered
  <2>4. QED
    BY <2>2, <2>3
<1>15. SurfacesTogether'
  <2>1. ASSUME e.type = "SURFACE_CONNS", NEW q \in Places, Matches(At(q), "SURFACE_CONNS", m, c)
        PROVE  q[1] = n[1]
    <3>1. q \in Entries("SURFACE_CONNS", m, c)
      BY <2>1 DEF Entries
    <3>2. q[1] \in FilesOf(Entries("SURFACE_CONNS", m, c))
      BY <3>1 DEF FilesOf
    <3>3. q[1] \in (IF fresh THEN {Len(files)} ELSE {})
      BY <1>1, <1>2, <1>3, <2>1, <3>2 DEF CallData
    <3>4. QED
      BY <1>10, <3>3
  <2>2. SUFFICES ASSUME NEW p \in Places', NEW q \in Places', At(p).type' = "SURFACE_CONNS",
                        Matches(At(q), "SURFACE_CONNS", At(p).mesh, At(p).name)'
                 PROVE  p[1] = q[1]
    BY DEF SurfacesTogether
  <2>3. CASE p = n /\ q # n
    <3>1. q \in Places /\ Matches(At(q), "SURFACE_CONNS", m, c) /\ e.type = "SURFACE_CONNS"
      BY <1>4, <1>9, <2>2, <2>3 DEF Matches
    <3>2. QED
      BY <2>1, <2>3, <3>1
  <2>4. CASE p # n /\ q = n
    <3>1. p \in Places /\ At(p).type = "SURFACE_CONNS" /\ At(p).mesh = m /\ At(p).name = c
          /\ e.type = "SURFACE_CONNS"
      BY <1>4, <1>9, <2>2, <2>4 DEF Matches
    <3>2. QED
      BY <2>1, <2>4, <3>1 DEF Matches
  <2>5. CASE p # n /\ q # n
    <3>1. p \in Places /\ q \in Places /\ At(p)' = At(p) /\ At(q)' = At(q)
      BY <1>9, <2>5
    <3>2. QED
      BY <1>3, <2>2, <3>1 DEF SurfacesTogether, Matches
  <2>6. QED
    BY <2>3, <2>4, <2>5
<1>16. QED
  BY <1>2, <1>13, <1>14, <1>15 DEF DataInv, CallData

\* An entry given other data has them, and the others keep theirs.
LEMMA RewriteData ==
    ASSUME NEW S, files \in Seq(Seq(S)), NEW i \in DOMAIN files, NEW j \in DOMAIN files[i], NEW x,
           files' = [files EXCEPT ![i][j].data = x]
    PROVE  /\ At(<<i, j>>)' = [At(<<i, j>>) EXCEPT !.data = x]
           /\ \A p \in Places \ {<<i, j>>} : At(p)' = At(p)
<1>1. PICK y, s : y = [files[i][j] EXCEPT !.data = x] /\ s = [files[i] EXCEPT ![j] = y]
  OBVIOUS
<1>2. files' = [files EXCEPT ![i] = s]
  BY <1>1
<1>3. \A k \in DOMAIN files : files'[k] = IF k = i THEN s ELSE files[k]
  BY <1>2
<1>4. \A l \in DOMAIN files[i] : s[l] = IF l = j THEN y ELSE files[i][l]
  BY <1>1
<1>5. ASSUME NEW p \in Places, p # <<i, j>> PROVE At(p)' = At(p)
  <2>1. PICK k \in DOMAIN files : p \in {k} \X DOMAIN files[k]
    BY DEF Places
  <2>2. PICK l \in DOMAIN files[k] : p = <<k, l>>
    BY <2>1
  <2>3. files'[k][l] = files[k][l]
    BY <1>3, <1>4, <1>5, <2>2
  <2>4. QED
    BY <2>2, <2>3 DEF At
<1>6. files'[i][j] = y
  BY <1>3, <1>4
<1>7. QED
  BY <1>1, <1>5, <1>6 DEF At

\* The coordinates of some nodes of a definition, given again.
LEMMA OverwriteIs ==
    ASSUME NEW r \in IdRange, NEW R \in IdRange, Ids(r) \subseteq Ids(R),
           NEW e, NEW call, e.ranges = <<r>>, e.data = Data(<<r>>, call),
           NEW told, NEW other,
           \A id \in 1..MaxId : other[id] = IF id \in Ids(r) THEN call ELSE told[id]
    PROVE  Overwrite(DataOf(<<R>>, told), R, e) = DataOf(<<R>>, other)
<1>1. PICK a, b, A, B : a = r.start /\ b = r.stop /\ A = R.start /\ B = R.stop
  OBVIOUS
<1>2. /\ a \in Nat /\ b \in Nat /\ A \in Nat /\ B \in Nat /\ MaxId \in Nat
      /\ a <= b /\ A <= B /\ A >= 1 /\ B <= MaxId
      /\ A <= a /\ b <= B
  <2>1. /\ a \in 1..MaxId /\ b \in 1..MaxId /\ A \in 1..MaxId /\ B \in 1..MaxId /\ a <= b /\ A <= B
        /\ MaxId \in Nat
    BY <1>1, MeshAssumption DEF IdRange
  <2>2. a \in a..b /\ b \in a..b
    BY <2>1
  <2>3. a \in A..B /\ b \in A..B
    BY <1>1, <2>2 DEF Ids
  <2>4. QED
    BY <2>1, <2>3
<1>3. PICK n, N, from : n = b - a + 1 /\ N = B - A + 1 /\ from = a - A
  OBVIOUS
<1>4. n \in Nat /\ N \in Nat /\ from \in Nat
  BY <1>2, <1>3
<1>5. PICK new, old, want : /\ new = e.data
                            /\ old = DataOf(<<R>>, told)
                            /\ want = DataOf(<<R>>, other)
  OBVIOUS
<1>6. new = [k \in 1..n |-> <<a + k - 1, call>>]
  <2>1. PICK ids : ids = BlocksToList(<<r>>)
    OBVIOUS
  <2>2. ids = [i \in 1..n |-> a + i - 1]
    BY <1>1, <1>3, <2>1, ListOfOne
  <2>3. new = [k \in DOMAIN ids |-> <<ids[k], call>>]
    BY <1>5, <2>1 DEF Data
  <2>4. QED
    BY <2>2, <2>3
<1>7. Len(new) = n /\ \A k \in 1..n : new[k] = <<a + k - 1, call>>
  BY <1>4, <1>6
<1>8. /\ old = [k \in 1..N |-> <<A + k - 1, told[A + k - 1]>>]
      /\ want = [k \in 1..N |-> <<A + k - 1, other[A + k - 1]>>]
  <2>1. N = R.stop - R.start + 1 /\ A = R.start
    BY <1>1, <1>3
  <2>2. /\ old = [k \in 1..R.stop - R.start + 1 |-> <<R.start + k - 1, told[R.start + k - 1]>>]
        /\ want = [k \in 1..R.stop - R.start + 1 |-> <<R.start + k - 1, other[R.start + k - 1]>>]
    BY <1>5, BlockData
  <2>3. QED
    BY <2>1, <2>2
<1>9. PICK x : x = Overwrite(old, R, e)
  OBVIOUS
<1>10. x = [p \in 1..N |-> IF p > from /\ p <= from + n THEN new[p - from] ELSE old[p]]
  <2>1. e.ranges[1].start - R.start = from
    BY <1>1, <1>3
  <2>2. DOMAIN old = 1..N
    BY <1>8
  <2>3. QED
    BY <1>5, <1>7, <1>9, <2>1, <2>2 DEF Overwrite
<1>11. ASSUME NEW p \in 1..N PROVE x[p] = want[p]
  <2>1. A + p - 1 \in 1..MaxId /\ (A + p - 1 \in a..b <=> p > from /\ p <= from + n)
    BY <1>2, <1>3, <1>4
  <2>2. other[A + p - 1] = IF A + p - 1 \in a..b THEN call ELSE told[A + p - 1]
    BY <1>1, <2>1 DEF Ids
  <2>3. CASE p > from /\ p <= from + n
    <3>1. p - from \in 1..n /\ a + (p - from) - 1 = A + p - 1
      BY <1>2, <1>3, <1>4, <2>3
    <3>2. new[p - from] = <<a + (p - from) - 1, call>>
      BY <1>7, <3>1
    <3>3. x[p] = <<A + p - 1, call>>
      BY <1>10, <2>3, <3>1, <3>2
    <3>4. QED
      BY <1>8, <2>1, <2>2, <2>3, <3>3
  <2>4. CASE ~(p > from /\ p <= from + n)
    BY <1>8, <1>10, <2>1, <2>2, <2>4
  <2>5. QED
    BY <2>3, <2>4
<1>12. x = want
  BY <1>8, <1>10, <1>11
<1>13. QED
  BY <1>5, <1>9, <1>12

\* update_nodes_def writes the coordinates where the nodes are defined.
LEMMA DataUpdate ==
    ASSUME IInv, IInv', TypeInv, DataInv, UpdateNodes
    PROVE  DataInv'
<1>1. PICK m, c, r, g : m = entry.mesh /\ c = entry.name /\ r = Block /\ g = given'
  OBVIOUS
<1>2. PICK hits, hit : hits = Containing(m, c, r) /\ hit = FirstOf(hits)
  OBVIOUS
<1>3. PICK opened : opened = FilesOf(IF hits = {} THEN Candidates(m, c, r)
                                     ELSE {p \in Candidates(m, c, r) : ~Earlier(hit, p)})
  OBVIOUS
<1>4. /\ doing = "define" /\ entry.type = "NODES" /\ added < Len(entry.ranges)
      /\ Refused(Class(m, c).blocks, r)
      /\ files' = IF hits = {} THEN files
                  ELSE [files EXCEPT ![hit[1]][hit[2]].data =
                            Overwrite(@, At(hit).ranges[1], entry)]
      /\ g = IF opened # {} \/ cur = 0 THEN Told(Ids(r)) ELSE given
      /\ doing' = "none"
  BY <1>1, <1>2, <1>3 DEF UpdateNodes, Done
<1>5. /\ FilesInv /\ MemoryInv /\ CallInv /\ EntryInv /\ DefineInv
      /\ ObjectData /\ GivenInFiles /\ SurfacesTogether /\ CallData
      /\ files \in Seq(Seq(Entry)) /\ NodesWhole
      /\ given \in [MeshIds -> [Classes -> [1..MaxId -> Nat]]]
  BY <1>4 DEF IInv, CallInv, DataInv, TypeInv
<1>6. /\ m \in DOMAIN meshes /\ m \in MeshIds /\ c \in Classes
      /\ entry.ranges \in Seq(IdRange) /\ Len(entry.ranges) = 1 /\ added \in Nat /\ added = 0
  <2>1. added \in 0..Len(entry.ranges) /\ entry.ranges \in Seq(IdRange) /\ Len(entry.ranges) = 1
    BY <1>4, <1>5 DEF EntryInv, DefineInv
  <2>2. added = 0
    BY <1>4, <2>1
  <2>3. QED
    BY <1>1, <1>5, <2>1, <2>2, FilesNamed DEF EntryInv
<1>7. r \in IdRange /\ entry.ranges = <<r>>
  <2>1. r = entry.ranges[1]
    BY <1>1, <1>6 DEF Block
  <2>2. QED
    BY <1>6, <2>1
<1>8. hits # {}
  <2>1. Ordered(Class(m, c).blocks)
    BY <1>5, <1>6 DEF MemoryInv, BlocksLoaded
  <2>2. Ids(r) \cap Covered(Class(m, c).blocks) # {}
    BY <1>4, <1>7, <2>1, Refusal
  <2>3. QED
    BY <1>1, <1>2, <1>4, <1>5, <1>6, <2>2 DEF CallData
<1>9. /\ hit \in Places /\ hit \in Candidates(m, c, r)
      /\ Matches(At(hit), "NODES", m, c) /\ Ids(r) \subseteq Ids(At(hit).ranges[1])
  BY <1>2, <1>5, <1>8, HitIs
<1>10. g = Told(Ids(r))
  <2>1. ~Earlier(hit, hit)
    BY <1>5, <1>9, PlacesOrdered
  <2>2. hit \in {p \in Candidates(m, c, r) : ~Earlier(hit, p)}
    BY <1>9, <2>1
  <2>3. hit[1] \in opened
    BY <1>3, <1>8, <2>2 DEF FilesOf
  <2>4. QED
    BY <1>4, <2>3
<1>11. /\ \A id \in 1..MaxId : g[m][c][id] = IF id \in Ids(r) THEN clock ELSE given[m][c][id]
       /\ \A k \in MeshIds, d \in Classes : k # m \/ d # c => g[k][d] = given[k][d]
  BY <1>1, <1>5, <1>6, <1>10, ToldIs
<1>12. PICK i \in DOMAIN files : \E j \in DOMAIN files[i] : hit = <<i, j>>
  <2>1. PICK i \in DOMAIN files : hit \in {i} \X DOMAIN files[i]
    BY <1>9 DEF Places
  <2>2. \E j \in DOMAIN files[i] : hit = <<i, j>>
    BY <2>1
  <2>3. QED
    BY <2>2
<1>13. PICK j \in DOMAIN files[i] : hit = <<i, j>>
  BY <1>12
<1>14. PICK e, R, x : e = At(hit) /\ R = e.ranges[1] /\ x = Overwrite(e.data, R, entry)
  OBVIOUS
<1>15. files' = [files EXCEPT ![i][j].data = x]
  BY <1>4, <1>8, <1>13, <1>14 DEF At
<1>16. /\ At(hit)' = [e EXCEPT !.data = x]
       /\ \A p \in Places \ {hit} : At(p)' = At(p)
  <2>1. /\ At(<<i, j>>)' = [At(<<i, j>>) EXCEPT !.data = x]
        /\ \A p \in Places \ {<<i, j>>} : At(p)' = At(p)
    BY <1>5, <1>15, RewriteData
  <2>2. QED
    BY <1>13, <1>14, <2>1
<1>17. Places' = Places
  BY <1>5, <1>15, FilesRewritten
<1>18. e \in Entry /\ e.ranges = <<R>> /\ R \in IdRange /\ e.mesh = m /\ e.name = c /\ IsObject(hit)
       /\ e.type = "NODES"
  <2>1. e \in Entry
    BY <1>5, <1>9, <1>14, PlaceIs
  <2>2. e.type = "NODES" /\ e.mesh = m /\ e.name = c /\ Len(e.ranges) = 1
    BY <1>5, <1>9, <1>14 DEF Matches, NodesWhole
  <2>3. e.ranges \in Seq(IdRange)
    BY <2>1 DEF Entry
  <2>4. e.ranges = <<R>> /\ R \in IdRange
    BY <1>14, <2>2, <2>3
  <2>5. QED
    BY <1>14, <2>1, <2>2, <2>4 DEF IsObject, ObjectTypes
<1>19. PICK y : y = [e EXCEPT !.data = x]
  OBVIOUS
<1>20. y.data = x /\ y.type = e.type /\ y.mesh = m /\ y.name = c /\ y.ranges = <<R>>
  BY <1>18, <1>19 DEF Entry
<1>21. \A p \in Places : /\ At(p)'.type = At(p).type /\ At(p)'.mesh = At(p).mesh
                         /\ At(p)'.name = At(p).name /\ At(p)'.ranges = At(p).ranges
  BY <1>14, <1>16, <1>18, <1>19, <1>20
<1>22. ObjectData'
  <2>1. SUFFICES ASSUME NEW p \in Places', NEW z, NEW told, IsObject(p)', z = At(p)',
                        told = given'[z.mesh][z.name]
                 PROVE  z.data = DataOf(z.ranges, told)
    BY ObjectDataNext
  <2>2. PICK old : old = given[z.mesh][z.name]
    OBVIOUS
  <2>3. CASE p = hit
    <3>1. z = y
      BY <1>16, <1>19, <2>1, <2>3
    <3>2. e.data = DataOf(<<R>>, old)
      <4>1. old = given[e.mesh][e.name]
        BY <1>18, <1>20, <2>2, <3>1
      <4>2. e.data = DataOf(e.ranges, old)
        BY <1>5, <1>9, <1>14, <1>18, <4>1 DEF ObjectData
      <4>3. QED
        BY <1>18, <4>2
    <3>3. \A id \in 1..MaxId : told[id] = IF id \in Ids(r) THEN clock ELSE old[id]
      BY <1>1, <1>11, <1>20, <2>1, <2>2, <3>1
    <3>4. Ids(r) \subseteq Ids(R)
      BY <1>9, <1>14
    <3>5. entry.data = Data(<<r>>, clock)
      BY <1>4, <1>5, <1>7 DEF CallData
    <3>6. x = DataOf(<<R>>, told)
      BY <1>7, <1>14, <1>18, <3>2, <3>3, <3>4, <3>5, OverwriteIs
    <3>7. QED
      BY <1>20, <3>1, <3>6
  <2>4. CASE p # hit
    <3>1. p \in Places /\ z = At(p) /\ IsObject(p)
      BY <1>16, <1>17, <2>1, <2>4 DEF IsObject
    <3>2. z.mesh \in MeshIds /\ z.name \in Classes /\ z.ranges \in Seq(IdRange)
      BY <1>5, <3>1, ObjectNamed
    <3>3. z.data = DataOf(z.ranges, old)
      BY <1>5, <2>2, <3>1 DEF ObjectData
    <3>4. \A id \in Covered(z.ranges) : id \in 1..MaxId => old[id] = told[id]
      <4>1. CASE z.mesh = m /\ z.name = c
        <5>1. ASSUME NEW id \in Covered(z.ranges) PROVE id \notin Ids(r)
          <6>1. id \in Ids(r) => id \in Covered(At(hit).ranges)
            <7>1. Ids(R) \subseteq Covered(<<R>>)
              BY DEF Covered
            <7>2. QED
              BY <1>9, <1>14, <1>18, <7>1
          <6>2. At(p).mesh = At(hit).mesh /\ At(p).name = At(hit).name
            BY <1>14, <1>18, <3>1, <4>1
          <6>3. QED
            BY <1>5, <1>9, <1>18, <2>4, <3>1, <5>1, <6>1, <6>2, OnePlace
        <5>2. QED
          BY <1>1, <1>11, <2>1, <2>2, <4>1, <5>1
      <4>2. CASE ~(z.mesh = m /\ z.name = c)
        BY <1>1, <1>11, <2>1, <2>2, <3>2, <4>2
      <4>3. QED
        BY <4>1, <4>2
    <3>5. QED
      BY <3>2, <3>3, <3>4, DataOfSame
  <2>5. QED
    BY <2>3, <2>4
<1>23. \A p \in Places : /\ IsObject(p)' <=> IsObject(p)
                         /\ \A k, d : Of(p, k, d)' <=> Of(p, k, d)
                         /\ Covered(At(p).ranges)' = Covered(At(p).ranges)
  BY <1>21 DEF IsObject, Of, Covered
<1>24. GivenInFiles'
  <2>1. SUFFICES ASSUME NEW k \in MeshIds, NEW d \in Classes, NEW id \in 1..MaxId, g[k][d][id] > 0
                 PROVE  \E p \in Places' : IsObject(p)' /\ Of(p, k, d)' /\ id \in Covered(At(p).ranges)'
    BY <1>1 DEF GivenInFiles, MeshIds
  <2>2. CASE k = m /\ d = c /\ id \in Ids(r)
    <3>1. id \in Covered(At(hit).ranges)
      BY <1>9, <1>14, <1>18, <2>2 DEF Covered
    <3>2. Of(hit, k, d)
      BY <1>14, <1>18, <2>2 DEF Of
    <3>3. QED
      BY <1>9, <1>17, <1>18, <1>23, <3>1, <3>2
  <2>3. CASE ~(k = m /\ d = c /\ id \in Ids(r))
    <3>1. given[k][d][id] > 0
      BY <1>11, <2>1, <2>3
    <3>2. PICK p \in Places : IsObject(p) /\ Of(p, k, d) /\ id \in Covered(At(p).ranges)
      BY <1>5, <3>1 DEF GivenInFiles
    <3>3. QED
      BY <1>17, <1>23, <3>2
  <2>4. QED
    BY <2>2, <2>3
<1>25. SurfacesTogether'
  <2>1. SUFFICES ASSUME NEW p \in Places', NEW q \in Places', At(p).type' = "SURFACE_CONNS",
                        Matches(At(q), "SURFACE_CONNS", At(p).mesh, At(p).name)'
                 PROVE  p[1] = q[1]
    BY DEF SurfacesTogether
  <2>2. /\ p \in Places /\ q \in Places /\ At(p).type = "SURFACE_CONNS"
        /\ At(q).type = "SURFACE_CONNS" /\ At(q).mesh = At(p).mesh /\ At(q).name = At(p).name
    BY <1>17, <1>21, <2>1 DEF Matches
  <2>3. QED
    BY <1>5, <2>2 DEF SurfacesTogether, Matches
<1>26. QED
  BY <1>4, <1>22, <1>24, <1>25 DEF DataInv, CallData

\* Steps outside a call that change no definition.
LEMMA DataAlone ==
    ASSUME DataInv, files' = files, given' = given, doing' # "define"
    PROVE  DataInv'
<1>1. ObjectData' /\ GivenInFiles' /\ SurfacesTogether'
  BY DataSame DEF DataInv
<1>2. QED
  BY <1>1 DEF DataInv, CallData

\* A block is added: the data come when all are.
LEMMA DataAddBlock ==
    ASSUME TypeInv, DataInv, AddBlock
    PROVE  DataInv'
<1>1. /\ added' = added + 1 /\ added \in Nat
      /\ UNCHANGED <<files, fresh, doing, entry, given, clock>>
  BY DEF AddBlock, TypeInv
<1>2. ObjectData' /\ GivenInFiles' /\ SurfacesTogether'
  BY <1>1, DataSame DEF DataInv
<1>3. CallData'
  <2>1. added' # 0
    BY <1>1
  <2>2. Data(entry.ranges, clock)' = Data(entry.ranges, clock)
    BY <1>1 DEF Data, BlocksToList
  <2>3. FilesOf(Entries("SURFACE_CONNS", entry.mesh, entry.name))'
            = FilesOf(Entries("SURFACE_CONNS", entry.mesh, entry.name))
    BY <1>1 DEF FilesOf, Entries, Matches, Places, At
  <2>4. QED
    BY <1>1, <2>1, <2>2, <2>3 DEF DataInv, CallData
<1>4. QED
  BY <1>2, <1>3 DEF DataInv

\* A mesh or a class is defined.
LEMMA DataNewMesh ==
    ASSUME IInv, TypeInv, DataInv, NEW n \in Names, MakeUmesh(n)
    PROVE  DataInv'
<1>1. PICK e : e = [NoEntry EXCEPT !.mesh = Len(meshes) + 1, !.name = n]
  OBVIOUS
<1>2. Enter(e) /\ given' = given /\ doing' = "none"
  BY <1>1 DEF MakeUmesh, Idle
<1>3. e \in Entry /\ e.type \notin ObjectTypes
  <2>1. Len(meshes) + 1 \in Nat
    BY DEF IInv, MemoryInv, MeshesLoaded
  <2>2. e = [type |-> "MESH_NAME", mesh |-> Len(meshes) + 1, name |-> n, superclass |-> "none",
             ranges |-> << >>, data |-> << >>]
    BY <1>1 DEF NoEntry
  <2>3. << >> \in Seq(IdRange) /\ << >> \in Seq(Nat \X Nat)
    OBVIOUS
  <2>4. QED
    BY <2>1, <2>2, <2>3 DEF Entry, Types, ObjectTypes
<1>4. QED
  BY <1>2, <1>3, DataEnter

LEMMA DataNewClass ==
    ASSUME IInv, TypeInv, DataInv, NEW m \in MeshIds, NEW c \in Classes, NEW s \in Superclasses,
           DefClass(m, c, s)
    PROVE  DataInv'
<1>1. PICK e : e = [NoEntry EXCEPT !.type = "CLASS_DEF", !.mesh = m, !.name = c, !.superclass = s]
  OBVIOUS
<1>2. Enter(e) /\ given' = given /\ doing' = "none"
  BY <1>1 DEF DefClass, Idle
<1>3. e \in Entry /\ e.type \notin ObjectTypes
  <2>1. m \in Nat
    BY FilesNamed
  <2>2. e = [type |-> "CLASS_DEF", mesh |-> m, name |-> c, superclass |-> s,
             ranges |-> << >>, data |-> << >>]
    BY <1>1 DEF NoEntry
  <2>3. << >> \in Seq(IdRange) /\ << >> \in Seq(Nat \X Nat)
    OBVIOUS
  <2>4. QED
    BY <2>1, <2>2, <2>3 DEF Entry, Types, ObjectTypes
<1>4. QED
  BY <1>2, <1>3, DataEnter

\* A definition of nodes begins that is new, or that some definition contains.
LEMMA DataDefNodes ==
    ASSUME "span_update" \notin App, IInv, TypeInv, DataInv,
           NEW m \in MeshIds, NEW c \in Classes, NEW r \in Ranges, DefNodes(m, c, r)
    PROVE  DataInv'
<1>1. r \in IdRange /\ <<r>> \in Seq(IdRange) /\ Len(<<r>>) = 1 /\ <<r>>[1] = r
  BY MeshAssumption
<1>2. /\ m \in DOMAIN meshes /\ Define("NODES", m, c, <<r>>)
      /\ ~Refused(Class(m, c).blocks, r) \/ Containing(m, c, r) # {}
  BY DEF DefNodes, HasClass
<1>3. Ordered(Class(m, c).blocks)
  BY <1>2 DEF IInv, MemoryInv, BlocksLoaded
<1>4. Ids(r) \cap Covered(Class(m, c).blocks) # {} => Containing(m, c, r) # {}
  BY <1>1, <1>2, <1>3, Refusal
<1>5. PICK ranges : ranges = <<r>>
  OBVIOUS
<1>6. /\ ranges \in Seq(IdRange) /\ Len(ranges) = 1 /\ ranges[1] = r
      /\ Define("NODES", m, c, ranges)
  BY <1>1, <1>2, <1>5
<1>7. QED
  BY <1>4, <1>6, DataDefine DEF ObjectTypes

\* A surface begins whose class has all of them in the file at work.
LEMMA DataDefSurface ==
    ASSUME "surface_files" \notin App, IInv, TypeInv, DataInv,
           NEW m \in MeshIds, NEW c \in Classes, DefConnSurface(m, c)
    PROVE  DataInv'
<1>1. PICK s, ranges : s = NextSurface(Class(m, c).blocks) /\ ranges = <<[start |-> s, stop |-> s]>>
  OBVIOUS
<1>2. /\ m \in DOMAIN meshes /\ s <= MaxId /\ Define("SURFACE_CONNS", m, c, ranges)
      /\ FilesOf(Entries("SURFACE_CONNS", m, c)) \subseteq (IF fresh THEN {Len(files)} ELSE {})
  BY <1>1 DEF DefConnSurface, HasClass
<1>3. s \in Nat /\ s >= 1
  <2>1. Ordered(Class(m, c).blocks)
    BY <1>2 DEF IInv, MemoryInv, BlocksLoaded
  <2>2. QED
    BY <1>1, <2>1, SurfacePositive
<1>4. [start |-> s, stop |-> s] \in IdRange
  <2>1. s \in 1..MaxId /\ s <= s
    BY <1>2, <1>3, MeshAssumption
  <2>2. QED
    BY <2>1 DEF IdRange
<1>5. ranges \in Seq(IdRange)
  BY <1>1, <1>4
<1>6. QED
  BY <1>2, <1>5, DataDefine DEF ObjectTypes

LEMMA DataStep ==
    ASSUME "span_update" \notin App, "surface_files" \notin App,
           IInv, IInv', TypeInv, DataInv, [Next]_vars
    PROVE  DataInv'
<1>1. ASSUME NEW n \in Names, MakeUmesh(n) PROVE DataInv'
  BY <1>1, DataNewMesh
<1>2. ASSUME NEW m \in MeshIds, Query(m) PROVE DataInv'
  BY <1>2, DataAlone DEF Query, Idle
<1>3. ASSUME NEW m \in MeshIds, NEW d \in Declared, DefClass(m, d[1], d[2]) PROVE DataInv'
  <2>1. d[1] \in Classes /\ d[2] \in Superclasses
    BY MeshAssumption
  <2>2. QED
    BY <1>3, <2>1, DataNewClass
<1>4. ASSUME NEW m \in MeshIds, NEW c \in Classes, NEW r \in Ranges,
             DefClassIdents(m, c, r) \/ DefConnSeq(m, c, r)
      PROVE  DataInv'
  <2>1. <<r>> \in Seq(IdRange)
    BY MeshAssumption
  <2>2. Define("CLASS_IDENTS", m, c, <<r>>) \/ Define("ELEM_CONNS", m, c, <<r>>)
    BY <1>4 DEF DefClassIdents, DefConnSeq
  <2>3. QED
    BY <2>1, <2>2, DataDefine DEF ObjectTypes
<1>5. ASSUME NEW m \in MeshIds, NEW c \in Classes, NEW r \in Ranges, DefNodes(m, c, r) PROVE DataInv'
  BY <1>5, DataDefNodes
<1>6. ASSUME NEW m \in MeshIds, NEW c \in Classes, NEW list \in Lists, DefConnArb(m, c, list) PROVE DataInv'
  <2>1. list \in Seq(IdRange)
    BY MeshAssumption
  <2>2. Define("ELEM_CONNS", m, c, list)
    BY <1>6 DEF DefConnArb
  <2>3. QED
    BY <2>1, <2>2, DataDefine DEF ObjectTypes
<1>7. ASSUME NEW m \in MeshIds, NEW c \in Classes, DefConnSurface(m, c) PROVE DataInv'
  BY <1>7, DataDefSurface
<1>8. ASSUME NEW m, NEW c, NEW type, Read(m, c, type) PROVE DataInv'
  BY <1>8, DataAlone DEF Read, Idle
<1>9. CASE Steps
  <2>1. RefuseBlock => DataInv'
    BY DataAlone DEF RefuseBlock, Done
  <2>2. QED
    BY <1>9, <2>1, DataAddBlock, DataUpdate, DataDefines DEF Steps
<1>10. CASE Flush
  BY <1>10, DataAlone DEF Flush, Idle
<1>11. CASE Close
  BY <1>11, DataAlone DEF Close, Idle
<1>12. CASE Load
  <2>1. proc = "closed" => doing = "none"
    BY DEF IInv, CallInv
  <2>2. /\ files' = files /\ given' = given /\ doing' # "define"
    BY <1>12, <2>1 DEF Load, Reopen, LoadMesh, LoadClass, LoadObjects, Loaded, LoadEnds, Done
  <2>3. QED
    BY <2>2, DataAlone
<1>13. CASE UNCHANGED vars
  <2>1. UNCHANGED <<meshes, files, fresh, doing, entry, added, given, clock>>
    BY <1>13 DEF vars
  <2>2. ObjectData' /\ GivenInFiles' /\ SurfacesTogether'
    BY <2>1, DataSame DEF DataInv
  <2>3. CallData'
    <3>1. Data(entry.ranges, clock)' = Data(entry.ranges, clock)
      BY <2>1 DEF Data, BlocksToList
    <3>2. FilesOf(Entries("SURFACE_CONNS", entry.mesh, entry.name))'
              = FilesOf(Entries("SURFACE_CONNS", entry.mesh, entry.name))
      BY <2>1 DEF FilesOf, Entries, Matches, Places, At
    <3>3. Containing(entry.mesh, entry.name, Block)' = Containing(entry.mesh, entry.name, Block)
      BY <2>1 DEF Containing, Candidates, Entries, Matches, Places, At, Ids, Block
    <3>4. (Ids(Block) \cap Covered(Class(entry.mesh, entry.name).blocks))'
              = Ids(Block) \cap Covered(Class(entry.mesh, entry.name).blocks)
      BY <2>1 DEF Ids, Covered, Class, Block
    <3>5. QED
      BY <2>1, <3>1, <3>2, <3>3, <3>4 DEF DataInv, CallData
  <2>4. QED
    BY <2>2, <2>3 DEF DataInv
<1>14. QED
  BY <1>1, <1>2, <1>3, <1>4, <1>5, <1>6, <1>7, <1>8, <1>9, <1>10, <1>11, <1>12, <1>13 DEF Next

LEMMA DataInit == Init => DataInv
<1>1. SUFFICES ASSUME Init PROVE DataInv
  OBVIOUS
<1>2. /\ files = << << >> >> /\ doing = "none"
      /\ given = [m \in MeshIds |-> [c \in Classes |-> [id \in 1..MaxId |-> 0]]]
  BY <1>1 DEF Init
<1>3. Places = {}
  BY <1>2 DEF Places
<1>4. ObjectData /\ SurfacesTogether
  BY <1>3 DEF ObjectData, SurfacesTogether
<1>5. GivenInFiles
  BY <1>2 DEF GivenInFiles
<1>6. CallData
  BY <1>2 DEF CallData
<1>7. QED
  BY <1>4, <1>5, <1>6 DEF DataInv

\* Every object's data is what the last call that returned OK gave for it, and a
\* reader finds it under the object's own id: for any meshes, classes, ranges and
\* lists of ids, after any number of refused calls and restarts, as long as the
\* application gives coordinates again only inside one definition of nodes and
\* defines the surfaces of a class in one file.
THEOREM DataKept ==
    ASSUME "span_update" \notin App, "surface_files" \notin App
    PROVE  Spec => []DataLoaded
<1>1. Init => IInv /\ TypeInv /\ DataInv
  BY InitInv, TypeInit, DataInit
<1>2. (IInv /\ TypeInv /\ DataInv) /\ [Next]_vars => (IInv /\ TypeInv /\ DataInv)'
  BY NextInv, TypeStep, DataStep
<1>3. IInv /\ TypeInv /\ DataInv => DataLoaded
  BY DataFollows DEF DataInv
<1>4. QED
  BY <1>1, <1>2, <1>3, PTL DEF Spec

-----------------------------------------------------------------------------
(***************************************************************************)
(* Queries.                                                                *)
(***************************************************************************)
\* The classes collected are the mesh's, and none are while it is not open.
QueryInv == ClassesCurrent /\ (proc # "open" => cached.mesh = 0)

\* Meshes that keep their classes keep what was collected of them.
LEMMA QueryKept ==
    ASSUME QueryInv, cached' = cached, proc # "open" \/ proc' = "open",
           \A m \in DOMAIN meshes, c \in Classes :
               /\ m \in DOMAIN meshes'
               /\ m = cached.mesh => Class(m, c).superclass' = Class(m, c).superclass,
           DOMAIN meshes \subseteq DOMAIN meshes'
    PROVE  QueryInv'
<1>1. CASE cached.mesh = 0
  BY <1>1 DEF QueryInv, ClassesCurrent
<1>2. CASE cached.mesh # 0
  <2>1. /\ proc = "open" /\ cached.mesh \in DOMAIN meshes
        /\ cached.classes = Defined(cached.mesh)
    BY <1>2 DEF QueryInv, ClassesCurrent
  <2>2. Defined(cached.mesh)' = Defined(cached.mesh)
    BY <2>1 DEF Defined
  <2>3. QED
    BY <2>1, <2>2 DEF QueryInv, ClassesCurrent
<1>3. QED
  BY <1>1, <1>2

LEMMA QueryAlone ==
    ASSUME QueryInv, cached' = cached, meshes' = meshes, proc # "open" \/ proc' = "open"
    PROVE  QueryInv'
  BY QueryKept DEF Class

\* A class of a mesh becomes another of its superclass.
LEMMA QueryClass ==
    ASSUME IInv, QueryInv, cached' = cached, proc # "open" \/ proc' = "open",
           NEW m \in DOMAIN meshes, NEW c \in Classes, NEW x \in ClassRecord,
           meshes' = [meshes EXCEPT ![m].table[c] = x],
           m = cached.mesh => x.superclass = Class(m, c).superclass
    PROVE  QueryInv'
<1>1. meshes \in Seq(MeshRecord)
  BY DEF IInv, MemoryInv, MeshesLoaded, MeshRecord
<1>2. /\ DOMAIN meshes' = DOMAIN meshes
      /\ Class(m, c)' = x
      /\ \A k \in DOMAIN meshes, d \in Classes : <<k, d>> # <<m, c>> => Class(k, d)' = Class(k, d)
  BY <1>1, UpdateClass
<1>3. ASSUME NEW k \in DOMAIN meshes, NEW d \in Classes, k = cached.mesh
      PROVE  Class(k, d).superclass' = Class(k, d).superclass
  <2>1. CASE <<k, d>> = <<m, c>>
    BY <1>2, <1>3, <2>1
  <2>2. CASE <<k, d>> # <<m, c>>
    BY <1>2, <2>2
  <2>3. QED
    BY <2>1, <2>2
<1>4. QED
  BY <1>2, <1>3, QueryKept

LEMMA QueryDefClass ==
    ASSUME "late_class" \notin App, IInv, QueryInv,
           NEW m \in MeshIds, NEW c \in Classes, NEW s \in Superclasses, DefClass(m, c, s)
    PROVE  QueryInv'
<1>1. /\ m \in DOMAIN meshes /\ cached' = cached /\ proc' = proc
      /\ cached.mesh # m \/ c \in Defined(m)
      /\ meshes' = AddClass(m, c, s)
  BY DEF DefClass
<1>2. CASE Class(m, c).superclass = "none"
  <2>1. c \notin Defined(m)
    BY <1>2 DEF Defined
  <2>2. meshes' = [meshes EXCEPT ![m].table[c] = ClassData(s)]
    BY <1>1, <1>2 DEF AddClass
  <2>3. ClassData(s) \in ClassRecord
    BY DEF ClassData, ClassRecord
  <2>4. QED
    BY <1>1, <2>1, <2>2, <2>3, QueryClass
<1>3. CASE Class(m, c).superclass # "none"
  BY <1>1, <1>3, QueryAlone DEF AddClass
<1>4. QED
  BY <1>2, <1>3

\* A block that is added leaves every class its superclass.
LEMMA BlockAdded ==
    ASSUME IInv, AddBlock
    PROVE  /\ DOMAIN meshes' = DOMAIN meshes
           /\ \A k \in DOMAIN meshes, d \in Classes : Class(k, d).superclass' = Class(k, d).superclass
<1>1. /\ doing # "none"
      /\ meshes' = [meshes EXCEPT ![entry.mesh].table[entry.name] = InsertRange(@, Block)]
  BY DEF AddBlock
<1>2. entry.mesh \in DOMAIN meshes /\ entry.name \in Classes
  BY <1>1 DEF IInv, CallInv, EntryInv
<1>3. PICK m, c : m = entry.mesh /\ c = entry.name
  OBVIOUS
<1>4. meshes \in Seq(MeshRecord)
  BY DEF IInv, MemoryInv, MeshesLoaded, MeshRecord
<1>5. /\ Len(meshes) \in Nat /\ DOMAIN meshes = 1..Len(meshes) /\ meshes[m] \in MeshRecord
      /\ meshes[m].table \in [Classes -> ClassRecord] /\ Class(m, c) \in ClassRecord
  <2>1. Len(meshes) \in Nat /\ DOMAIN meshes = 1..Len(meshes) /\ meshes[m] \in MeshRecord
    BY <1>2, <1>3, <1>4
  <2>2. meshes[m].table \in [Classes -> ClassRecord]
    BY <2>1 DEF MeshRecord
  <2>3. QED
    BY <1>2, <1>3, <2>1, <2>2 DEF Class
<1>6. PICK x : x = InsertRange(Class(m, c), Block)
  OBVIOUS
<1>7. meshes' = [meshes EXCEPT ![m].table[c] = x]
  BY <1>1, <1>3, <1>5, <1>6 DEF Class
<1>8. x.superclass = Class(m, c).superclass
  BY <1>5, <1>6 DEF InsertRange, ClassRecord
<1>9. ASSUME NEW k \in DOMAIN meshes, NEW d \in Classes
      PROVE  /\ k \in DOMAIN meshes'
             /\ Class(k, d).superclass' = Class(k, d).superclass
  <2>1. CASE k = m /\ d = c
    <3>1. Class(m, c)' = x
      BY <1>2, <1>3, <1>5, <1>7 DEF Class
    <3>2. QED
      BY <1>7, <1>8, <2>1, <3>1
  <2>2. CASE k = m /\ d # c
    BY <1>2, <1>3, <1>5, <1>7, <2>2 DEF Class
  <2>3. CASE k # m
    BY <1>7, <2>3 DEF Class
  <2>4. QED
    BY <2>1, <2>2, <2>3
<1>10. DOMAIN meshes' = DOMAIN meshes
  BY <1>7
<1>11. QED
  BY <1>9, <1>10

LEMMA QueryAddBlock ==
    ASSUME IInv, QueryInv, AddBlock
    PROVE  QueryInv'
<1>1. cached' = cached /\ proc' = proc
  BY DEF AddBlock
<1>2. QED
  BY <1>1, BlockAdded, QueryKept

LEMMA QueryMakeUmesh ==
    ASSUME IInv, QueryInv, NEW n \in Names, MakeUmesh(n)
    PROVE  QueryInv'
<1>1. /\ meshes' = Append(meshes, [name |-> n, table |-> NoClasses])
      /\ cached' = cached /\ proc' = proc
  BY DEF MakeUmesh
<1>2. meshes \in Seq(MeshRecord)
  BY DEF IInv, MemoryInv, MeshesLoaded, MeshRecord
<1>3. DOMAIN meshes \subseteq DOMAIN meshes' /\ \A k \in DOMAIN meshes : meshes'[k] = meshes[k]
  BY <1>1, <1>2
<1>4. QED
  BY <1>1, <1>3, QueryKept DEF Class

LEMMA QueryStep ==
    ASSUME "late_class" \notin App, IInv, IInv', QueryInv, [Next]_vars
    PROVE  QueryInv'
<1>1. ASSUME NEW n \in Names, MakeUmesh(n) PROVE QueryInv'
  BY <1>1, QueryMakeUmesh
<1>2. ASSUME NEW m \in MeshIds, Query(m) PROVE QueryInv'
  <2>1. Defined(m)' = Defined(m)
    BY <1>2 DEF Query, Defined, Class
  <2>2. QED
    BY <1>2, <2>1 DEF Query, Idle, QueryInv, ClassesCurrent
<1>3. ASSUME NEW m \in MeshIds, NEW d \in Declared, DefClass(m, d[1], d[2]) PROVE QueryInv'
  <2>1. d[1] \in Classes /\ d[2] \in Superclasses
    BY MeshAssumption
  <2>2. QED
    BY <1>3, <2>1, QueryDefClass
<1>4. ASSUME NEW m \in MeshIds, NEW c \in Classes, NEW r \in Ranges,
             DefClassIdents(m, c, r) \/ DefNodes(m, c, r) \/ DefConnSeq(m, c, r)
      PROVE  QueryInv'
  BY <1>4, QueryAlone DEF DefClassIdents, DefNodes, DefConnSeq, Define, Idle
<1>5. ASSUME NEW m \in MeshIds, NEW c \in Classes, NEW list \in Lists, DefConnArb(m, c, list)
      PROVE  QueryInv'
  BY <1>5, QueryAlone DEF DefConnArb, Define, Idle
<1>6. ASSUME NEW m \in MeshIds, NEW c \in Classes, DefConnSurface(m, c) PROVE QueryInv'
  BY <1>6, QueryAlone DEF DefConnSurface, Define, Idle
<1>7. ASSUME NEW m, NEW c, NEW type, Read(m, c, type) PROVE QueryInv'
  BY <1>7, QueryAlone DEF Read
<1>8. CASE Steps
  <2>1. RefuseBlock => QueryInv'
    <3>1. SUFFICES ASSUME RefuseBlock PROVE QueryInv'
      OBVIOUS
    <3>2. doing = "load" => proc = "loading"
      BY DEF IInv, CallInv, LoadInv
    <3>3. proc # "open" \/ proc' = "open"
      BY <3>1, <3>2 DEF RefuseBlock
    <3>4. QED
      BY <3>1, <3>3, QueryAlone DEF RefuseBlock
  <2>2. UpdateNodes \/ Defines => QueryInv'
    BY QueryAlone DEF UpdateNodes, Defines
  <2>3. QED
    BY <1>8, <2>1, <2>2, QueryAddBlock DEF Steps
<1>9. CASE Flush
  BY <1>9, QueryAlone DEF Flush, Idle
<1>10. CASE Close
  BY <1>10 DEF Close, ForgetClassData, NoQuery, QueryInv, ClassesCurrent
<1>11. CASE Load
  <2>1. Reopen \/ LoadObjects \/ Loaded \/ LoadEnds => QueryInv'
    BY QueryAlone DEF Reopen, LoadObjects, Loaded, LoadEnds
  <2>2. LoadMesh \/ LoadClass => proc = "loading" /\ proc' = proc /\ cached' = cached
    BY DEF LoadMesh, LoadClass
  <2>3. LoadMesh \/ LoadClass => QueryInv'
    BY <2>2 DEF QueryInv, ClassesCurrent
  <2>4. QED
    BY <1>11, <2>1, <2>3 DEF Load
<1>12. CASE UNCHANGED vars
  BY <1>12, QueryAlone DEF vars
<1>13. QED
  BY <1>1, <1>2, <1>3, <1>4, <1>5, <1>6, <1>7, <1>8, <1>9, <1>10, <1>11, <1>12 DEF Next

\* The classes a query answers from are the mesh's classes, in every session, for
\* any meshes and classes, as long as the application defines no class in the mesh
\* its last query was about.
THEOREM ClassesCorrect ==
    ASSUME "late_class" \notin App
    PROVE  Spec => []ClassesCurrent
<1>1. Init => IInv /\ QueryInv
  BY InitInv DEF Init, NoQuery, QueryInv, ClassesCurrent
<1>2. (IInv /\ QueryInv) /\ [Next]_vars => (IInv /\ QueryInv)'
  BY NextInv, QueryStep
<1>3. IInv /\ QueryInv => ClassesCurrent
  BY DEF QueryInv
<1>4. QED
  BY <1>1, <1>2, <1>3, PTL DEF Spec

-----------------------------------------------------------------------------
(***************************************************************************)
(* Counts.                                                                 *)
(***************************************************************************)
\* What a fold over a set goes by: the sum of each of its subsets.
Summing(it, E, w) ==
    it = [S \in SUBSET E |->
             IF S = {} THEN 0 ELSE w[CHOOSE p \in S : TRUE] + it[S \ {CHOOSE p \in S : TRUE}]]

\* There is one such function.
LEMMA SummingOnce ==
    ASSUME NEW E, IsFiniteSet(E), NEW w, NEW f, Summing(f, E, w), NEW g, Summing(g, E, w)
    PROVE  f[E] = g[E]
<1> DEFINE Bad   == {S \in SUBSET E : f[S] # g[S]}
           Sizes == {Cardinality(S) : S \in Bad}
<1>1. SUFFICES ASSUME Bad # {} PROVE FALSE
  OBVIOUS
<1>2. \A S \in SUBSET E : IsFiniteSet(S) /\ Cardinality(S) \in Nat
  BY FS_Subset, FS_CardinalityType
<1>3. Sizes \in SUBSET Nat /\ Sizes # {}
  BY <1>1, <1>2
<1>4. PICK S \in Bad : \A T \in Bad : Cardinality(S) <= Cardinality(T)
  <2>1. PICK k \in Sizes : \A l \in Sizes : k <= l
    <3> HIDE DEF Sizes
    <3>1. QED
      BY <1>3, LeastElement
  <2>2. QED
    BY <2>1
<1>5. S \in SUBSET E /\ f[S] # g[S]
  BY <1>4
<1>6. CASE S = {}
  BY <1>5, <1>6 DEF Summing
<1>7. CASE S # {}
  <2>1. PICK p : p = CHOOSE q \in S : TRUE
    OBVIOUS
  <2>2. p \in S
    BY <1>7, <2>1
  <2>3. /\ f[S] = w[p] + f[S \ {p}]
        /\ g[S] = w[p] + g[S \ {p}]
    BY <1>5, <1>7, <2>1 DEF Summing
  <2>4. Cardinality(S \ {p}) = Cardinality(S) - 1 /\ Cardinality(S) \in Nat
    BY <1>2, <1>5, <2>2, FS_RemoveElement
  <2>5. S \ {p} \notin Bad
    <3> HIDE DEF Bad
    <3>1. QED
      BY <1>4, <2>4
  <2>6. f[S \ {p}] = g[S \ {p}]
    BY <1>5, <2>5
  <2>7. QED
    BY <1>5, <2>3, <2>6
<1>8. QED
  BY <1>6, <1>7

\* The sum of the sizes of sets that share nothing is the size of their union.
LEMMA SumOfSizes ==
    ASSUME NEW E, IsFiniteSet(E), NEW D,
           \A p \in E : IsFiniteSet(D[p]),
           \A p, q \in E : p # q => D[p] \cap D[q] = {},
           NEW w, \A p \in E : w[p] = Cardinality(D[p])
    PROVE  (CHOOSE it : Summing(it, E, w))[E] = Cardinality(UNION {D[p] : p \in E})
<1> DEFINE All(S) == UNION {D[p] : p \in S}
           g == [S \in SUBSET E |-> Cardinality(All(S))]
<1>1. ASSUME NEW S \in SUBSET E PROVE IsFiniteSet(All(S))
  <2>1. IsFiniteSet(S)
    BY FS_Subset
  <2> DEFINE of == [p \in S |-> D[p]]
             F  == {D[p] : p \in S}
  <2>2. IsFiniteSet(F)
    <3>1. of \in [S -> F] /\ \A t \in F : \E p \in S : of[p] = t
      OBVIOUS
    <3> HIDE DEF of, F
    <3>2. of \in Surjection(S, F)
      BY <3>1 DEF Surjection
    <3>3. QED
      BY <2>1, <3>2, FS_Surjection
  <2>3. \A T \in F : IsFiniteSet(T)
    OBVIOUS
  <2> HIDE DEF F
  <2>4. IsFiniteSet(UNION F)
    BY <2>2, <2>3, FS_UNION
  <2>5. QED
    BY <2>4 DEF F
<1>2. ASSUME NEW S \in SUBSET E, S # {}
      PROVE  g[S] = w[CHOOSE p \in S : TRUE] + g[S \ {CHOOSE p \in S : TRUE}]
  <2>1. PICK p : p = CHOOSE q \in S : TRUE
    OBVIOUS
  <2>2. p \in S /\ p \in E
    BY <1>2, <2>1
  <2>3. PICK rest : rest = S \ {p}
    OBVIOUS
  <2>4. rest \in SUBSET E /\ IsFiniteSet(All(rest))
    BY <2>3, <1>1
  <2>5. All(S) = D[p] \cup All(rest)
    BY <2>2, <2>3
  <2>6. D[p] \cap All(rest) = {}
    <3>1. \A q \in rest : D[p] \cap D[q] = {}
      BY <2>2, <2>3, <2>4
    <3>2. QED
      BY <3>1
  <2>7. g[S] = Cardinality(All(S)) /\ g[rest] = Cardinality(All(rest))
    BY <2>4
  <2>8. PICK X, Y : X = D[p] /\ Y = All(rest)
    OBVIOUS
  <2>9. Cardinality(X \cup Y) = Cardinality(X) + Cardinality(Y)
    <3>1. IsFiniteSet(X) /\ IsFiniteSet(Y)
      BY <2>2, <2>4, <2>8
    <3>2. Cardinality(X) \in Nat /\ Cardinality(Y) \in Nat
      BY <3>1, FS_CardinalityType
    <3>3. Cardinality(X \cup Y) = Cardinality(X) + Cardinality(Y) - Cardinality(X \cap Y)
      BY <3>1, FS_Union
    <3>4. Cardinality(X \cap Y) = 0
      BY <2>6, <2>8, FS_EmptySet
    <3>5. QED
      BY <3>2, <3>3, <3>4
  <2>10. w[p] = Cardinality(X)
    BY <2>2, <2>8
  <2> HIDE DEF g, All
  <2>11. g[S] = Cardinality(X \cup Y) /\ g[rest] = Cardinality(Y)
    BY <2>5, <2>7, <2>8
  <2>12. QED
    BY <2>1, <2>3, <2>9, <2>10, <2>11
<1>3. g[{}] = 0
  <2>1. All({}) = {}
    OBVIOUS
  <2>2. QED
    BY <2>1, FS_EmptySet
<1>4. Summing(g, E, w)
  <2>1. g = [S \in SUBSET E |-> g[S]]
    OBVIOUS
  <2> HIDE DEF g
  <2>2. \A S \in SUBSET E :
            g[S] = IF S = {} THEN 0
                   ELSE w[CHOOSE p \in S : TRUE] + g[S \ {CHOOSE p \in S : TRUE}]
    BY <1>2, <1>3
  <2>3. QED
    BY <2>1, <2>2 DEF Summing
<1>5. PICK f : f = CHOOSE it : Summing(it, E, w)
  OBVIOUS
<1>6. Summing(f, E, w)
  BY <1>4, <1>5
<1>7. g[E] = Cardinality(All(E))
  OBVIOUS
<1>8. f[E] = g[E]
  <2> HIDE DEF g
  <2>1. QED
    BY <1>4, <1>6, SummingOnce
<1>9. QED
  BY <1>5, <1>7, <1>8

\* The ids of some places.
IdsAt(S) == UNION {Covered(At(p).ranges) : p \in S}

\* The length of a list of blocks that share no id is the number of their ids.
LEMMA ListLength ==
    ASSUME NEW ranges \in Seq(IdRange),
           \A k, l \in DOMAIN ranges : k # l => Ids(ranges[k]) \cap Ids(ranges[l]) = {}
    PROVE  /\ IsFiniteSet(Covered(ranges))
           /\ Len(BlocksToList(ranges)) = Cardinality(Covered(ranges))
<1>1. PICK ids : ids = BlocksToList(ranges)
  OBVIOUS
<1>2. /\ ids \in Seq(1..MaxId)
      /\ \A x : x \in Covered(ranges) <=> \E p \in DOMAIN ids : ids[p] = x
      /\ \A p, q \in DOMAIN ids : ids[p] = ids[q] => p = q
  BY <1>1, ListIs
<1>3. Len(ids) \in Nat /\ DOMAIN ids = 1..Len(ids)
  BY <1>2
<1>4. ids \in Bijection(1..Len(ids), Covered(ranges))
  <2>1. ids \in [1..Len(ids) -> Covered(ranges)]
    BY <1>2, <1>3
  <2>2. QED
    BY <2>1, <1>2, <1>3 DEF Bijection, Injection, Surjection, IsInjective
<1>5. ExistsBijection(1..Len(ids), Covered(ranges))
  BY <1>4 DEF ExistsBijection
<1>6. QED
  BY <1>1, <1>3, <1>5, FS_NatBijection, FS_CountingElements

\* Every definition of objects has the data of its ids, and is about some if no
\* list of ids is empty.
Lengths ==
    \A p \in Places : IsObject(p) => Len(At(p).data) = Len(BlocksToList(At(p).ranges))

LengthInv ==
    /\ Lengths
    /\ doing = "define" => Len(entry.data) = Len(BlocksToList(entry.ranges))
    /\ << >> \notin Lists => /\ \A p \in Places : IsObject(p) => At(p).ranges # << >>
                             /\ doing = "define" => entry.ranges # << >>

LEMMA PlacesFinite ==
    ASSUME NEW S, files \in Seq(Seq(S))
    PROVE  IsFiniteSet(Places)
<1>1. PICK n : n = Len(files)
  OBVIOUS
<1>2. /\ n \in Nat /\ DOMAIN files = 1..n
      /\ \A i \in 1..n : Len(files[i]) \in Nat /\ DOMAIN files[i] = 1..Len(files[i])
  <2>1. \A i \in 1..Len(files) : files[i] \in Seq(S)
    OBVIOUS
  <2>2. QED
    BY <1>1, <2>1
<1> DEFINE part == [i \in 1..n |-> {i} \X DOMAIN files[i]]
           F    == {part[i] : i \in 1..n}
<1>3. ASSUME NEW i \in 1..n PROVE IsFiniteSet(part[i])
  <2>1. IsFiniteSet({i})
    BY FS_Singleton
  <2>2. IsFiniteSet(1..Len(files[i]))
    BY <1>2, FS_Interval
  <2>3. IsFiniteSet({i} \X (1..Len(files[i])))
    BY <2>1, <2>2, FS_Product
  <2>4. part[i] = {i} \X (1..Len(files[i]))
    BY <1>2
  <2> HIDE DEF part
  <2>5. QED
    BY <2>3, <2>4
<1>4. IsFiniteSet(F)
  <2>1. part \in [1..n -> F] /\ \A t \in F : \E i \in 1..n : part[i] = t
    OBVIOUS
  <2> HIDE DEF part, F
  <2>2. part \in Surjection(1..n, F)
    BY <2>1 DEF Surjection
  <2>3. IsFiniteSet(1..n)
    BY <1>2, FS_Interval
  <2>4. QED
    BY <2>2, <2>3, FS_Surjection
<1>5. Places = UNION F
  BY <1>2 DEF Places
<1>6. \A T \in F : IsFiniteSet(T)
  BY <1>3
<1> HIDE DEF F
<1>7. QED
  BY <1>4, <1>5, <1>6, FS_UNION

\* The definitions of a class: they are finitely many, share no id, and each has
\* the data of its ids.
LEMMA EntriesAre ==
    ASSUME FilesInv, Lengths, NEW type \in ObjectTypes, NEW m, NEW c
    PROVE  /\ IsFiniteSet(Entries(type, m, c))
           /\ \A p \in Entries(type, m, c) :
                  /\ p \in Places
                  /\ At(p).ranges \in Seq(IdRange)
                  /\ IsFiniteSet(Covered(At(p).ranges))
                  /\ Len(At(p).data) = Cardinality(Covered(At(p).ranges))
           /\ \A p, q \in Entries(type, m, c) :
                  p # q => Covered(At(p).ranges) \cap Covered(At(q).ranges) = {}
<1> DEFINE E == Entries(type, m, c)
<1>1. PICK D : files \in Seq(Seq(EntryOf(D)))
  BY DEF FilesInv, FilesTyped
<1>2. E \subseteq Places /\ IsFiniteSet(E)
  <2>1. E \subseteq Places
    BY DEF Entries
  <2>2. IsFiniteSet(Places)
    BY <1>1, PlacesFinite
  <2> HIDE DEF E
  <2>3. QED
    BY <2>1, <2>2, FS_Subset
<1>3. \A p \in E : p \in Places /\ IsObject(p) /\ At(p).mesh = m /\ At(p).name = c
  BY DEF Entries, Matches, IsObject
<1>4. ASSUME NEW p \in E
      PROVE  /\ At(p).ranges \in Seq(IdRange)
             /\ IsFiniteSet(Covered(At(p).ranges))
             /\ Len(At(p).data) = Cardinality(Covered(At(p).ranges))
  <2>1. p \in Places /\ IsObject(p)
    BY <1>3
  <2>2. At(p).ranges \in Seq(IdRange)
    <3>1. At(p) \in EntryOf(D)
      BY <1>1, <2>1, PlaceIs
    <3>2. QED
      BY <3>1 DEF EntryOf
  <2>3. \A k, l \in DOMAIN At(p).ranges : k # l => Ids(At(p).ranges[k]) \cap Ids(At(p).ranges[l]) = {}
    <3>1. \A k, l : k # l => <<p, k>> # <<p, l>>
      OBVIOUS
    <3>2. QED
      BY <2>1, <3>1 DEF FilesInv, IdsOnce
  <2>4. QED
    BY <2>1, <2>2, <2>3, ListLength DEF Lengths
<1>5. ASSUME NEW p \in E, NEW q \in E, p # q
      PROVE  Covered(At(p).ranges) \cap Covered(At(q).ranges) = {}
  <2>1. SUFFICES ASSUME NEW id, id \in Covered(At(p).ranges), id \in Covered(At(q).ranges)
                 PROVE  FALSE
    OBVIOUS
  <2>2. QED
    BY <1>3, <1>5, <2>1, OnePlace
<1> HIDE DEF E
<1>6. QED
  BY <1>2, <1>3, <1>4, <1>5 DEF E

\* The count of a class is the number of ids its definitions have.
LEMMA CountRecorded ==
    ASSUME FilesInv, Lengths, NEW m, NEW c
    PROVE  CountElemConnDefs(m, c) = Cardinality(IdsAt(Entries("ELEM_CONNS", m, c)))
<1> DEFINE E == Entries("ELEM_CONNS", m, c)
           D == [p \in E |-> Covered(At(p).ranges)]
           w == [p \in E |-> Len(At(p).data)]
           body(it) == [S \in SUBSET E |->
                           IF S = {} THEN 0
                           ELSE Len(At(CHOOSE p \in S : TRUE).data) + it[S \ {CHOOSE p \in S : TRUE}]]
<1>1. CountElemConnDefs(m, c) = (CHOOSE it : it = body(it))[E]
  BY DEF CountElemConnDefs, FoldSet, MapThenFoldSet
<1>2. ASSUME NEW it PROVE Summing(it, E, w) <=> it = body(it)
  <2>1. ASSUME NEW S \in SUBSET E, S # {}
        PROVE  w[CHOOSE p \in S : TRUE] = Len(At(CHOOSE p \in S : TRUE).data)
    <3>1. (CHOOSE p \in S : TRUE) \in E
      BY <2>1
    <3>2. QED
      BY <3>1
  <2>2. QED
    BY <2>1 DEF Summing
<1> HIDE DEF body
<1>3. (CHOOSE it : it = body(it)) = (CHOOSE it : Summing(it, E, w))
  BY <1>2
<1>4. /\ IsFiniteSet(E)
      /\ \A p \in E : IsFiniteSet(D[p]) /\ w[p] = Cardinality(D[p])
      /\ \A p, q \in E : p # q => D[p] \cap D[q] = {}
  BY EntriesAre DEF ObjectTypes
<1>5. (CHOOSE it : Summing(it, E, w))[E] = Cardinality(UNION {D[p] : p \in E})
  <2> HIDE DEF E, D, w
  <2>1. QED
    BY <1>4, SumOfSizes
<1>6. UNION {D[p] : p \in E} = IdsAt(E)
  BY DEF IdsAt
<1>7. QED
  BY <1>1, <1>3, <1>5, <1>6

LEMMA CoveredIds ==
    ASSUME NEW blocks, Ordered(blocks)
    PROVE  Covered(blocks) \subseteq 1..MaxId
<1>1. \A i \in DOMAIN blocks : blocks[i] \in IdRange
  BY DEF Ordered
<1>2. \A r \in IdRange : Ids(r) \subseteq 1..MaxId
  BY MeshAssumption DEF Ids, IdRange
<1>3. QED
  BY <1>1, <1>2 DEF Covered

\* Between calls a class has the ids its definitions have, and those of definitions
\* that were refused half-way.
LEMMA RecordedOf ==
    ASSUME IInv, Idle, NEW m \in DOMAIN meshes, NEW c \in Classes,
           NEW type \in ObjectTypes, NEW s, HasClass(m, c, {s}),
           \A t \in ObjectTypes : Fits(t, s) => t = type
    PROVE  Recorded(m, c) = IdsAt(Entries(type, m, c))
<1>1. FilesInv /\ MemoryInv /\ Known = Places
  BY DEF IInv, MemoryInv, Idle, Known, Seen
<1>2. ASSUME NEW p \in Places, IsObject(p), Of(p, m, c) PROVE At(p).type = type
  <2>1. PICK q \in Places : FirstDef(q, m, c) /\ Fits(At(p).type, At(q).superclass)
    BY <1>1, <1>2 DEF FilesInv, ClassesNamed, Of
  <2>2. Class(m, c).superclass = At(q).superclass
    BY <1>1, <2>1, SuperclassIs DEF MemoryInv
  <2>3. Fits(At(p).type, s)
    BY <2>1, <2>2 DEF HasClass
  <2>4. QED
    BY <1>2, <2>3 DEF IsObject
<1>3. ASSUME NEW p PROVE p \in Entries(type, m, c) <=> p \in Places /\ IsObject(p) /\ Of(p, m, c)
  BY <1>2 DEF Entries, Matches, IsObject, Of
<1>4. ASSUME NEW x
      PROVE  x \in Recorded(m, c) <=> \E p \in Entries(type, m, c) : x \in Covered(At(p).ranges)
  BY <1>1, <1>3, RecordedIs
<1>5. QED
  BY <1>4 DEF IdsAt

LEMMA QtyIs ==
    ASSUME IInv, Idle, NEW m \in DOMAIN meshes, NEW c \in Classes
    PROVE  /\ Class(m, c).object_qty = Cardinality(Recorded(m, c) \cup stranded[m][c])
           /\ Covered(Class(m, c).blocks) = Recorded(m, c) \cup stranded[m][c]
<1>1. BlocksLoaded(m, c)
  BY DEF IInv, MemoryInv
<1>2. Pending(m, c) = {}
  BY NothingPending DEF Idle
<1>3. QED
  BY <1>1, <1>2 DEF BlocksLoaded

LEMMA RecordedFinite ==
    ASSUME IInv, Idle, NEW m \in DOMAIN meshes, NEW c \in Classes
    PROVE  IsFiniteSet(Recorded(m, c)) /\ IsFiniteSet(stranded[m][c] \ Recorded(m, c))
<1>1. PICK R, X : R = Recorded(m, c) /\ X = stranded[m][c]
  OBVIOUS
<1>2. R \cup X \subseteq 1..MaxId
  BY <1>1, QtyIs, CoveredIds DEF IInv, MemoryInv, BlocksLoaded
<1>3. IsFiniteSet(1..MaxId)
  BY MeshAssumption, FS_Interval
<1>4. R \in SUBSET (1..MaxId) /\ X \ R \in SUBSET (1..MaxId)
  BY <1>2
<1>5. QED
  BY <1>1, <1>3, <1>4, FS_Subset

LEMMA CountFollows ==
    ASSUME IInv, LengthInv
    PROVE  CountsRight
<1>1. SUFFICES ASSUME Idle, NEW m \in DOMAIN meshes, NEW c \in Classes, HasClass(m, c, {"element"})
               PROVE  CountElemConnDefs(m, c) + Cardinality(stranded[m][c] \ Recorded(m, c))
                          = Class(m, c).object_qty
  BY DEF CountsRight
<1>2. PICK R, X : R = Recorded(m, c) /\ X = stranded[m][c]
  OBVIOUS
<1>3. Class(m, c).object_qty = Cardinality(R \cup X)
  BY <1>1, <1>2, QtyIs
<1>4. R = IdsAt(Entries("ELEM_CONNS", m, c))
  BY <1>1, <1>2, RecordedOf DEF ObjectTypes, Fits
<1>5. IsFiniteSet(R) /\ IsFiniteSet(X \ R)
  BY <1>1, <1>2, RecordedFinite
<1>6. Cardinality(R \cup X) = Cardinality(R) + Cardinality(X \ R)
  <2>1. R \cup X = R \cup (X \ R) /\ R \cap (X \ R) = {}
    OBVIOUS
  <2>2. Cardinality(R) \in Nat /\ Cardinality(X \ R) \in Nat
    BY <1>5, FS_CardinalityType
  <2>3. Cardinality(R \cup (X \ R)) = Cardinality(R) + Cardinality(X \ R) - Cardinality(R \cap (X \ R))
    BY <1>5, FS_Union
  <2>4. Cardinality(R \cap (X \ R)) = 0
    BY <2>1, FS_EmptySet
  <2>5. Cardinality(R \cup X) = Cardinality(R \cup (X \ R))
    BY <2>1
  <2>6. QED
    BY <2>2, <2>3, <2>4, <2>5
<1>7. QED
  BY <1>2, <1>3, <1>4, <1>6, CountRecorded DEF IInv, LengthInv

\* The data a caller passes is as long as its list.
LEMMA DataLength ==
    ASSUME NEW ranges \in Seq(IdRange), NEW call
    PROVE  Len(Data(ranges, call)) = Len(BlocksToList(ranges))
<1>1. PICK ids : ids = BlocksToList(ranges)
  OBVIOUS
<1>2. Len(ids) \in Nat /\ DOMAIN ids = 1..Len(ids)
  <2>1. ids \in Seq(1..MaxId)
    BY <1>1, ListIs
  <2>2. QED
    BY <2>1
<1>3. Data(ranges, call) = [p \in 1..Len(ids) |-> <<ids[p], call>>]
  BY <1>1, <1>2 DEF Data
<1>4. QED
  BY <1>1, <1>2, <1>3

LEMMA LengthSame ==
    ASSUME LengthInv, files' = files,
           doing' = "define" => doing = "define" /\ entry' = entry
    PROVE  LengthInv'
<1>1. Places' = Places /\ \A p : At(p)' = At(p)
  BY DEF Places, At
<1>2. Lengths' /\ (<< >> \notin Lists => \A p \in Places' : IsObject(p)' => At(p).ranges' # << >>)
  BY <1>1 DEF LengthInv, Lengths, BlocksToList, IsObject
<1>3. doing' = "define" => /\ (Len(entry.data) = Len(BlocksToList(entry.ranges)))'
                           /\ << >> \notin Lists => entry.ranges' # << >>
  BY DEF LengthInv, BlocksToList
<1>4. QED
  BY <1>2, <1>3 DEF LengthInv

LEMMA LengthDefine ==
    ASSUME LengthInv, NEW type, NEW m, NEW c, NEW ranges \in Seq(IdRange), Define(type, m, c, ranges),
           << >> \notin Lists => ranges # << >>
    PROVE  LengthInv'
<1>1. files' = files /\ entry'.ranges = ranges /\ entry'.data = Data(ranges, clock + 1)
  BY DEF Define
<1>2. Places' = Places /\ \A p : At(p)' = At(p)
  BY <1>1 DEF Places, At
<1>3. Lengths' /\ (<< >> \notin Lists => \A p \in Places' : IsObject(p)' => At(p).ranges' # << >>)
  BY <1>2 DEF LengthInv, Lengths, BlocksToList, IsObject
<1>4. Len(entry'.data) = Len(BlocksToList(ranges))
  BY <1>1, DataLength
<1>5. QED
  BY <1>1, <1>3, <1>4 DEF LengthInv, BlocksToList

\* An entry goes behind the others.
LEMMA LengthEnter ==
    ASSUME IInv, TypeInv, LengthInv, NEW e \in Entry, Enter(e), doing' = "none",
           e.type \in ObjectTypes => /\ Len(e.data) = Len(BlocksToList(e.ranges))
                                     /\ << >> \notin Lists => e.ranges # << >>
    PROVE  LengthInv'
<1>1. files \in Seq(Seq(Entry)) /\ files # << >>
  BY DEF TypeInv, IInv, FilesInv, FilesTyped
<1>2. \A p \in Places' : At(p)' = e \/ (p \in Places /\ At(p)' = At(p))
  BY <1>1, EnterEntries
<1>3. Lengths'
  BY <1>2 DEF LengthInv, Lengths, BlocksToList, IsObject
<1>4. << >> \notin Lists => \A p \in Places' : IsObject(p)' => At(p).ranges' # << >>
  BY <1>2 DEF LengthInv, IsObject
<1>5. QED
  BY <1>3, <1>4 DEF LengthInv

\* Coordinates that are written again are as many as before.
LEMMA LengthUpdate ==
    ASSUME IInv, TypeInv, LengthInv, UpdateNodes
    PROVE  LengthInv'
<1> DEFINE m    == entry.mesh
           c    == entry.name
           hits == Containing(m, c, Block)
           hit  == FirstOf(hits)
<1>1. /\ doing' = "none"
      /\ files' = IF hits = {} THEN files
                  ELSE [files EXCEPT ![hit[1]][hit[2]].data = Overwrite(@, At(hit).ranges[1], entry)]
  BY DEF UpdateNodes, Done
<1>2. CASE hits = {}
  BY <1>1, <1>2, LengthSame
<1>3. CASE hits # {}
  <2>1. files \in Seq(Seq(Entry))
    BY DEF TypeInv
  <2>2. hits \subseteq Places
    BY DEF Containing, Candidates, Entries
  <2>3. hit \in hits
    <3> HIDE DEF hits
    <3>1. QED
      BY <1>3, <2>1, <2>2, FirstIs
  <2>4. PICK i, j : hit = <<i, j>> /\ i \in DOMAIN files /\ j \in DOMAIN files[i]
    BY <2>2, <2>3 DEF Places
  <2>5. PICK R : R = At(hit).ranges[1]
    OBVIOUS
  <2>6. PICK x : x = Overwrite(files[i][j].data, R, entry)
    OBVIOUS
  <2>7. files' = [files EXCEPT ![i][j].data = x]
    <3>1. hit[1] = i /\ hit[2] = j
      BY <2>4
    <3> HIDE DEF hit
    <3>2. files' = [files EXCEPT ![i][j].data = Overwrite(files[i][j].data, R, entry)]
      BY <1>1, <1>3, <2>5, <3>1
    <3>3. QED
      BY <2>6, <3>2
  <2>8. Places' = Places
    <3>1. DOMAIN files' = DOMAIN files /\ \A k \in DOMAIN files : DOMAIN files'[k] = DOMAIN files[k]
      BY <2>7
    <3>2. QED
      BY <3>1 DEF Places
  <2>9. files[i][j] \in Entry
    BY <2>1, <2>4
  <2>10. Len(x) = Len(files[i][j].data)
    <3>1. PICK data : data = files[i][j].data
      OBVIOUS
    <3>2. Len(data) \in Nat /\ DOMAIN data = 1..Len(data)
      <4>1. data \in Seq(Nat \X Nat)
        BY <2>9, <3>1 DEF Entry
      <4>2. QED
        BY <4>1
    <3>3. DOMAIN x = DOMAIN data /\ x = [p \in DOMAIN data |-> x[p]]
      BY <2>6, <3>1 DEF Overwrite
    <3>4. QED
      BY <3>1, <3>2, <3>3
  <2>11. ASSUME NEW p \in Places
         PROVE  /\ At(p).type' = At(p).type /\ At(p).ranges' = At(p).ranges
                /\ Len(At(p).data)' = Len(At(p).data)
    <3>1. PICK k, l : p = <<k, l>> /\ k \in DOMAIN files /\ l \in DOMAIN files[k]
      BY DEF Places
    <3>2. CASE k = i /\ l = j
      <4>1. files'[i][j] = [files[i][j] EXCEPT !.data = x]
        BY <2>4, <2>7
      <4>2. /\ files'[i][j].type = files[i][j].type /\ files'[i][j].ranges = files[i][j].ranges
            /\ files'[i][j].data = x
        BY <2>9, <4>1 DEF Entry
      <4>3. QED
        BY <2>10, <3>1, <3>2, <4>2 DEF At
    <3>3. CASE ~(k = i /\ l = j)
      <4>1. At(p)' = At(p)
        BY <2>4, <2>7, <3>1, <3>3 DEF At
      <4>2. QED
        BY <4>1
    <3>4. QED
      BY <3>2, <3>3
  <2>12. Lengths' /\ (<< >> \notin Lists => \A p \in Places' : IsObject(p)' => At(p).ranges' # << >>)
    BY <2>8, <2>11 DEF LengthInv, Lengths, BlocksToList, IsObject
  <2>13. QED
    BY <1>1, <2>12 DEF LengthInv
<1>4. QED
  BY <1>2, <1>3

LEMMA LengthStep ==
    ASSUME IInv, TypeInv, LengthInv, [Next]_vars
    PROVE  LengthInv'
<1>1. ASSUME NEW n \in Names, MakeUmesh(n) PROVE LengthInv'
  <2>1. PICK e : e = [NoEntry EXCEPT !.mesh = Len(meshes) + 1, !.name = n]
    OBVIOUS
  <2>2. Enter(e) /\ doing' = "none"
    BY <1>1, <2>1 DEF MakeUmesh, Idle
  <2>3. e \in Entry /\ e.type = "MESH_NAME"
    <3>1. Len(meshes) + 1 \in Nat
      BY DEF IInv, MemoryInv, MeshesLoaded
    <3>2. e \in Entry
      BY <2>1, <3>1, NoEntryTyped DEF Entry
    <3>3. NoEntry.type = "MESH_NAME"
      BY DEF NoEntry
    <3>4. QED
      BY <2>1, <3>2, <3>3, NoEntryTyped DEF Entry
  <2>4. QED
    BY <2>2, <2>3, LengthEnter DEF ObjectTypes
<1>2. ASSUME NEW m \in MeshIds, Query(m) PROVE LengthInv'
  BY <1>2, LengthSame DEF Query
<1>3. ASSUME NEW m \in MeshIds, NEW d \in Declared, DefClass(m, d[1], d[2]) PROVE LengthInv'
  <2>1. d[1] \in Classes /\ d[2] \in Superclasses
    BY MeshAssumption
  <2>2. PICK e : e = [NoEntry EXCEPT !.type = "CLASS_DEF", !.mesh = m, !.name = d[1], !.superclass = d[2]]
    OBVIOUS
  <2>3. Enter(e) /\ doing' = "none"
    BY <1>3, <2>2 DEF DefClass, Idle
  <2>4. e \in Entry /\ e.type = "CLASS_DEF"
    <3>1. m \in Nat
      BY FilesNamed
    <3>2. e \in Entry /\ e.type = "CLASS_DEF"
      BY <2>1, <2>2, <3>1, NoEntryTyped DEF Entry, Types
    <3>3. QED
      BY <3>2
  <2>5. QED
    BY <2>3, <2>4, LengthEnter DEF ObjectTypes
<1>4. ASSUME NEW m \in MeshIds, NEW c \in Classes, NEW r \in Ranges,
             DefClassIdents(m, c, r) \/ DefNodes(m, c, r) \/ DefConnSeq(m, c, r)
      PROVE  LengthInv'
  <2>1. <<r>> \in Seq(IdRange) /\ <<r>> # << >>
    BY MeshAssumption
  <2>2. \E type : Define(type, m, c, <<r>>)
    BY <1>4 DEF DefClassIdents, DefNodes, DefConnSeq
  <2>3. QED
    BY <2>1, <2>2, LengthDefine
<1>5. ASSUME NEW m \in MeshIds, NEW c \in Classes, NEW list \in Lists, DefConnArb(m, c, list)
      PROVE  LengthInv'
  <2>1. list \in Seq(IdRange)
    BY MeshAssumption
  <2>2. QED
    BY <1>5, <2>1, LengthDefine DEF DefConnArb
<1>6. ASSUME NEW m \in MeshIds, NEW c \in Classes, DefConnSurface(m, c) PROVE LengthInv'
  <2>1. PICK s : s = NextSurface(Class(m, c).blocks)
    OBVIOUS
  <2>2. PICK ranges : ranges = <<[start |-> s, stop |-> s]>>
    OBVIOUS
  <2>3. m \in DOMAIN meshes /\ s <= MaxId /\ Define("SURFACE_CONNS", m, c, ranges)
    BY <1>6, <2>1, <2>2 DEF DefConnSurface, HasClass
  <2>4. s \in Nat /\ s >= 1
    <3>1. Ordered(Class(m, c).blocks)
      BY <2>3 DEF IInv, MemoryInv, BlocksLoaded
    <3>2. QED
      BY <2>1, <3>1, SurfacePositive
  <2>5. [start |-> s, stop |-> s] \in IdRange
    <3>1. s \in 1..MaxId /\ s <= s
      BY <2>3, <2>4, MeshAssumption
    <3>2. QED
      BY <3>1 DEF IdRange
  <2>6. ranges \in Seq(IdRange) /\ ranges # << >>
    BY <2>2, <2>5
  <2>7. QED
    BY <2>3, <2>6, LengthDefine
<1>7. ASSUME NEW m, NEW c, NEW type, Read(m, c, type) PROVE LengthInv'
  BY <1>7, LengthSame DEF Read
<1>8. CASE Steps
  <2>1. AddBlock \/ RefuseBlock => LengthInv'
    BY LengthSame DEF AddBlock, RefuseBlock, Done
  <2>2. Defines => LengthInv'
    <3>1. Defines => doing = "define" /\ Enter(entry) /\ doing' = "none" /\ entry \in Entry
      BY DEF Defines, Done, TypeInv
    <3>2. QED
      BY <3>1, LengthEnter DEF LengthInv
  <2>3. QED
    BY <1>8, <2>1, <2>2, LengthUpdate DEF Steps
<1>9. CASE Flush
  BY <1>9, LengthSame DEF Flush
<1>10. CASE Close
  BY <1>10, LengthSame DEF Close
<1>11. CASE Load
  <2>1. proc = "closed" => doing = "none"
    BY DEF IInv, CallInv
  <2>2. files' = files /\ doing' # "define"
    BY <1>11, <2>1 DEF Load, Reopen, LoadMesh, LoadClass, LoadObjects, Loaded, LoadEnds, Done
  <2>3. QED
    BY <2>2, LengthSame
<1>12. CASE UNCHANGED vars
  BY <1>12, LengthSame DEF vars
<1>13. QED
  BY <1>1, <1>2, <1>3, <1>4, <1>5, <1>6, <1>7, <1>8, <1>9, <1>10, <1>11, <1>12 DEF Next

LEMMA LengthInit == Init => LengthInv
<1>1. Init => Places = {} /\ doing = "none"
  BY DEF Init, Places
<1>2. QED
  BY <1>1 DEF LengthInv, Lengths

\* What count_elem_conn_defs tells is the class's number of elements, less those of
\* definitions that were refused half-way: for any meshes, classes, ranges and
\* lists of ids, whatever the application does, in every session.
THEOREM CountsCorrect == Spec => []CountsRight
<1>1. Init => IInv /\ TypeInv /\ LengthInv
  BY InitInv, TypeInit, LengthInit
<1>2. (IInv /\ TypeInv /\ LengthInv) /\ [Next]_vars => (IInv /\ TypeInv /\ LengthInv)'
  BY NextInv, TypeStep, LengthStep
<1>3. IInv /\ LengthInv => CountsRight
  BY CountFollows
<1>4. QED
  BY <1>1, <1>2, <1>3, PTL DEF Spec

-----------------------------------------------------------------------------
(***************************************************************************)
(* Definitions by index.                                                   *)
(***************************************************************************)
\* The definitions of a class are numbered from 1, each once.
LEMMA Ranked ==
    ASSUME FilesInv, Lengths, NEW type \in ObjectTypes, NEW m, NEW c
    PROVE  LET E == Entries(type, m, c)
               n == Cardinality(E)
           IN  /\ n \in Nat
               /\ \A i \in Nat \ {0} : \A p \in NthEntry(type, m, c, i) : p \in E /\ i \in 1..n
               /\ \A i \in 1..n : \E p \in E : NthEntry(type, m, c, i) = {p}
               /\ \A p \in E : \E i \in 1..n : p \in NthEntry(type, m, c, i)
<1> DEFINE E == Entries(type, m, c)
           n == Cardinality(E)
           rank == [p \in E |-> Cardinality(Preceding(type, p)) + 1]
<1>1. IsFiniteSet(E) /\ n \in Nat /\ E \subseteq Places
  BY EntriesAre, FS_CardinalityType DEF Entries
<1>2. ASSUME NEW p \in E
      PROVE  /\ Preceding(type, p) = {q \in E : Earlier(q, p)}
             /\ IsFiniteSet(Preceding(type, p))
             /\ Cardinality(Preceding(type, p)) \in Nat
  <2>1. At(p).mesh = m /\ At(p).name = c
    BY DEF Entries, Matches
  <2>2. Preceding(type, p) = {q \in E : Earlier(q, p)}
    BY <2>1 DEF Preceding
  <2>3. Preceding(type, p) \in SUBSET E
    BY <2>2
  <2> HIDE DEF E
  <2>4. QED
    BY <1>1, <2>2, <2>3, FS_Subset, FS_CardinalityType
<1>3. PICK S : files \in Seq(Seq(S))
  BY DEF FilesInv, FilesTyped
<1>4. \A p, q \in E : /\ p = q \/ Earlier(p, q) \/ Earlier(q, p)
                      /\ ~Earlier(p, p)
  BY <1>1, <1>3, PlacesOrdered
<1>5. \A p, q, r \in E : Earlier(p, q) /\ Earlier(q, r) => Earlier(p, r)
  <2>1. \A p \in E : p[1] \in Nat /\ p[2] \in Nat
    BY <1>1, <1>3, PlaceIs
  <2> HIDE DEF E
  <2>2. QED
    BY <2>1 DEF Earlier
<1> HIDE DEF E
<1>6. ASSUME NEW p \in E, NEW q \in E, Earlier(p, q)
      PROVE  Cardinality(Preceding(type, p)) < Cardinality(Preceding(type, q))
  <2>1. PICK P, Q : P = Preceding(type, p) /\ Q = Preceding(type, q)
    OBVIOUS
  <2>2. p \notin P /\ P \cup {p} \subseteq Q /\ IsFiniteSet(P) /\ IsFiniteSet(Q)
    BY <1>2, <1>4, <1>5, <1>6, <2>1
  <2>3. Cardinality(P \cup {p}) = Cardinality(P) + 1
    BY <2>2, FS_AddElement
  <2>4. Cardinality(P \cup {p}) <= Cardinality(Q)
    BY <2>2, FS_Subset
  <2>5. Cardinality(P) \in Nat /\ Cardinality(Q) \in Nat
    BY <2>2, FS_CardinalityType
  <2>6. QED
    BY <2>1, <2>3, <2>4, <2>5
<1>7. ASSUME NEW p \in E PROVE Cardinality(Preceding(type, p)) + 1 \in 1..n
  <2>1. PICK P : P = Preceding(type, p)
    OBVIOUS
  <2>2. p \notin P /\ P \subseteq E \ {p}
    BY <1>2, <1>4, <2>1
  <2>3. IsFiniteSet(E \ {p}) /\ Cardinality(E \ {p}) = n - 1
    BY <1>1, FS_RemoveElement
  <2>4. Cardinality(P) <= n - 1
    BY <2>2, <2>3, FS_Subset
  <2>5. Cardinality(P) \in Nat
    BY <1>2, <2>1
  <2> HIDE DEF n
  <2>6. QED
    BY <1>1, <2>1, <2>4, <2>5
<1>8. rank \in Surjection(E, 1..n)
  <2>1. rank \in [E -> 1..n]
    BY <1>7
  <2>2. \A p, q \in E : rank[p] = rank[q] => p = q
    <3>1. SUFFICES ASSUME NEW p \in E, NEW q \in E, rank[p] = rank[q], p # q PROVE FALSE
      OBVIOUS
    <3>2. Cardinality(Preceding(type, p)) = Cardinality(Preceding(type, q))
      BY <1>2, <3>1
    <3>3. Earlier(p, q) \/ Earlier(q, p)
      BY <1>4, <3>1
    <3>4. QED
      BY <1>2, <1>6, <3>2, <3>3
  <2> HIDE DEF rank
  <2>3. rank \in Injection(E, 1..n)
    BY <2>1, <2>2 DEF Injection, IsInjective
  <2>4. IsFiniteSet(1..n) /\ Cardinality(1..n) = n
    <3> HIDE DEF n
    <3>1. QED
      BY <1>1, FS_Interval
  <2>5. QED
    BY <2>3, <2>4, FS_Injection
<1>9. \A i \in Int : NthEntry(type, m, c, i) = {p \in E : rank[p] = i}
  <2>1. \A i \in Int : \A p \in E : Cardinality(Preceding(type, p)) = i - 1 <=> rank[p] = i
    BY <1>2
  <2> HIDE DEF rank
  <2>2. QED
    BY <2>1 DEF NthEntry, E
<1>10. \A p, q \in E : rank[p] = rank[q] => p = q
  <2>1. SUFFICES ASSUME NEW p \in E, NEW q \in E, rank[p] = rank[q], p # q PROVE FALSE
    OBVIOUS
  <2>2. Cardinality(Preceding(type, p)) = Cardinality(Preceding(type, q))
    BY <1>2, <2>1
  <2>3. QED
    BY <1>2, <1>4, <1>6, <2>1, <2>2
<1> HIDE DEF rank
<1>11. rank \in [E -> 1..n] /\ \A i \in 1..n : \E p \in E : rank[p] = i
  BY <1>8 DEF Surjection
<1>12. 1..n \subseteq Int
  OBVIOUS
<1>13. \A i \in Nat \ {0} : \A p \in NthEntry(type, m, c, i) : p \in E /\ i \in 1..n
  BY <1>9, <1>11
<1>14. ASSUME NEW i \in 1..n PROVE \E p \in E : NthEntry(type, m, c, i) = {p}
  <2>1. PICK p \in E : rank[p] = i
    BY <1>11
  <2>2. NthEntry(type, m, c, i) = {p}
    BY <1>9, <1>10, <1>12, <2>1
  <2>3. QED
    BY <2>2
<1>15. ASSUME NEW p \in E PROVE \E i \in 1..n : p \in NthEntry(type, m, c, i)
  <2>1. rank[p] \in 1..n
    BY <1>11
  <2>2. p \in NthEntry(type, m, c, rank[p])
    BY <1>9, <1>12, <2>1
  <2>3. QED
    BY <2>1, <2>2
<1>16. QED
  BY <1>1, <1>13, <1>14, <1>15 DEF E

\* Max of one number.
LEMMA MaxOfOne ==
    ASSUME NEW x \in Nat
    PROVE  Max({x}) = x
  BY DEF Max

\* One by one the definitions of a class have as many objects as together.
LEMMA ListedSum ==
    ASSUME FilesInv, Lengths, NEW type \in ObjectTypes, NEW m, NEW c, NEW N \in Nat,
           Cardinality(Entries(type, m, c)) <= N,
           NEW f, DOMAIN f = 1..N,
           \A i \in 1..N : f[i] = {Len(At(p).data) : p \in NthEntry(type, m, c, i)}
    PROVE  /\ MapThenSumSet(LAMBDA i : Max(f[i]), {i \in DOMAIN f : f[i] # {}})
                  = Cardinality(IdsAt(Entries(type, m, c)))
           /\ \A i \in 1..N : f[i] # {} <=> i <= Cardinality(Entries(type, m, c))
<1> DEFINE E == Entries(type, m, c)
           n == Cardinality(E)
<1>1. /\ n \in Nat /\ n <= N
      /\ \A i \in Nat \ {0} : \A p \in NthEntry(type, m, c, i) : p \in E /\ i \in 1..n
      /\ \A i \in 1..n : \E p \in E : NthEntry(type, m, c, i) = {p}
      /\ \A p \in E : \E i \in 1..n : p \in NthEntry(type, m, c, i)
  BY Ranked
<1>2. /\ \A p \in E : /\ IsFiniteSet(Covered(At(p).ranges))
                      /\ Len(At(p).data) = Cardinality(Covered(At(p).ranges))
      /\ \A p, q \in E : p # q => Covered(At(p).ranges) \cap Covered(At(q).ranges) = {}
  BY EntriesAre
<1> HIDE DEF E, n
<1> DEFINE nth == [i \in 1..n |-> CHOOSE p \in E : NthEntry(type, m, c, i) = {p}]
           D   == [i \in 1..n |-> Covered(At(nth[i]).ranges)]
           w   == [i \in 1..n |-> Max(f[i])]
<1>3. \A i \in 1..n : nth[i] \in E /\ NthEntry(type, m, c, i) = {nth[i]}
  BY <1>1
<1>4. \A i, j \in 1..n : i # j => nth[i] # nth[j]
  <2>1. SUFFICES ASSUME NEW i \in 1..n, NEW j \in 1..n, nth[i] = nth[j] PROVE i = j
    OBVIOUS
  <2>2. PICK p : p = nth[i]
    OBVIOUS
  <2>3. p \in NthEntry(type, m, c, i) /\ p \in NthEntry(type, m, c, j)
    BY <1>3, <2>1, <2>2
  <2>4. Cardinality(Preceding(type, p)) = i - 1 /\ Cardinality(Preceding(type, p)) = j - 1
    BY <2>3 DEF NthEntry
  <2>5. QED
    BY <1>1, <2>4
<1>5. \A p \in E : \E i \in 1..n : nth[i] = p
  <2>1. SUFFICES ASSUME NEW p \in E PROVE \E i \in 1..n : nth[i] = p
    OBVIOUS
  <2>2. PICK i \in 1..n : p \in NthEntry(type, m, c, i)
    BY <1>1
  <2>3. QED
    BY <1>3, <2>2
<1> HIDE DEF nth
<1>6. \A i \in 1..n : f[i] = {Len(At(nth[i]).data)}
  <2>1. SUFFICES ASSUME NEW i \in 1..n PROVE f[i] = {Len(At(nth[i]).data)}
    OBVIOUS
  <2>2. i \in 1..N
    BY <1>1
  <2>3. QED
    BY <1>3, <2>2
<1>7. \A i \in 1..N : f[i] # {} <=> i <= n
  <2>1. SUFFICES ASSUME NEW i \in 1..N PROVE f[i] # {} <=> i <= n
    OBVIOUS
  <2>2. CASE i <= n
    <3>1. i \in 1..n
      BY <1>1, <2>2
    <3>2. QED
      BY <1>6, <2>2, <3>1
  <2>3. CASE ~(i <= n)
    <3>1. NthEntry(type, m, c, i) = {}
      BY <1>1, <2>3
    <3>2. QED
      BY <2>3, <3>1
  <2>4. QED
    BY <2>2, <2>3
<1>8. {i \in DOMAIN f : f[i] # {}} = 1..n
  BY <1>1, <1>7
<1>9. \A i \in 1..n : IsFiniteSet(D[i]) /\ w[i] = Cardinality(D[i])
  <2>1. SUFFICES ASSUME NEW i \in 1..n PROVE IsFiniteSet(D[i]) /\ w[i] = Cardinality(D[i])
    OBVIOUS
  <2>2. PICK X : X = Covered(At(nth[i]).ranges)
    OBVIOUS
  <2>3. IsFiniteSet(X) /\ Len(At(nth[i]).data) = Cardinality(X) /\ Cardinality(X) \in Nat
    BY <1>2, <1>3, <2>2, FS_CardinalityType
  <2>4. Max(f[i]) = Cardinality(X)
    BY <1>6, <2>3, MaxOfOne
  <2>5. QED
    BY <2>2, <2>3, <2>4
<1>10. \A i, j \in 1..n : i # j => D[i] \cap D[j] = {}
  BY <1>2, <1>3, <1>4
<1>11. IsFiniteSet(1..n)
  BY <1>1, FS_Interval
<1>12. (CHOOSE it : Summing(it, 1..n, w))[1..n] = Cardinality(UNION {D[i] : i \in 1..n})
  <2> HIDE DEF D, w
  <2>1. PICK J, X, v : J = 1..n /\ X = D /\ v = w
    OBVIOUS
  <2>2. IsFiniteSet(J) /\ \A i \in J : IsFiniteSet(X[i])
    BY <1>9, <1>11, <2>1
  <2>3. \A i \in J : v[i] = Cardinality(X[i])
    BY <1>9, <2>1
  <2>4. \A i, j \in J : i # j => X[i] \cap X[j] = {}
    BY <1>10, <2>1
  <2>5. (CHOOSE it : Summing(it, J, v))[J] = Cardinality(UNION {X[i] : i \in J})
    BY ONLY <2>2, <2>3, <2>4, SumOfSizes
  <2>6. QED
    BY ONLY <2>1, <2>5
<1>13. UNION {D[i] : i \in 1..n} = IdsAt(E)
  <2>1. UNION {D[i] : i \in 1..n} \subseteq IdsAt(E)
    BY <1>3 DEF IdsAt
  <2>2. IdsAt(E) \subseteq UNION {D[i] : i \in 1..n}
    <3>1. SUFFICES ASSUME NEW p \in E, NEW x \in Covered(At(p).ranges)
                   PROVE  \E i \in 1..n : x \in D[i]
      BY DEF IdsAt
    <3>2. PICK i \in 1..n : nth[i] = p
      BY <1>5
    <3>3. D[i] = Covered(At(p).ranges)
      BY <3>2
    <3>4. QED
      BY <3>3
  <2>3. QED
    BY <2>1, <2>2
<1> DEFINE I == {i \in DOMAIN f : f[i] # {}}
           body(it) == [S \in SUBSET I |->
                           IF S = {} THEN 0
                           ELSE Max(f[CHOOSE i \in S : TRUE]) + it[S \ {CHOOSE i \in S : TRUE}]]
<1>14. MapThenSumSet(LAMBDA i : Max(f[i]), I) = (CHOOSE it : it = body(it))[I]
  BY DEF MapThenSumSet, MapThenFoldSet
<1>15. ASSUME NEW it PROVE Summing(it, 1..n, w) <=> it = body(it)
  <2>1. I = 1..n
    BY <1>8
  <2> HIDE DEF I
  <2>2. ASSUME NEW S \in SUBSET (1..n), S # {}
        PROVE  w[CHOOSE i \in S : TRUE] = Max(f[CHOOSE i \in S : TRUE])
    <3>1. (CHOOSE i \in S : TRUE) \in 1..n
      BY <2>2
    <3>2. QED
      BY <3>1
  <2>3. QED
    BY <2>1, <2>2 DEF Summing
<1> HIDE DEF body
<1>16. (CHOOSE it : it = body(it)) = (CHOOSE it : Summing(it, 1..n, w))
  BY <1>15
<1>17. MapThenSumSet(LAMBDA i : Max(f[i]), I) = Cardinality(IdsAt(E))
  <2>1. I = 1..n
    BY <1>8
  <2> HIDE DEF I, w, D
  <2>2. QED
    BY <1>12, <1>13, <1>14, <1>16, <2>1
<1>18. QED
  BY <1>7, <1>17 DEF E, n

-----------------------------------------------------------------------------
(***************************************************************************)
(* A definition of nodes is one block, so that none is refused half-way.   *)
(***************************************************************************)
NodesKept ==
    \A m \in DOMAIN meshes, c \in Classes :
        Class(m, c).superclass = "node" => stranded[m][c] = {}

\* What is no class has nothing.
LEMMA NoneStranded ==
    ASSUME IInv, NEW m \in DOMAIN meshes, NEW c \in Classes, Class(m, c).superclass = "none"
    PROVE  stranded[m][c] = {}
<1>1. ClassLoaded(m, c) /\ BlocksLoaded(m, c)
  BY DEF IInv, MemoryInv
<1>2. Class(m, c).blocks = << >>
  BY <1>1 DEF ClassLoaded, ClassData
<1>3. Covered(Class(m, c).blocks) = {}
  BY <1>2, EmptyClass DEF Covered
<1>4. QED
  BY <1>1, <1>3 DEF BlocksLoaded

LEMMA NodesAlone ==
    ASSUME NodesKept, stranded' = stranded,
           \A m \in DOMAIN meshes', c \in Classes :
               Class(m, c).superclass' = "node" =>
                   \/ m \in DOMAIN meshes /\ Class(m, c).superclass = "node"
                   \/ stranded[m][c] = {}
    PROVE  NodesKept'
  BY DEF NodesKept

LEMMA NodesSame ==
    ASSUME NodesKept, stranded' = stranded, meshes' = meshes
    PROVE  NodesKept'
  BY NodesAlone DEF Class

LEMMA NodesAddBlock ==
    ASSUME IInv, NodesKept, AddBlock
    PROVE  NodesKept'
<1>1. /\ doing # "none" /\ stranded' = stranded
      /\ meshes' = [meshes EXCEPT ![entry.mesh].table[entry.name] = InsertRange(@, Block)]
  BY DEF AddBlock
<1>2. entry.mesh \in DOMAIN meshes /\ entry.name \in Classes
  BY <1>1 DEF IInv, CallInv, EntryInv
<1>3. DOMAIN meshes' = DOMAIN meshes
      /\ \A k \in DOMAIN meshes, d \in Classes : Class(k, d).superclass' = Class(k, d).superclass
  BY <1>1, <1>2, BlockAdded DEF IInv
<1>4. QED
  BY <1>1, <1>3, NodesAlone

LEMMA NodesRefuse ==
    ASSUME IInv, IInv', NodesKept, RefuseBlock
    PROVE  NodesKept'
<1>1. /\ doing # "none" /\ meshes' = meshes
      /\ doing = "define" => entry.type # "NODES"
      /\ proc' = IF doing = "load" THEN "failed" ELSE proc
      /\ stranded' = [stranded EXCEPT ![entry.mesh][entry.name] =
                          @ \cup Covered(SubSeq(entry.ranges, 1, added))]
  BY DEF RefuseBlock
<1>2. /\ Fits(entry.type, Class(entry.mesh, entry.name).superclass)
      /\ entry.mesh \in DOMAIN meshes /\ entry.name \in Classes
  BY <1>1 DEF IInv, CallInv, EntryInv
<1>3. doing = "define"
  <2>1. proc' # "failed"
    BY DEF IInv, CallInv
  <2>2. doing \in {"define", "load"}
    BY <1>1 DEF IInv, CallInv
  <2>3. QED
    BY <1>1, <2>1, <2>2
<1>4. Class(entry.mesh, entry.name).superclass # "node"
  BY <1>1, <1>2, <1>3 DEF Fits
<1>5. ASSUME NEW m \in DOMAIN meshes', NEW c \in Classes, Class(m, c).superclass' = "node"
      PROVE  stranded'[m][c] = {}
  <2>1. m \in DOMAIN meshes /\ Class(m, c).superclass = "node" /\ stranded[m][c] = {}
    BY <1>1, <1>5 DEF NodesKept, Class
  <2>2. m # entry.mesh \/ c # entry.name
    BY <1>4, <2>1
  <2>3. stranded'[m][c] = stranded[m][c]
    BY <1>1, <2>2
  <2>4. QED
    BY <2>1, <2>3
<1>6. QED
  BY <1>5 DEF NodesKept

LEMMA NodesAddClass ==
    ASSUME IInv, NodesKept, stranded' = stranded,
           NEW m \in DOMAIN meshes, NEW c \in Classes, NEW s \in Superclasses, meshes' = AddClass(m, c, s)
    PROVE  NodesKept'
<1>1. CASE Class(m, c).superclass = "none"
  <2>3. meshes \in Seq(MeshRecord)
    BY DEF IInv, MemoryInv, MeshesLoaded, MeshRecord
  <2>4. /\ DOMAIN meshes' = DOMAIN meshes
        /\ \A k \in DOMAIN meshes, d \in Classes : <<k, d>> # <<m, c>> => Class(k, d)' = Class(k, d)
    BY <2>3, ClassMade
  <2>5. stranded[m][c] = {}
    BY <1>1, NoneStranded
  <2>6. ASSUME NEW k \in DOMAIN meshes', NEW d \in Classes, Class(k, d).superclass' = "node"
        PROVE  \/ k \in DOMAIN meshes /\ Class(k, d).superclass = "node"
               \/ stranded[k][d] = {}
    BY <2>4, <2>5, <2>6
  <2>7. QED
    BY <2>6, NodesAlone
<1>2. CASE Class(m, c).superclass # "none"
  BY <1>2, NodesSame DEF AddClass
<1>3. QED
  BY <1>1, <1>2

\* There are no more meshes than names, after a step too.
LEMMA MeshesFew == MeshesLoaded => DOMAIN meshes \subseteq MeshIds
  BY FewMeshes

LEMMA MeshesFewNext == MeshesLoaded' => (DOMAIN meshes \subseteq MeshIds)'
  BY MeshesFew, PTL

LEMMA NodesStep ==
    ASSUME IInv, IInv', NodesKept, [Next]_vars
    PROVE  NodesKept'
<1>1. ASSUME NEW n \in Names, MakeUmesh(n) PROVE NodesKept'
  <2>1. /\ meshes' = Append(meshes, [name |-> n, table |-> NoClasses])
        /\ stranded' = stranded
    BY <1>1 DEF MakeUmesh
  <2>2. meshes \in Seq(MeshRecord)
    BY DEF IInv, MemoryInv, MeshesLoaded, MeshRecord
  <2>3. /\ Len(meshes) \in Nat /\ DOMAIN meshes = 1..Len(meshes)
        /\ \A k \in DOMAIN meshes' : \/ k \in DOMAIN meshes /\ meshes'[k] = meshes[k]
                                    \/ meshes'[k].table = NoClasses
    BY <2>1, <2>2
  <2>4. ASSUME NEW k \in DOMAIN meshes', NEW d \in Classes, Class(k, d).superclass' = "node"
        PROVE  k \in DOMAIN meshes /\ Class(k, d).superclass = "node"
    <3>1. meshes'[k].table # NoClasses
      BY <2>4 DEF Class, NoClasses, ClassData
    <3>2. QED
      BY <2>3, <2>4, <3>1 DEF Class
  <2>5. QED
    BY <2>1, <2>4, NodesAlone
<1>2. ASSUME NEW m \in MeshIds, Query(m) PROVE NodesKept'
  BY <1>2, NodesSame DEF Query
<1>3. ASSUME NEW m \in MeshIds, NEW d \in Declared, DefClass(m, d[1], d[2]) PROVE NodesKept'
  <2>1. d[1] \in Classes /\ d[2] \in Superclasses
    BY MeshAssumption
  <2>2. QED
    BY <1>3, <2>1, NodesAddClass DEF DefClass
<1>4. ASSUME NEW m \in MeshIds, NEW c \in Classes, NEW r \in Ranges,
             DefClassIdents(m, c, r) \/ DefNodes(m, c, r) \/ DefConnSeq(m, c, r)
      PROVE  NodesKept'
  BY <1>4, NodesSame DEF DefClassIdents, DefNodes, DefConnSeq, Define
<1>5. ASSUME NEW m \in MeshIds, NEW c \in Classes, NEW list \in Lists, DefConnArb(m, c, list)
      PROVE  NodesKept'
  BY <1>5, NodesSame DEF DefConnArb, Define
<1>6. ASSUME NEW m \in MeshIds, NEW c \in Classes, DefConnSurface(m, c) PROVE NodesKept'
  BY <1>6, NodesSame DEF DefConnSurface, Define
<1>7. ASSUME NEW m, NEW c, NEW type, Read(m, c, type) PROVE NodesKept'
  BY <1>7, NodesSame DEF Read
<1>8. CASE Steps
  <2>1. UpdateNodes \/ Defines => NodesKept'
    BY NodesSame DEF UpdateNodes, Defines
  <2>2. QED
    BY <1>8, <2>1, NodesAddBlock, NodesRefuse DEF Steps
<1>9. CASE Flush
  BY <1>9, NodesSame DEF Flush
<1>10. CASE Close
  BY <1>10 DEF Close, NodesKept
<1>11. CASE Load
  <2>1. Reopen => NodesKept'
    <3>1. Reopen => proc = "closed" /\ meshes' = meshes
      BY DEF Reopen
    <3>2. proc = "closed" => meshes = << >>
      BY DEF IInv, CallInv
    <3>3. QED
      BY <3>1, <3>2 DEF NodesKept
  <2>2. LoadMesh \/ LoadClass => NodesKept'
    <3>1. SUFFICES ASSUME LoadMesh \/ LoadClass PROVE NodesKept'
      OBVIOUS
    <3>2. proc' = "loading"
      BY <3>1 DEF LoadMesh, LoadClass
    <3>3. \A m \in DOMAIN meshes', c \in Classes : stranded'[m][c] = {}
      <4>1. MemoryInv'
        BY DEF IInv
      <4>2. \A m \in DOMAIN meshes' : m \in MeshIds
        BY <4>1, MeshesFewNext DEF MemoryInv, MeshIds
      <4>3. \A m \in MeshIds, c \in Classes : stranded'[m][c] = {}
        BY <3>2, <4>1 DEF MemoryInv, StrandedInv, MeshIds
      <4>4. QED
        BY <4>2, <4>3
    <3>4. QED
      BY <3>3 DEF NodesKept
  <2>3. LoadObjects \/ Loaded \/ LoadEnds => NodesKept'
    BY NodesSame DEF LoadObjects, Loaded, LoadEnds
  <2>4. QED
    BY <1>11, <2>1, <2>2, <2>3 DEF Load
<1>12. CASE UNCHANGED vars
  BY <1>12, NodesSame DEF vars
<1>13. QED
  BY <1>1, <1>2, <1>3, <1>4, <1>5, <1>6, <1>7, <1>8, <1>9, <1>10, <1>11, <1>12 DEF Next

\* So a reader who asks for the definitions of a class one by one finds them all.
LEMMA ListedFollows ==
    ASSUME << >> \notin Lists, IInv, LengthInv, NodesKept, Idle
    PROVE  DefinitionsListed
<1>1. FilesInv /\ Lengths /\ Known = Places
  BY DEF IInv, LengthInv, Idle, Known, Seen
<1>2. PICK N : N = Cardinality(Places)
  OBVIOUS
<1>3. N \in Nat /\ \A type, m, c : Cardinality(Entries(type, m, c)) <= N
  <2>1. PICK S : files \in Seq(Seq(S))
    BY <1>1 DEF FilesInv, FilesTyped
  <2>2. IsFiniteSet(Places)
    BY <2>1, PlacesFinite
  <2>3. \A type, m, c : Entries(type, m, c) \in SUBSET Places
    BY DEF Entries
  <2>4. QED
    BY <1>2, <2>2, <2>3, FS_CardinalityType, FS_Subset
<1>4. ASSUME NEW m \in DOMAIN meshes, NEW c \in Classes, HasClass(m, c, {"node"})
      PROVE  /\ MapThenSumSet(LAMBDA i : Max([j \in 1..N |-> NodeBlockSize(m, c, j)][i]),
                              {i \in DOMAIN [j \in 1..N |-> NodeBlockSize(m, c, j)] :
                                   [j \in 1..N |-> NodeBlockSize(m, c, j)][i] # {}})
                    = Class(m, c).object_qty
             /\ \A i \in 1..N : (NodeBlockSize(m, c, i) # {}) = (i <= CountNodeEntries(m, c))
  <2> DEFINE f == [j \in 1..N |-> NodeBlockSize(m, c, j)]
  <2>1. DOMAIN f = 1..N /\ \A i \in 1..N : f[i] = {Len(At(p).data) : p \in NthEntry("NODES", m, c, i)}
    BY DEF NodeBlockSize
  <2>2. /\ MapThenSumSet(LAMBDA i : Max(f[i]), {i \in DOMAIN f : f[i] # {}})
                = Cardinality(IdsAt(Entries("NODES", m, c)))
        /\ \A i \in 1..N : f[i] # {} <=> i <= Cardinality(Entries("NODES", m, c))
    <3> HIDE DEF f
    <3>1. "NODES" \in ObjectTypes
      BY DEF ObjectTypes
    <3>2. QED
      BY <1>1, <1>3, <2>1, <3>1, ListedSum
  <2>3. Class(m, c).object_qty = Cardinality(Recorded(m, c) \cup stranded[m][c])
    BY <1>4, QtyIs
  <2>4. stranded[m][c] = {}
    BY <1>4 DEF NodesKept, HasClass
  <2>5. Recorded(m, c) = IdsAt(Entries("NODES", m, c))
    BY <1>4, RecordedOf DEF ObjectTypes, Fits
  <2>6. QED
    BY <2>2, <2>3, <2>4, <2>5 DEF CountNodeEntries
<1>5. ASSUME NEW m \in DOMAIN meshes, NEW c \in Classes, HasClass(m, c, {"element"})
      PROVE  /\ MapThenSumSet(LAMBDA i : Max([j \in 1..N |-> ElemQtyInDef(m, c, j)][i]),
                              {i \in DOMAIN [j \in 1..N |-> ElemQtyInDef(m, c, j)] :
                                   [j \in 1..N |-> ElemQtyInDef(m, c, j)][i] # {}})
                    = CountElemConnDefs(m, c)
             /\ (c \in ElemConnClassNames(m)) = (CountElemConnDefs(m, c) > 0)
  <2> DEFINE f == [j \in 1..N |-> ElemQtyInDef(m, c, j)]
  <2>1. DOMAIN f = 1..N /\ \A i \in 1..N : f[i] = {Len(At(p).data) : p \in NthEntry("ELEM_CONNS", m, c, i)}
    BY DEF ElemQtyInDef
  <2>2. "ELEM_CONNS" \in ObjectTypes
    BY DEF ObjectTypes
  <2>3. /\ MapThenSumSet(LAMBDA i : Max(f[i]), {i \in DOMAIN f : f[i] # {}})
                = Cardinality(IdsAt(Entries("ELEM_CONNS", m, c)))
        /\ \A i \in 1..N : f[i] # {} <=> i <= Cardinality(Entries("ELEM_CONNS", m, c))
    <3> HIDE DEF f
    <3>1. QED
      BY <1>1, <1>3, <2>1, <2>2, ListedSum
  <2> DEFINE E == Entries("ELEM_CONNS", m, c)
  <2>4. CountElemConnDefs(m, c) = Cardinality(IdsAt(E))
    BY <1>1, CountRecorded
  <2>5. c \in ElemConnClassNames(m) <=> E # {}
    BY DEF ElemConnClassNames, Entries, Matches
  <2>6. E # {} <=> IdsAt(E) # {}
    <3>1. ASSUME NEW p \in E PROVE Covered(At(p).ranges) # {}
      <4>1. p \in Places /\ IsObject(p) /\ At(p).ranges \in Seq(IdRange)
        BY <1>1, <2>2, EntriesAre DEF Entries, Matches, IsObject
      <4>2. At(p).ranges # << >>
        BY <4>1 DEF LengthInv
      <4>3. 1 \in DOMAIN At(p).ranges /\ At(p).ranges[1] \in IdRange
        BY <4>1, <4>2
      <4>4. At(p).ranges[1].start \in Ids(At(p).ranges[1])
        BY <4>3, MeshAssumption DEF Ids, IdRange
      <4>5. QED
        BY <4>3, <4>4 DEF Covered
    <3> HIDE DEF E
    <3>2. QED
      BY <3>1 DEF IdsAt
  <2>7. Cardinality(IdsAt(E)) \in Nat /\ (Cardinality(IdsAt(E)) > 0 <=> IdsAt(E) # {})
    <3>1. IdsAt(E) = Recorded(m, c)
      BY <1>5, RecordedOf DEF ObjectTypes, Fits
    <3>2. IsFiniteSet(IdsAt(E))
      BY <3>1, <1>5, RecordedFinite
    <3> HIDE DEF E
    <3>3. QED
      BY <3>2, FS_CardinalityType, FS_EmptySet
  <2>8. (c \in ElemConnClassNames(m)) = (CountElemConnDefs(m, c) > 0)
    BY <2>4, <2>5, <2>6, <2>7
  <2>9. QED
    BY <2>3, <2>4, <2>8
<1>6. ASSUME NEW m \in DOMAIN meshes, NEW c \in Classes
      PROVE  LET sizes(type) == [i \in 1..Cardinality(Places) |->
                       IF type = "NODES" THEN NodeBlockSize(m, c, i) ELSE ElemQtyInDef(m, c, i)]
                 all(f) == MapThenSumSet(LAMBDA i : Max(f[i]), {i \in DOMAIN f : f[i] # {}})
             IN  /\ HasClass(m, c, {"node"}) =>
                       /\ all(sizes("NODES")) = Class(m, c).object_qty
                       /\ \A i \in 1..Cardinality(Places) :
                              (NodeBlockSize(m, c, i) # {}) = (i <= CountNodeEntries(m, c))
                 /\ HasClass(m, c, {"element"}) =>
                       /\ all(sizes("ELEM_CONNS")) = CountElemConnDefs(m, c)
                       /\ (c \in ElemConnClassNames(m)) = (CountElemConnDefs(m, c) > 0)
  <2> DEFINE sizes(type) == [i \in 1..Cardinality(Places) |->
                 IF type = "NODES" THEN NodeBlockSize(m, c, i) ELSE ElemQtyInDef(m, c, i)]
             all(f) == MapThenSumSet(LAMBDA i : Max(f[i]), {i \in DOMAIN f : f[i] # {}})
  <2>1. /\ sizes("NODES") = [j \in 1..N |-> NodeBlockSize(m, c, j)]
        /\ sizes("ELEM_CONNS") = [j \in 1..N |-> ElemQtyInDef(m, c, j)]
    BY <1>2
  <2>2. HasClass(m, c, {"node"}) =>
            /\ all([j \in 1..N |-> NodeBlockSize(m, c, j)]) = Class(m, c).object_qty
            /\ \A i \in 1..N : (NodeBlockSize(m, c, i) # {}) = (i <= CountNodeEntries(m, c))
    BY <1>4
  <2>3. HasClass(m, c, {"element"}) =>
            /\ all([j \in 1..N |-> ElemQtyInDef(m, c, j)]) = CountElemConnDefs(m, c)
            /\ (c \in ElemConnClassNames(m)) = (CountElemConnDefs(m, c) > 0)
    BY <1>5
  <2> HIDE DEF sizes, all
  <2>4. QED
    BY <1>2, <2>1, <2>2, <2>3 DEF sizes, all
<1>7. QED
  BY <1>6 DEF DefinitionsListed

-----------------------------------------------------------------------------
(***************************************************************************)
(* What the questions about classes answer.                                *)
(***************************************************************************)
\* The list of a set has each of its members once.
LEMMA ListOfSet ==
    ASSUME NEW S, IsFiniteSet(S)
    PROVE  LET q == SetToSeq(S)
               n == Cardinality(S)
           IN  /\ n \in Nat /\ q \in [1..n -> S] /\ Len(q) = n
               /\ \A i, j \in 1..n : q[i] = q[j] => i = j
               /\ \A x \in S : \E i \in 1..n : q[i] = x
<1> DEFINE n == Cardinality(S)
           q == SetToSeq(S)
<1>1. n \in Nat /\ \E f : f \in Bijection(1..n, S)
  BY FS_CardinalityType DEF ExistsBijection
<1>2. \E f \in [1..n -> S] : IsInjective(f)
  BY <1>1 DEF Bijection, Injection
<1>3. q \in [1..n -> S] /\ IsInjective(q)
  BY <1>2 DEF SetToSeq
<1> HIDE DEF q, n
<1>4. q \in Injection(1..n, S)
  BY <1>3 DEF Injection
<1>5. n = Cardinality(1..n)
  BY <1>1, FS_Interval
<1>6. q \in Surjection(1..n, S)
  <2>1. Cardinality(1..n) = Cardinality(S)
    BY <1>5 DEF n
  <2>2. QED
    BY <1>4, <2>1, FS_Injection
<1>7. \A x \in S : \E i \in 1..n : q[i] = x
  BY <1>6 DEF Surjection
<1>8. \A i, j \in 1..n : q[i] = q[j] => i = j
  BY <1>3 DEF IsInjective
<1>9. Len(q) = n
  BY <1>1, <1>3
<1>10. QED
  BY <1>1, <1>3, <1>7, <1>8, <1>9 DEF n, q

\* The table of what a list keeps of its first members: those of K.
Keeps(it, n, all, K) ==
    it = [i \in 0..n |-> IF i = 0 THEN << >>
                         ELSE IF all[i] \in K THEN Append(it[i - 1], all[i])
                         ELSE it[i - 1]]

LEMMA KeepsExists ==
    ASSUME NEW n \in Nat, NEW all, NEW K
    PROVE  \E it : Keeps(it, n, all, K)
<1> DEFINE Bad == {k \in Nat : ~\E it : Keeps(it, k, all, K)}
<1>1. SUFFICES ASSUME Bad # {} PROVE FALSE
  OBVIOUS
<1>2. PICK k \in Bad : \A j \in Bad : k <= j
  <2>1. Bad \in SUBSET Nat
    OBVIOUS
  <2> HIDE DEF Bad
  <2>2. QED
    BY <1>1, <2>1, LeastElement
<1>3. k \in Nat /\ ~\E it : Keeps(it, k, all, K)
  OBVIOUS
<1>4. CASE k = 0
  <2>1. Keeps([i \in 0..0 |-> << >>], 0, all, K)
    BY DEF Keeps
  <2>2. QED
    BY <1>3, <1>4, <2>1
<1>5. CASE k # 0
  <2>1. k - 1 \in Nat /\ k - 1 \notin Bad
    BY <1>2, <1>3, <1>5
  <2>2. PICK g : Keeps(g, k - 1, all, K)
    BY <2>1
  <2> DEFINE last == IF all[k] \in K THEN Append(g[k - 1], all[k]) ELSE g[k - 1]
             h == [i \in 0..k |-> IF i < k THEN g[i] ELSE last]
  <2>3. ASSUME NEW i \in 0..k
        PROVE  h[i] = IF i = 0 THEN << >>
                      ELSE IF all[i] \in K THEN Append(h[i - 1], all[i]) ELSE h[i - 1]
    <3>1. CASE i < k
      <4>1. i \in 0..k - 1
        BY <1>3, <3>1
      <4>2. g[i] = IF i = 0 THEN << >>
                   ELSE IF all[i] \in K THEN Append(g[i - 1], all[i]) ELSE g[i - 1]
        BY <2>2, <4>1 DEF Keeps
      <4>3. i # 0 => h[i - 1] = g[i - 1]
        BY <1>3, <3>1
      <4>4. h[i] = g[i]
        BY <3>1
      <4> HIDE DEF h
      <4>5. QED
        BY <4>2, <4>3, <4>4
    <3>2. CASE i = k
      <4>1. h[i] = last
        BY <1>3, <3>2
      <4>2. h[k - 1] = g[k - 1]
        BY <1>3, <1>5
      <4> HIDE DEF h
      <4>3. QED
        BY <1>5, <3>2, <4>1, <4>2
    <3>3. QED
      BY <1>3, <3>1, <3>2
  <2>4. Keeps(h, k, all, K)
    <3> HIDE DEF h
    <3>1. [i \in 0..k |-> h[i]] = [i \in 0..k |-> IF i = 0 THEN << >>
                 ELSE IF all[i] \in K THEN Append(h[i - 1], all[i]) ELSE h[i - 1]]
      BY <2>3
    <3>2. h = [i \in 0..k |-> h[i]]
      BY DEF h
    <3>3. QED
      BY <3>1, <3>2 DEF Keeps
  <2>5. QED
    BY <1>3, <2>4
<1>6. QED
  BY <1>4, <1>5

\* What it keeps are the members of K among the first, each once.
KeepsThose(q, i, all, K, S) ==
    /\ q \in Seq(S) /\ Len(q) <= i
    /\ \A j \in 1..Len(q) : q[j] \in K /\ \E l \in 1..i : all[l] = q[j]
    /\ \A l \in 1..i : all[l] \in K => \E j \in 1..Len(q) : q[j] = all[l]
    /\ \A j, l \in 1..Len(q) : q[j] = q[l] => j = l

LEMMA KeepsMore ==
    ASSUME NEW S, NEW n \in Nat, NEW all \in [1..n -> S], NEW K, NEW i \in 1..n, NEW q,
           \A j, l \in 1..n : all[j] = all[l] => j = l,
           KeepsThose(q, i - 1, all, K, S)
    PROVE  KeepsThose(IF all[i] \in K THEN Append(q, all[i]) ELSE q, i, all, K, S)
<1>1. /\ i \in Nat /\ i - 1 \in Nat /\ i \in 1..i
      /\ \A l : l \in 1..i <=> l \in 1..i - 1 \/ l = i
  OBVIOUS
<1>2. Len(q) \in Nat /\ q \in Seq(S) /\ all[i] \in S
  BY DEF KeepsThose
<1>3. CASE all[i] \notin K
  <2>1. \A j \in 1..Len(q) : q[j] \in K /\ \E l \in 1..i : all[l] = q[j]
    BY <1>1 DEF KeepsThose
  <2>2. \A l \in 1..i : all[l] \in K => \E j \in 1..Len(q) : q[j] = all[l]
    BY <1>1, <1>3 DEF KeepsThose
  <2>3. Len(q) <= i
    BY <1>1, <1>2 DEF KeepsThose
  <2>4. QED
    BY <1>3, <2>1, <2>2, <2>3 DEF KeepsThose
<1>4. CASE all[i] \in K
  <2> DEFINE r == Append(q, all[i])
  <2>1. /\ r \in Seq(S) /\ Len(r) = Len(q) + 1 /\ r[Len(q) + 1] = all[i]
        /\ \A j \in 1..Len(q) : r[j] = q[j]
    BY <1>2
  <2>2. \A j : j \in 1..Len(r) <=> j \in 1..Len(q) \/ j = Len(q) + 1
    BY <1>2, <2>1
  <2> HIDE DEF r
  <2>3. Len(r) <= i
    BY <1>1, <1>2, <2>1 DEF KeepsThose
  <2>4. \A j \in 1..Len(r) : r[j] \in K /\ \E l \in 1..i : all[l] = r[j]
    BY <1>1, <1>4, <2>1, <2>2 DEF KeepsThose
  <2>5. ASSUME NEW l \in 1..i, all[l] \in K PROVE \E j \in 1..Len(r) : r[j] = all[l]
    <3>1. CASE l = i
      BY <2>1, <2>2, <3>1
    <3>2. CASE l # i
      <4>1. PICK j \in 1..Len(q) : q[j] = all[l]
        BY <1>1, <2>5, <3>2 DEF KeepsThose
      <4>2. QED
        BY <2>1, <2>2, <4>1
    <3>3. QED
      BY <3>1, <3>2
  <2>6. \A j \in 1..Len(q) : q[j] # all[i]
    <3>1. SUFFICES ASSUME NEW j \in 1..Len(q), q[j] = all[i] PROVE FALSE
      OBVIOUS
    <3>2. PICK l \in 1..i - 1 : all[l] = q[j]
      BY DEF KeepsThose
    <3>3. l \in 1..n /\ l # i
      BY <1>1, <3>2
    <3>4. QED
      BY <3>1, <3>2, <3>3
  <2>7. \A j, l \in 1..Len(r) : r[j] = r[l] => j = l
    BY <2>1, <2>2, <2>6 DEF KeepsThose
  <2>8. KeepsThose(r, i, all, K, S)
    BY <2>1, <2>3, <2>4, <2>5, <2>7 DEF KeepsThose
  <2>9. QED
    BY <1>4, <2>8 DEF r
<1>5. QED
  BY <1>3, <1>4

LEMMA KeepsThem ==
    ASSUME NEW S, NEW n \in Nat, NEW all \in [1..n -> S], NEW K, NEW it,
           \A j, l \in 1..n : all[j] = all[l] => j = l,
           Keeps(it, n, all, K)
    PROVE  KeepsThose(it[n], n, all, K, S)
<1> DEFINE Bad == {k \in 0..n : ~KeepsThose(it[k], k, all, K, S)}
<1>1. SUFFICES ASSUME Bad # {} PROVE FALSE
  <2>1. n \in 0..n
    OBVIOUS
  <2>2. QED
    BY <2>1
<1>2. PICK k \in Bad : \A j \in Bad : k <= j
  <2>1. Bad \in SUBSET Nat
    <3>1. 0..n \subseteq Nat /\ Bad \subseteq 0..n
      OBVIOUS
    <3>2. QED
      BY <3>1
  <2> HIDE DEF Bad
  <2>2. QED
    BY <1>1, <2>1, LeastElement
<1>3. k \in 0..n /\ ~KeepsThose(it[k], k, all, K, S)
  OBVIOUS
<1>4. it[k] = IF k = 0 THEN << >>
              ELSE IF all[k] \in K THEN Append(it[k - 1], all[k]) ELSE it[k - 1]
  BY <1>3 DEF Keeps
<1>5. CASE k = 0
  <2>1. KeepsThose(<< >>, 0, all, K, S)
    <3>1. << >> \in Seq(S) /\ Len(<< >>) = 0 /\ 1..0 = {}
      OBVIOUS
    <3>2. QED
      BY <3>1 DEF KeepsThose
  <2>2. QED
    BY <1>3, <1>4, <1>5, <2>1
<1>6. CASE k # 0
  <2>1. k \in 1..n /\ k - 1 \in 0..n /\ ~(k <= k - 1)
    BY <1>3, <1>6
  <2>2. k - 1 \notin Bad
    <3> HIDE DEF Bad
    <3>1. QED
      BY <1>2, <2>1
  <2>3. KeepsThose(it[k - 1], k - 1, all, K, S)
    BY <2>1, <2>2
  <2>4. PICK q : q = it[k - 1]
    OBVIOUS
  <2>5. KeepsThose(IF all[k] \in K THEN Append(q, all[k]) ELSE q, k, all, K, S)
    BY <2>1, <2>3, <2>4, KeepsMore
  <2>6. QED
    BY <1>3, <1>4, <1>6, <2>4, <2>5
<1>7. QED
  BY <1>5, <1>6

\* The classes of a superclass, each once.
LEMMA ClassesListed ==
    ASSUME IInv, QueryInv, proc = "open", NEW m \in DOMAIN meshes, NEW s
    PROVE  LET q == OfSuperclass(m, s)
           IN  /\ q \in Seq(Classes) /\ Len(q) <= Cardinality(Classes)
               /\ \A j \in 1..Len(q) : q[j] \in Defined(m) /\ Class(m, q[j]).superclass = s
               /\ \A c \in Defined(m) : Class(m, c).superclass = s => \E j \in 1..Len(q) : q[j] = c
               /\ \A i, j \in 1..Len(q) : q[i] = q[j] => i = j
<1> DEFINE all == Collected(m)
           n == Cardinality(Defined(m))
           K == {c \in Classes : Class(m, c).superclass = s}
           q == OfSuperclass(m, s)
<1>1. all = SetToSeq(Defined(m))
  <2>1. DOMAIN meshes = 1..Len(meshes)
    BY FewMeshes DEF IInv, MemoryInv
  <2>2. m # 0
    BY <2>1
  <2>3. QED
    BY <2>2 DEF QueryInv, ClassesCurrent, Collected
<1>2. IsFiniteSet(Defined(m)) /\ n <= Cardinality(Classes)
  <2>1. Defined(m) \in SUBSET Classes
    BY DEF Defined
  <2>2. QED
    BY <2>1, MeshAssumption, FS_Subset
<1>3. /\ n \in Nat /\ all \in [1..n -> Defined(m)] /\ Len(all) = n
      /\ \A i, j \in 1..n : all[i] = all[j] => i = j
      /\ \A c \in Defined(m) : \E i \in 1..n : all[i] = c
  BY <1>1, <1>2, ListOfSet
<1>4. Defined(m) \subseteq Classes
  BY DEF Defined
<1> HIDE DEF all, n
<1>5. \A i \in 1..n : all[i] \in K <=> Class(m, all[i]).superclass = s
  BY <1>3, <1>4
<1> HIDE DEF K
<1> DEFINE body(it) == [i \in 0..Len(all) |->
               IF i = 0 THEN << >>
               ELSE IF Class(m, all[i]).superclass = s THEN Append(it[i - 1], all[i])
               ELSE it[i - 1]]
<1>6. q = (CHOOSE it : it = body(it))[Len(all)]
  BY DEF OfSuperclass, all
<1>7. ASSUME NEW it PROVE Keeps(it, n, all, K) <=> it = body(it)
  <2>1. \A i \in 0..n : i # 0 => i \in 1..n
    BY <1>3
  <2>2. body(it) = [i \in 0..n |-> IF i = 0 THEN << >>
                         ELSE IF all[i] \in K THEN Append(it[i - 1], all[i])
                         ELSE it[i - 1]]
    BY <1>3, <1>5, <2>1
  <2> HIDE DEF body
  <2>3. QED
    BY <2>2 DEF Keeps
<1> HIDE DEF body
<1>8. PICK it : Keeps(it, n, all, K)
  BY <1>3, KeepsExists
<1>9. PICK up : up = (CHOOSE it_1 : it_1 = body(it_1))
  OBVIOUS
<1>10. Keeps(up, n, all, K)
  BY <1>7, <1>8, <1>9
<1>11. q = up[n]
  BY <1>3, <1>6, <1>9
<1>12. KeepsThose(q, n, all, K, Defined(m))
  <2>1. KeepsThose(up[n], n, all, K, Defined(m))
    BY <1>3, <1>10, KeepsThem
  <2>2. QED
    BY <1>11, <2>1
<1> HIDE DEF q
<1>13. \A c \in Defined(m) : c \in K <=> Class(m, c).superclass = s
  BY <1>4 DEF K
<1>14. q \in Seq(Defined(m)) /\ Len(q) <= n
  BY <1>12 DEF KeepsThose
<1>15. q \in Seq(Classes) /\ Len(q) <= Cardinality(Classes)
  <2>1. Cardinality(Classes) \in Nat
    BY MeshAssumption, FS_CardinalityType
  <2>2. QED
    BY <1>2, <1>3, <1>4, <1>14, <2>1 DEF n
<1>16. \A j \in 1..Len(q) : q[j] \in Defined(m) /\ Class(m, q[j]).superclass = s
  <2>1. \A j \in 1..Len(q) : q[j] \in Defined(m)
    BY <1>14
  <2>2. QED
    BY <1>12, <1>13, <2>1 DEF KeepsThose
<1>17. ASSUME NEW c \in Defined(m), Class(m, c).superclass = s PROVE \E j \in 1..Len(q) : q[j] = c
  <2>1. PICK i \in 1..n : all[i] = c
    BY <1>3
  <2>2. all[i] \in K
    BY <1>13, <1>17, <2>1
  <2>3. QED
    BY <1>12, <2>1, <2>2 DEF KeepsThose
<1>18. \A i, j \in 1..Len(q) : q[i] = q[j] => i = j
  BY <1>12 DEF KeepsThose
<1>19. QED
  BY <1>15, <1>16, <1>17, <1>18 DEF q

\* Where a class is: at one index of its superclass.
Shows(m, s, i, c) == \E d \in ClassInfo(m, s, i) : d.short_name = c

LEMMA InfoOf ==
    ASSUME NEW m, NEW s, NEW i \in Nat, NEW c, OfSuperclass(m, s) \in Seq(Classes)
    PROVE  /\ Shows(m, s, i, c)
                  <=> i \in 1..Len(OfSuperclass(m, s)) /\ OfSuperclass(m, s)[i] = c
           /\ \A d \in ClassInfo(m, s, i) : d.short_name = OfSuperclass(m, s)[i]
<1>1. PICK q : q = OfSuperclass(m, s)
  OBVIOUS
<1>2. DOMAIN q = 1..Len(q)
  BY <1>1
<1>3. ClassInfo(m, s, i) = {[short_name |-> e, object_qty |-> Class(m, e).object_qty] :
                                e \in {q[j] : j \in {i} \cap DOMAIN q}}
  BY <1>1 DEF ClassInfo
<1> DEFINE info(e) == [short_name |-> e, object_qty |-> Class(m, e).object_qty]
<1>4. \A d \in ClassInfo(m, s, i) : i \in 1..Len(q) /\ d = info(q[i])
  BY <1>2, <1>3
<1>5. i \in 1..Len(q) => info(q[i]) \in ClassInfo(m, s, i)
  BY <1>2, <1>3
<1>6. \A e : info(e).short_name = e
  OBVIOUS
<1> HIDE DEF info
<1>7. QED
  BY <1>1, <1>4, <1>5, <1>6 DEF Shows

LEMMA SpotOf ==
    ASSUME IInv, QueryInv, proc = "open", NEW m \in DOMAIN meshes, NEW c
    PROVE  LET spots == {f \in Superclasses \X (1..Cardinality(Classes)) :
                             \E d \in ClassInfo(m, f[1], f[2]) : d.short_name = c}
           IN  /\ c \in Defined(m) => \E f : spots = {f}
               /\ c \notin Defined(m) => spots = {}
               /\ \A f \in spots : f[1] = Class(m, c).superclass
<1> DEFINE spots == {f \in Superclasses \X (1..Cardinality(Classes)) :
                         \E d \in ClassInfo(m, f[1], f[2]) : d.short_name = c}
<1>1. \A s : /\ OfSuperclass(m, s) \in Seq(Classes)
             /\ Len(OfSuperclass(m, s)) <= Cardinality(Classes)
             /\ \A j \in 1..Len(OfSuperclass(m, s)) :
                    /\ OfSuperclass(m, s)[j] \in Defined(m)
                    /\ Class(m, OfSuperclass(m, s)[j]).superclass = s
             /\ \A i, j \in 1..Len(OfSuperclass(m, s)) :
                    OfSuperclass(m, s)[i] = OfSuperclass(m, s)[j] => i = j
  BY ClassesListed
<1>2. Cardinality(Classes) \in Nat
  BY MeshAssumption, FS_CardinalityType
<1>3. ASSUME NEW s \in Superclasses, NEW i \in 1..Cardinality(Classes)
      PROVE  <<s, i>> \in spots <=>
                 i \in 1..Len(OfSuperclass(m, s)) /\ OfSuperclass(m, s)[i] = c
  <2>1. i \in Nat
    BY <1>2
  <2>2. Shows(m, s, i, c)
            <=> i \in 1..Len(OfSuperclass(m, s)) /\ OfSuperclass(m, s)[i] = c
    <3>1. OfSuperclass(m, s) \in Seq(Classes)
      BY <1>1
    <3>2. QED
      BY <2>1, <3>1, InfoOf
  <2>3. QED
    BY <2>2 DEF Shows
<1>4. spots \subseteq Superclasses \X (1..Cardinality(Classes))
  OBVIOUS
<1> HIDE DEF spots
<1>5. ASSUME NEW f \in spots
      PROVE  /\ c \in Defined(m) /\ f[1] = Class(m, c).superclass
             /\ f[2] \in 1..Len(OfSuperclass(m, f[1])) /\ OfSuperclass(m, f[1])[f[2]] = c
             /\ f = <<f[1], f[2]>>
  <2>1. PICK s \in Superclasses, i \in 1..Cardinality(Classes) : f = <<s, i>>
    BY <1>4
  <2>2. i \in 1..Len(OfSuperclass(m, s)) /\ OfSuperclass(m, s)[i] = c
    BY <1>3, <2>1
  <2>3. QED
    BY <1>1, <2>1, <2>2
<1>6. ASSUME c \in Defined(m) PROVE \E f : spots = {f}
  <2>1. PICK s : s = Class(m, c).superclass
    OBVIOUS
  <2>2. s \in Superclasses
    <3>1. meshes \in Seq(MeshRecord) /\ c \in Classes /\ s # "none"
      BY <1>6, <2>1 DEF IInv, MemoryInv, MeshesLoaded, MeshRecord, Defined
    <3>2. meshes[m] \in MeshRecord
      BY <3>1
    <3>3. Class(m, c) \in ClassRecord
      BY <3>1, <3>2 DEF MeshRecord, Class
    <3>4. QED
      BY <2>1, <3>1, <3>3 DEF ClassRecord
  <2>3. PICK i \in 1..Len(OfSuperclass(m, s)) : OfSuperclass(m, s)[i] = c
    BY <1>6, <2>1, ClassesListed
  <2>4. Len(OfSuperclass(m, s)) \in Nat /\ Len(OfSuperclass(m, s)) <= Cardinality(Classes)
    BY <1>1
  <2>5. i \in 1..Cardinality(Classes)
    BY <1>2, <2>4
  <2>6. <<s, i>> \in spots
    BY <1>3, <2>2, <2>3, <2>5
  <2>7. \A f \in spots : f = <<s, i>>
    <3>1. SUFFICES ASSUME NEW f \in spots PROVE f = <<s, i>>
      OBVIOUS
    <3>2. f[1] = s /\ f[2] \in 1..Len(OfSuperclass(m, s)) /\ OfSuperclass(m, s)[f[2]] = c
      BY <1>5, <2>1
    <3>3. f[2] = i
      <4>1. PICK q : q = OfSuperclass(m, s)
        OBVIOUS
      <4>2. \A j, l \in 1..Len(q) : q[j] = q[l] => j = l
        BY <1>1, <4>1
      <4>3. i \in 1..Len(q) /\ f[2] \in 1..Len(q) /\ q[i] = q[f[2]]
        BY <2>3, <3>2, <4>1
      <4>4. QED
        BY <4>2, <4>3
    <3>4. QED
      <4>1. f = <<f[1], f[2]>>
        BY <1>5
      <4>2. QED
        BY <3>2, <3>3, <4>1
  <2>8. PICK g : g = <<s, i>>
    OBVIOUS
  <2>9. g \in spots /\ \A f \in spots : f = g
    BY <2>6, <2>7, <2>8
  <2>10. spots = {g}
    BY <2>9
  <2>11. QED
    BY <2>10
<1>7. c \notin Defined(m) => spots = {}
  BY <1>5
<1>8. QED
  BY <1>5, <1>6, <1>7 DEF spots

\* The first id of blocks in order is their least.
LEMMA FirstIsLeast ==
    ASSUME NEW blocks, Ordered(blocks), blocks # << >>
    PROVE  blocks[1].start = Min(Covered(blocks))
<1>1. /\ Len(blocks) \in Nat /\ DOMAIN blocks = 1..Len(blocks) /\ 1 \in DOMAIN blocks
      /\ \A i \in DOMAIN blocks : blocks[i] \in IdRange
  BY DEF Ordered
<1>2. \A i \in DOMAIN blocks :
          /\ blocks[i].start \in Nat /\ blocks[i].stop \in Nat
          /\ blocks[i].start <= blocks[i].stop
  BY <1>1, MeshAssumption DEF IdRange
<1>3. blocks[1].start \in Covered(blocks)
  BY <1>1, <1>2 DEF Covered, Ids
<1>4. ASSUME NEW x \in Covered(blocks) PROVE x \in Nat /\ blocks[1].start <= x
  <2>1. PICK i \in DOMAIN blocks : x \in Ids(blocks[i])
    BY DEF Covered
  <2>2. x \in Int /\ blocks[i].start <= x
    BY <1>2, <2>1 DEF Ids
  <2>3. CASE i = 1
    BY <1>2, <2>2, <2>3
  <2>4. CASE i # 1
    <3>1. 1 < i
      BY <1>1, <2>4
    <3>2. blocks[1].stop + 1 < blocks[i].start
      BY <1>1, <3>1 DEF Ordered
    <3>3. QED
      BY <1>1, <1>2, <2>2, <3>2
  <2>5. QED
    BY <2>3, <2>4
<1>5. Covered(blocks) \in SUBSET Nat
  BY <1>4
<1>6. PICK C : C = Covered(blocks)
  OBVIOUS
<1>7. \A x, y \in C : (\A z \in C : x <= z) /\ (\A z \in C : y <= z) => x = y
  BY <1>5, <1>6
<1>8. (CHOOSE x \in C : \A y \in C : x <= y) = blocks[1].start
  BY <1>3, <1>4, <1>6, <1>7
<1>9. QED
  BY <1>6, <1>8 DEF Min

\* The questions about names and indices find the meshes and classes.
LEMMA NamesFound ==
    ASSUME IInv, NEW m \in DOMAIN meshes
    PROVE  \A n \in MeshName(m) : GetMeshId(n) = {m}
<1>1. \A k, l \in DOMAIN meshes : k # l => meshes[k].name # meshes[l].name
  BY DEF IInv, MemoryInv, MeshesLoaded
<1>2. DOMAIN meshes = 1..Len(meshes) /\ Len(meshes) \in Nat
  BY FewMeshes DEF IInv, MemoryInv
<1>3. SUFFICES ASSUME NEW n \in MeshName(m) PROVE GetMeshId(n) = {m}
  OBVIOUS
<1>4. n = meshes[m].name
  BY DEF MeshName
<1> DEFINE ids == {k \in DOMAIN meshes : meshes[k].name = n}
<1>5. ids = {m}
  BY <1>1, <1>4
<1>6. m <= m
  BY <1>2
<1>7. GetMeshId(n) = {k \in ids : \A i \in ids : k <= i}
  BY DEF GetMeshId
<1> HIDE DEF ids
<1>8. QED
  BY <1>5, <1>6, <1>7

LEMMA IndicesFound ==
    ASSUME IInv, QueryInv, proc = "open", NEW m \in DOMAIN meshes,
           NEW i \in 1..Cardinality(Classes) + 1
    PROVE  (ClassInfoByIndex(m, i) # {}) = (i <= Cardinality(Defined(m)))
<1> DEFINE n == Cardinality(Defined(m))
<1>1. Collected(m) = SetToSeq(Defined(m))
  <2>1. m # 0
    BY FewMeshes DEF IInv, MemoryInv
  <2>2. QED
    BY <2>1 DEF QueryInv, ClassesCurrent, Collected
<1>2. IsFiniteSet(Defined(m)) /\ Cardinality(Classes) \in Nat
  <2>1. Defined(m) \in SUBSET Classes
    BY DEF Defined
  <2>2. QED
    BY <2>1, MeshAssumption, FS_Subset, FS_CardinalityType
<1>3. n \in Nat /\ Collected(m) \in [1..n -> Defined(m)]
  BY <1>1, <1>2, ListOfSet
<1>4. ClassInfoByIndex(m, i) # {} <=> i \in DOMAIN Collected(m)
  BY DEF ClassInfoByIndex
<1>5. DOMAIN Collected(m) = 1..n
  BY <1>3
<1> HIDE DEF n
<1>6. i \in 1..n <=> i <= n
  BY <1>2, <1>3
<1>7. QED
  BY <1>4, <1>5, <1>6 DEF n

\* A class is found by its name in the first mesh that has it.
LEMMA FoundByName ==
    ASSUME IInv, QueryInv, proc = "open", NEW m \in DOMAIN meshes, NEW c,
           NEW f \in Superclasses \X (1..Cardinality(Classes)),
           \E d \in ClassInfo(m, f[1], f[2]) : d.short_name = c
    PROVE  \E g \in ClassInfoByName(c) : g[1] <= m /\ (g[1] = m => <<g[2], g[3]>> = f)
<1> DEFINE found == {h \in (DOMAIN meshes) \X Superclasses \X (1..Cardinality(Classes)) :
                         \E d \in ClassInfo(h[1], h[2], h[3]) : d.short_name = c}
           spots == {h \in Superclasses \X (1..Cardinality(Classes)) :
                         \E d \in ClassInfo(m, h[1], h[2]) : d.short_name = c}
<1>1. <<m, f[1], f[2]>> \in found
  OBVIOUS
<1>2. ClassInfoByName(c) = {h \in found : \A g \in found : h[1] <= g[1]}
  BY DEF ClassInfoByName
<1>3. \A h \in found : /\ h[1] \in Nat
                       /\ h[1] = m => <<h[2], h[3]>> \in spots
  <2>1. \A k \in DOMAIN meshes : k \in Nat
    BY FewMeshes DEF IInv, MemoryInv
  <2>2. QED
    BY <2>1
<1>4. f \in spots
  OBVIOUS
<1>5. \A h \in spots : h = f
  <2>1. /\ c \in Defined(m) => \E g : spots = {g}
        /\ c \notin Defined(m) => spots = {}
    BY SpotOf
  <2> HIDE DEF spots
  <2>2. QED
    BY <1>4, <2>1
<1> HIDE DEF found, spots
<1>6. PICK g \in found : \A h \in found : g[1] <= h[1]
  <2> DEFINE T == {h[1] : h \in found}
  <2>1. T \in SUBSET Nat /\ T # {}
    BY <1>1, <1>3
  <2>2. PICK k \in T : \A l \in T : k <= l
    <3> HIDE DEF T
    <3>1. QED
      BY <2>1, LeastElement
  <2>3. QED
    BY <2>2
<1>7. g \in ClassInfoByName(c)
  BY <1>2, <1>6
<1>8. g[1] <= m
  <2>1. PICK h : h = <<m, f[1], f[2]>>
    OBVIOUS
  <2>2. h \in found /\ h[1] = m
    BY <1>1, <2>1
  <2>3. QED
    BY <1>6, <2>2
<1>9. g[1] = m => <<g[2], g[3]>> = f
  BY <1>3, <1>5, <1>6
<1>10. QED
  BY <1>7, <1>8, <1>9

LEMMA ClassesAreFound ==
    ASSUME IInv, QueryInv, Idle
    PROVE  ClassesFound
<1>1. proc = "open"
  BY DEF Idle
<1>2. ASSUME NEW m \in DOMAIN meshes, NEW c \in Classes
      PROVE  LET spots == {f \in Superclasses \X (1..Cardinality(Classes)) :
                               \E d \in ClassInfo(m, f[1], f[2]) : d.short_name = c}
             IN  /\ Cardinality(spots) = IF ClassExists(m, c) THEN 1 ELSE 0
                 /\ \A f \in spots :
                       /\ ClassSuperclass(m, c) = {f[1]}
                       /\ Class(m, c).blocks # << >> =>
                              \A r \in SimpleClassInfo(m, f[1], f[2]) :
                                  r.start = Min(Covered(Class(m, c).blocks))
                       /\ \E g \in ClassInfoByName(c) :
                              g[1] <= m /\ (g[1] = m => <<g[2], g[3]>> = f)
  <2> DEFINE spots == {f \in Superclasses \X (1..Cardinality(Classes)) :
                           \E d \in ClassInfo(m, f[1], f[2]) : d.short_name = c}
  <2>1. /\ c \in Defined(m) => \E f : spots = {f}
        /\ c \notin Defined(m) => spots = {}
        /\ \A f \in spots : f[1] = Class(m, c).superclass
    BY <1>1, SpotOf
  <2>2. Cardinality(spots) = IF ClassExists(m, c) THEN 1 ELSE 0
    <3> HIDE DEF spots
    <3>1. CASE c \in Defined(m)
      <4>1. PICK f : spots = {f}
        BY <2>1, <3>1
      <4>2. Cardinality({f}) = 1
        BY FS_Singleton
      <4>3. QED
        BY <3>1, <4>1, <4>2 DEF ClassExists
    <3>2. CASE c \notin Defined(m)
      BY <2>1, <3>2, FS_EmptySet DEF ClassExists
    <3>3. QED
      BY <3>1, <3>2
  <2>3. ASSUME NEW f \in spots
        PROVE  /\ ClassSuperclass(m, c) = {f[1]}
               /\ Class(m, c).blocks # << >> =>
                      \A r \in SimpleClassInfo(m, f[1], f[2]) :
                          r.start = Min(Covered(Class(m, c).blocks))
               /\ \E g \in ClassInfoByName(c) :
                      g[1] <= m /\ (g[1] = m => <<g[2], g[3]>> = f)
    <3>1. /\ f \in Superclasses \X (1..Cardinality(Classes)) /\ f[2] \in Nat
          /\ Shows(m, f[1], f[2], c)
      <4>1. Cardinality(Classes) \in Nat
        BY MeshAssumption, FS_CardinalityType
      <4>2. QED
        BY <4>1 DEF Shows
    <3>2. ClassSuperclass(m, c) = {f[1]}
      <4>1. f[1] = Class(m, c).superclass
        BY <2>1
      <4>2. f[1] # "none"
        BY <3>1 DEF Superclasses
      <4>3. QED
        BY <4>1, <4>2 DEF ClassSuperclass
    <3>3. \E g \in ClassInfoByName(c) : g[1] <= m /\ (g[1] = m => <<g[2], g[3]>> = f)
      BY <1>1, <3>1, FoundByName DEF Shows
    <3>4. ASSUME Class(m, c).blocks # << >>, NEW r \in SimpleClassInfo(m, f[1], f[2])
          PROVE  r.start = Min(Covered(Class(m, c).blocks))
      <4>1. PICK s, i : s = f[1] /\ i = f[2]
        OBVIOUS
      <4>2. OfSuperclass(m, s) \in Seq(Classes)
        BY <1>1, ClassesListed
      <4>3. i \in Nat /\ Shows(m, s, i, c)
        BY <3>1, <4>1
      <4>4. \A d \in ClassInfo(m, s, i) : d.short_name = c
        BY <4>2, <4>3, InfoOf
      <4>5. PICK d \in ClassInfo(m, s, i) : r = Class(m, d.short_name).blocks[1]
        BY <3>4, <4>1 DEF SimpleClassInfo
      <4>6. r = Class(m, c).blocks[1]
        BY <4>4, <4>5
      <4>7. PICK blocks : blocks = Class(m, c).blocks
        OBVIOUS
      <4>8. Ordered(blocks)
        BY <4>7 DEF IInv, MemoryInv, BlocksLoaded
      <4>9. QED
        BY <3>4, <4>6, <4>7, <4>8, FirstIsLeast
    <3>5. QED
      BY <3>2, <3>3, <3>4
  <2> HIDE DEF spots
  <2>4. QED
    BY <2>2, <2>3 DEF spots
<1>3. QED
  BY <1>1, <1>2, NamesFound, IndicesFound DEF ClassesFound

(***************************************************************************)
(* Between calls every question about meshes, classes and definitions gets *)
(* the right answer, if no class is defined after a query about its mesh:  *)
(* each mesh and each class is found once, under its name and its index,   *)
(* and the definitions a reader counts and asks for one by one are all     *)
(* there and have the class's objects.                                     *)
(***************************************************************************)
THEOREM QueriesCorrect ==
    ASSUME "late_class" \notin App, << >> \notin Lists
    PROVE  Spec => []QueriesCurrent
<1> DEFINE I == IInv /\ TypeInv /\ QueryInv /\ LengthInv /\ NodesKept
<1>1. Init => I
  <2>1. Init => QueryInv /\ NodesKept
    BY DEF Init, NoQuery, QueryInv, ClassesCurrent, NodesKept
  <2>2. QED
    BY <2>1, InitInv, TypeInit, LengthInit
<1>2. I /\ [Next]_vars => I'
  BY NextInv, TypeStep, QueryStep, LengthStep, NodesStep
<1>3. I => QueriesCurrent
  BY ClassesAreFound, ListedFollows, CountFollows DEF QueryInv, AnswersRight, QueriesCurrent
<1>4. QED
  BY <1>1, <1>2, <1>3, PTL DEF Spec
=============================================================================
