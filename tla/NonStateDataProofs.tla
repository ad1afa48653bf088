------------------------- MODULE NonStateDataProofs -------------------------
(***************************************************************************)
(* Proofs about the data in NonState: what each directory entry names in   *)
(* its file is what was last written for it, each name finds its last      *)
(* entry, and a committed file keeps its directory and its length, for an  *)
(* application that closes its formats and defines its variables while an  *)
(* uncommitted file is open, and calls mc_suffix_width while the A-file is *)
(* not open.                                                               *)
(*                                                                         *)
(* The lemmas go from a file's units, to a file (Layout), to a workspace   *)
(* (Held), to the calls.  Extends says what a step leaves as it was.       *)
(***************************************************************************)
EXTENDS NonStateProofs

(***************************************************************************)
(* One file: its units, how far its entries may go, its entries, and what  *)
(* was last written for each.                                              *)
(***************************************************************************)
Fits(e, room) == e \in Entry /\ e.length >= 1 /\ e.offset + e.length <= room

Layout(data, room, entries, held) ==
    /\ IsSeq(data) /\ room \in Nat /\ room <= Len(data)
    /\ IsSeq(entries) /\ IsSeq(held) /\ Len(held) = Len(entries)
    /\ \A j \in 1..Len(entries) : /\ Fits(entries[j], room)
                                  /\ held[j] = UnitsOf(data, entries[j])
    /\ \A j, k \in 1..Len(entries) :
           j < k => entries[j].offset + entries[j].length <= entries[k].offset

\* A committed file ends in its directory, behind the entries.
Room(file)    == IF file.commit_count > 0 THEN Len(file.data) - 1 ELSE Len(file.data)
EndsInDir(file) == Len(file.data) >= 1 /\ file.data[Len(file.data)] = DIR

Filed(file, entries, held) ==
    /\ Layout(file.data, Room(file), entries, held)
    /\ file.commit_count > 0 => entries # Empty /\ EndsInDir(file)

\* The first unit of the family is its header.
HeaderFree(data, entries) ==
    Len(data) >= 1 /\ \A j \in 1..Len(entries) : entries[j].offset >= 1

EntriesOf(w, i) == w.fam.directory[i].entries

Laid(w) ==
    /\ w.clock \in Nat
    /\ IsSeq(w.wrote) /\ Len(w.wrote) = Len(w.files)
    /\ \A i \in 1..Len(w.files) : Filed(w.files[i], EntriesOf(w, i), w.wrote[i])
    /\ HeaderFree(w.files[1].data, EntriesOf(w, 1))

\* Where the stream stands, and where it could be sought to.
Streamed(w) ==
    /\ w.fam.cur_index \in 0..Len(w.files)
    /\ w.fam.cur_index # NoFile =>
           /\ w.fam.next_free_byte = Len(w.files[w.fam.cur_index].data)
           /\ w.fam.pos \in 0..Len(w.files[w.fam.cur_index].data)

Statuses == {"open", "filled", "closed", "empty", "saved"}
Stated(w) == \A i \in 1..Len(w.fam.srecs) : w.fam.srecs[i] \in Statuses

Held(w) == Shaped(w) /\ Laid(w) /\ Streamed(w) /\ Stated(w)

(***************************************************************************)
(* A step leaves the entries that are there, what they hold and the files  *)
(* that are committed; what it adds is called name.                        *)
(***************************************************************************)
Kept(f, g) == f.dir = g.dir /\ f.commit_count = g.commit_count /\ Len(f.data) = Len(g.data)

Extends(v, w, name) ==
    /\ v.fam.names = w.fam.names
    /\ Len(v.files) \in Nat /\ Len(v.files) >= Len(w.files)
    /\ \A i \in 1..Len(w.files) :
           /\ Len(EntriesOf(v, i)) >= Len(EntriesOf(w, i))
           /\ \A j \in 1..Len(EntriesOf(w, i)) : /\ EntriesOf(v, i)[j] = EntriesOf(w, i)[j]
                                                 /\ v.wrote[i][j] = w.wrote[i][j]
           /\ \A j \in 1..Len(EntriesOf(v, i)) :
                  j > Len(EntriesOf(w, i)) => EntriesOf(v, i)[j].name = name
           /\ w.files[i].commit_count > 0 => Kept(v.files[i], w.files[i])
    /\ \A i \in 1..Len(v.files) : i > Len(w.files) =>
           \A j \in 1..Len(EntriesOf(v, i)) : EntriesOf(v, i)[j].name = name

\* The last file is open, and its stream at its end.
AtEnd(w) == Held(w) /\ AtWork(w) /\ w.fam.pos = w.fam.next_free_byte

(***************************************************************************)
(* The table has the last entry of each name, and that entry its value.    *)
(***************************************************************************)
IsPlace(p, dirs) ==
    /\ p = [file |-> p.file, entry |-> p.entry]
    /\ p.file \in 1..Len(dirs) /\ p.entry \in 1..Len(dirs[p.file].entries)

LastOf(p, n, dirs) ==
    /\ p # Nowhere => IsPlace(p, dirs) /\ dirs[p.file].entries[p.entry].name = n
    /\ \A i \in 1..Len(dirs) : \A j \in 1..Len(dirs[i].entries) :
           dirs[i].entries[j].name = n =>
               p # Nowhere /\ (i < p.file \/ (i = p.file /\ j <= p.entry))

Tabled(names, dirs) ==
    /\ names = [n \in Names |-> names[n]]
    /\ \A n \in Names : LastOf(names[n], n, dirs)

Valued(val, names, held) ==
    /\ val = [n \in Names |-> val[n]]
    /\ \A n \in Names : val[n] = IF names[n] = Nowhere THEN Empty
                                 ELSE held[names[n].file][names[n].entry]
-----------------------------------------------------------------------------
(***************************************************************************)
(* Units.                                                                  *)
(***************************************************************************)
\* What a file holds after a write.
IsPut(d, data, at, units) ==
    LET stop == at + Len(units)
    IN  /\ IsSeq(d)
        /\ Len(d) = IF stop > Len(data) THEN stop ELSE Len(data)
        /\ \A u \in 1..Len(d) : d[u] = IF u > at /\ u <= stop THEN units[u - at] ELSE data[u]

LEMMA PutUnits ==
    ASSUME NEW data, IsSeq(data), NEW at \in Nat, NEW units, IsSeq(units)
    PROVE  IsPut(Put(data, at, units), data, at, units)
<1> DEFINE d == Put(data, at, units)
           stop == at + Len(units)
           n == IF stop > Len(data) THEN stop ELSE Len(data)
<1>1. Len(data) \in Nat /\ Len(units) \in Nat
  BY DEF IsSeq
<1>2. n \in Nat
  BY <1>1
<1>3. d = [u \in 1..n |-> IF u > at /\ u <= stop THEN units[u - at] ELSE data[u]]
  BY DEF Put
<1> HIDE DEF d, n, stop
<1>4. d = [u \in 1..n |-> d[u]]
  BY <1>3
<1>5. IsSeq(d) /\ Len(d) = n
  BY <1>2, <1>4, FunctionSeq
<1>6. IsPut(d, data, at, units)
  BY <1>3, <1>5 DEF IsPut, n, stop
<1>7. QED
  BY <1>6 DEF d

\* The same token over and over.
LEMMA CopiesSeq ==
    ASSUME NEW c, NEW len \in Nat
    PROVE  /\ IsSeq(Copies(c, len)) /\ Len(Copies(c, len)) = len
           /\ \A u \in 1..len : Copies(c, len)[u] = c
<1> DEFINE s == Copies(c, len)
<1>1. s = [u \in 1..len |-> c]
  BY DEF Copies
<1> HIDE DEF s
<1>2. s = [u \in 1..len |-> s[u]] /\ \A u \in 1..len : s[u] = c
  BY <1>1
<1>3. IsSeq(s) /\ Len(s) = len
  BY <1>2, FunctionSeq
<1>4. QED
  BY <1>2, <1>3 DEF s

\* A sequence of one element.
LEMMA OneElement == ASSUME NEW c PROVE IsSeq(<<c>>) /\ Len(<<c>>) = 1 /\ <<c>>[1] = c
  BY DEF IsSeq

\* The units of an entry that lies within its file.
LEMMA UnitsHere ==
    ASSUME NEW data, NEW e, e.offset \in Nat, e.length \in Nat, Len(data) \in Nat,
           e.offset + e.length <= Len(data)
    PROVE  /\ UnitsOf(data, e) = [u \in 1..e.length |-> data[e.offset + u]]
           /\ IsSeq(UnitsOf(data, e)) /\ Len(UnitsOf(data, e)) = e.length
           /\ \A u \in 1..e.length : UnitsOf(data, e)[u] = data[e.offset + u]
<1> DEFINE s == UnitsOf(data, e)
<1>1. s = [u \in 1..e.length |-> data[e.offset + u]]
  BY DEF UnitsOf
<1> HIDE DEF s
<1>2. s = [u \in 1..e.length |-> s[u]]
  BY <1>1
<1>3. IsSeq(s) /\ Len(s) = e.length
  BY <1>2, FunctionSeq
<1>4. QED
  BY <1>1, <1>3 DEF s

\* They depend on nothing but the entry's place.
Within(e, data) ==
    /\ e.offset \in Nat /\ e.length \in Nat /\ Len(data) \in Nat
    /\ e.offset + e.length <= Len(data)
SameUnits(d, data, e) == \A u \in 1..e.length : d[e.offset + u] = data[e.offset + u]

LEMMA UnitsStay ==
    ASSUME NEW data, NEW d, NEW e, Within(e, data), Within(e, d), SameUnits(d, data, e)
    PROVE  UnitsOf(d, e) = UnitsOf(data, e)
<1>1. /\ UnitsOf(d, e) = [u \in 1..e.length |-> d[e.offset + u]]
      /\ UnitsOf(data, e) = [u \in 1..e.length |-> data[e.offset + u]]
  BY UnitsHere DEF Within
<1>2. QED
  BY <1>1 DEF SameUnits

\* What is added to a file leaves the units of its entries.
LEMMA UnitsKept ==
    ASSUME NEW data, NEW d, Len(d) \in Nat, Len(d) >= Len(data),
           \A u \in 1..Len(data) : d[u] = data[u], NEW e, Within(e, data)
    PROVE  UnitsOf(d, e) = UnitsOf(data, e)
<1>1. Within(e, d)
  BY DEF Within
<1>2. ASSUME NEW u \in 1..e.length
      PROVE  d[e.offset + u] = data[e.offset + u]
  <2>1. e.offset + u \in 1..Len(data)
    BY DEF Within
  <2>2. QED
    BY <2>1
<1>3. SameUnits(d, data, e)
  BY <1>2 DEF SameUnits
<1>4. QED
  BY <1>1, <1>3, UnitsStay

\* What an entry names when units were put at its place.
LEMMA UnitsPut ==
    ASSUME NEW d, NEW e, e.offset \in Nat, e.length \in Nat, Len(d) \in Nat,
           e.offset + e.length <= Len(d),
           NEW units, IsSeq(units), Len(units) = e.length,
           \A u \in 1..e.length : d[e.offset + u] = units[u]
    PROVE  UnitsOf(d, e) = units
<1>1. UnitsOf(d, e) = [u \in 1..e.length |-> d[e.offset + u]]
  BY UnitsHere
<1>2. UnitsOf(d, e) = [u \in 1..e.length |-> units[u]]
  BY <1>1
<1>3. QED
  BY <1>2 DEF IsSeq

-----------------------------------------------------------------------------
(***************************************************************************)
(* One file.                                                               *)
(***************************************************************************)
\* An element is added.
LEMMA AppendJoined ==
    ASSUME NEW s, IsSeq(s), NEW e
    PROVE  Joined(s, <<e>>, Append(s, e))
<1>1. Len(<<e>>) = 1 /\ <<e>>[1] = e /\ Len(s) \in Nat
  BY OneElement DEF IsSeq
<1>2. QED
  BY <1>1, AppendSeq DEF Joined

\* An entry that fits has an offset and a length.
LEMMA FitsTyped ==
    ASSUME NEW e, NEW room, Fits(e, room)
    PROVE  e.offset \in Nat /\ e.length \in Nat /\ e.length >= 1 /\ e.offset + e.length <= room
  BY DEF Fits, Entry

\* Entries behind the others, for units behind the others.
LEMMA LayoutGrows ==
    ASSUME NEW data, NEW entries, NEW held, Layout(data, Len(data), entries, held),
           NEW d, IsSeq(d), Len(d) >= Len(data), \A u \in 1..Len(data) : d[u] = data[u],
           NEW new, IsSeq(new), NEW tok, IsSeq(tok), Len(tok) = Len(new),
           \A k \in 1..Len(new) : /\ Fits(new[k], Len(d)) /\ new[k].offset >= Len(data)
                                  /\ tok[k] = UnitsOf(d, new[k]),
           \A k, l \in 1..Len(new) : k < l => new[k].offset + new[k].length <= new[l].offset,
           NEW E, Joined(entries, new, E), NEW H, Joined(held, tok, H)
    PROVE  Layout(d, Len(d), E, H)
<1> DEFINE n == Len(entries)
           m == Len(new)
<1>1. /\ Len(data) \in Nat /\ Len(d) \in Nat /\ n \in Nat /\ m \in Nat
      /\ Len(held) = n /\ Len(E) = n + m /\ Len(H) = n + m
      /\ IsSeq(E) /\ IsSeq(H)
  BY DEF Layout, Joined, IsSeq
<1>2. \A j \in 1..n : E[j] = entries[j] /\ H[j] = held[j]
  BY <1>1 DEF Joined
<1>3. \A k \in 1..m : E[n + k] = new[k] /\ H[n + k] = tok[k]
  BY <1>1 DEF Joined
<1>4. \A j \in 1..n : /\ Fits(entries[j], Len(data)) /\ held[j] = UnitsOf(data, entries[j])
  BY DEF Layout
<1>5. \A j, k \in 1..n : j < k => entries[j].offset + entries[j].length <= entries[k].offset
  BY DEF Layout
<1> HIDE DEF n
<1>6. ASSUME NEW j \in 1..n
      PROVE  Fits(E[j], Len(d)) /\ H[j] = UnitsOf(d, E[j])
  <2>1. Fits(entries[j], Len(data)) /\ held[j] = UnitsOf(data, entries[j])
    BY <1>4
  <2>2. /\ entries[j].offset \in Nat /\ entries[j].length \in Nat
        /\ entries[j].offset + entries[j].length <= Len(data)
    BY <2>1, FitsTyped
  <2>3. Within(entries[j], data)
    BY <1>1, <2>2 DEF Within
  <2>4. UnitsOf(d, entries[j]) = UnitsOf(data, entries[j])
    BY <1>1, <2>3, UnitsKept
  <2>5. Fits(entries[j], Len(d))
    BY <1>1, <2>1, <2>2 DEF Fits
  <2>6. QED
    BY <1>2, <2>1, <2>4, <2>5
<1>7. ASSUME NEW j \in 1..n + m
      PROVE  j \in 1..n \/ \E k \in 1..m : j = n + k
  <2>1. j <= n => j \in 1..n
    BY <1>1
  <2>2. j > n => j - n \in 1..m /\ j = n + (j - n)
    BY <1>1
  <2>3. QED
    BY <1>1, <2>1, <2>2
<1>8. \A j \in 1..n + m : Fits(E[j], Len(d)) /\ H[j] = UnitsOf(d, E[j])
  BY <1>3, <1>6, <1>7
<1>9. ASSUME NEW j \in 1..n + m, NEW k \in 1..n + m, j < k
      PROVE  E[j].offset + E[j].length <= E[k].offset
  <2>1. CASE k \in 1..n
    BY <1>1, <1>2, <1>5, <1>9, <2>1
  <2>2. CASE k \notin 1..n /\ j \in 1..n
    <3>1. PICK l \in 1..m : k = n + l
      BY <1>7, <2>2
    <3>2. E[k].offset >= Len(data) /\ E[k].offset \in Nat
      BY <1>3, <3>1, FitsTyped
    <3>3. /\ E[j].offset \in Nat /\ E[j].length \in Nat
          /\ E[j].offset + E[j].length <= Len(data)
      BY <1>2, <1>4, <2>2, FitsTyped
    <3>4. QED
      BY <1>1, <3>2, <3>3
  <2>3. CASE k \notin 1..n /\ j \notin 1..n
    <3>1. PICK l \in 1..m : k = n + l
      BY <1>7, <2>3
    <3>2. PICK i \in 1..m : j = n + i
      BY <1>7, <2>3
    <3>3. i < l
      BY <1>1, <1>9, <3>1, <3>2
    <3>4. QED
      BY <1>3, <3>1, <3>2, <3>3
  <2>4. QED
    BY <2>1, <2>2, <2>3
<1>10. QED
  BY <1>1, <1>8, <1>9 DEF Layout

\* A unit behind the entries that is none of theirs.
LEMMA LayoutDone ==
    ASSUME NEW data, NEW entries, NEW held, Layout(data, Len(data), entries, held),
           NEW d, IsSeq(d), Len(d) >= Len(data), \A u \in 1..Len(data) : d[u] = data[u]
    PROVE  Layout(d, Len(data), entries, held)
<1>1. Len(data) \in Nat /\ Len(d) \in Nat
  BY DEF Layout, IsSeq
<1>2. ASSUME NEW j \in 1..Len(entries)
      PROVE  UnitsOf(d, entries[j]) = UnitsOf(data, entries[j])
  <2> DEFINE e == entries[j]
  <2>1. /\ e.offset \in Nat /\ e.length \in Nat /\ e.offset + e.length <= Len(data)
    BY FitsTyped DEF Layout
  <2> HIDE DEF e
  <2>2. Within(e, data)
    BY <1>1, <2>1 DEF Within
  <2>3. UnitsOf(d, e) = UnitsOf(data, e)
    BY <1>1, <2>2, UnitsKept
  <2>4. QED
    BY <2>3 DEF e
<1>3. QED
  BY <1>1, <1>2 DEF Layout

\* A write over units that no entry has.
LEMMA LayoutStays ==
    ASSUME NEW data, NEW room, NEW entries, NEW held, Layout(data, room, entries, held),
           NEW d, IsSeq(d), Len(d) = Len(data),
           \A j \in 1..Len(entries) : SameUnits(d, data, entries[j])
    PROVE  Layout(d, room, entries, held)
<1>1. Len(data) \in Nat /\ Len(d) \in Nat /\ room \in Nat /\ room <= Len(data)
  BY DEF Layout, IsSeq
<1>2. ASSUME NEW j \in 1..Len(entries)
      PROVE  UnitsOf(d, entries[j]) = UnitsOf(data, entries[j])
  <2> DEFINE e == entries[j]
  <2>1. /\ e.offset \in Nat /\ e.length \in Nat /\ e.offset + e.length <= room
    BY FitsTyped DEF Layout
  <2>2. SameUnits(d, data, e)
    OBVIOUS
  <2> HIDE DEF e
  <2>3. Within(e, data) /\ Within(e, d)
    BY <1>1, <2>1 DEF Within
  <2>4. UnitsOf(d, e) = UnitsOf(data, e)
    BY <2>2, <2>3, UnitsStay
  <2>5. QED
    BY <2>4 DEF e
<1>3. QED
  BY <1>1, <1>2 DEF Layout

\* A rewrite of one entry, by no more than it had.
LEMMA LayoutRewritten ==
    ASSUME NEW data, NEW room, NEW entries, NEW held, Layout(data, room, entries, held),
           NEW i \in 1..Len(entries), NEW units, IsSeq(units), Len(units) <= entries[i].length,
           NEW H, H = [held EXCEPT ![i] = Put(held[i], 0, units)]
    PROVE  LET d == Put(data, entries[i].offset, units)
           IN  /\ Layout(d, room, entries, H) /\ Len(d) = Len(data)
               /\ \A u \in 1..Len(data) : u > room => d[u] = data[u]
<1> DEFINE o == entries[i].offset
           m == entries[i].length
           d == Put(data, o, units)
           h == Put(held[i], 0, units)
           z == Len(units)
<1>1. /\ IsSeq(data) /\ Len(data) \in Nat /\ room \in Nat /\ room <= Len(data)
      /\ IsSeq(held) /\ Len(held) = Len(entries) /\ Len(entries) \in Nat
      /\ IsSeq(entries) /\ z \in Nat /\ z <= m
  BY DEF Layout, IsSeq
<1>2. \A j \in 1..Len(entries) :
          /\ entries[j].offset \in Nat /\ entries[j].length \in Nat
          /\ entries[j].offset + entries[j].length <= room
  BY FitsTyped DEF Layout
<1>3. o \in Nat /\ m \in Nat /\ o + m <= room
  BY <1>2
<1>4. /\ IsSeq(d) /\ Len(d) = Len(data)
      /\ \A u \in 1..Len(data) : d[u] = IF u > o /\ u <= o + z THEN units[u - o] ELSE data[u]
  <2> HIDE DEF o, m
  <2>1. o <= Len(data) /\ ~(o + z > Len(data))
    BY <1>1, <1>3
  <2>2. IsPut(d, data, o, units)
    BY <1>1, <1>3, PutUnits
  <2> HIDE DEF d
  <2>3. QED
    BY <2>1, <2>2 DEF IsPut
<1>5. held[i] = UnitsOf(data, entries[i])
  BY DEF Layout
<1>6. IsSeq(held[i]) /\ Len(held[i]) = m /\ \A u \in 1..m : held[i][u] = data[o + u]
  <2>1. o + m <= Len(data)
    BY <1>1, <1>3
  <2> DEFINE e == entries[i]
             s == UnitsOf(data, e)
  <2>2. e.offset = o /\ e.length = m /\ s = held[i]
    BY <1>5
  <2> HIDE DEF e, o, m
  <2>3. e.offset \in Nat /\ e.length \in Nat /\ Len(data) \in Nat /\ e.offset + e.length <= Len(data)
    BY <1>1, <1>3, <2>1, <2>2
  <2>4. IsSeq(s) /\ Len(s) = e.length /\ \A u \in 1..e.length : s[u] = data[e.offset + u]
    BY <2>3, UnitsHere
  <2> HIDE DEF s
  <2>5. QED
    BY <2>2, <2>4
<1>7. /\ IsSeq(h) /\ Len(h) = m
      /\ \A u \in 1..m : h[u] = IF u > 0 /\ u <= z THEN units[u] ELSE held[i][u]
  <2> DEFINE s == held[i]
  <2> HIDE DEF m, z, s
  <2>0. 0 \in Nat /\ 0 <= Len(s) /\ ~(0 + z > Len(s)) /\ 0 + z = z /\ Len(s) = m /\ IsSeq(s)
    BY <1>1, <1>3, <1>6 DEF s
  <2>1. /\ IsSeq(Put(s, 0, units)) /\ Len(Put(s, 0, units)) = m
        /\ \A u \in 1..m : Put(s, 0, units)[u] = IF u > 0 /\ u <= z THEN units[u - 0] ELSE s[u]
    <3> DEFINE at == 0
    <3>1. at \in Nat /\ at + z = z /\ ~(at + z > Len(s)) /\ at = 0
      BY <2>0
    <3> HIDE DEF at
    <3>2. IsPut(Put(s, at, units), s, at, units)
      BY <1>1, <2>0, <3>1, PutUnits
    <3> DEFINE d2 == Put(s, at, units)
    <3> HIDE DEF d2
    <3>3. /\ IsSeq(d2) /\ Len(d2) = m
          /\ \A u \in 1..m : d2[u] = IF u > at /\ u <= z THEN units[u - at] ELSE s[u]
      BY <2>0, <3>1, <3>2 DEF IsPut, d2, z
    <3>4. QED
      BY <3>1, <3>3 DEF d2
  <2>2. \A u \in 1..m : u - 0 = u
    BY <1>3
  <2>3. QED
    BY <2>1, <2>2 DEF s
<1>8. UnitsOf(d, entries[i]) = h
  <2> HIDE DEF d, h, z
  <2>1. ASSUME NEW u \in 1..m
        PROVE  d[o + u] = h[u]
    <3> HIDE DEF o, m
    <3>0. u \in Nat /\ u >= 1 /\ u <= m
      BY <1>3
    <3>1. o + u \in 1..Len(data) /\ (o + u) - o = u /\ o + u > o /\ u > 0
          /\ (o + u <= o + z <=> u <= z)
      BY <1>1, <1>3, <3>0
    <3>2. d[o + u] = IF u <= z THEN units[u] ELSE data[o + u]
      BY <1>4, <3>1
    <3>3. h[u] = IF u <= z THEN units[u] ELSE data[o + u]
      BY <1>6, <1>7, <3>1
    <3>4. QED
      BY <3>2, <3>3
  <2>2. o + m <= Len(d) /\ Len(d) \in Nat
    BY <1>1, <1>3, <1>4
  <2> DEFINE e == entries[i]
  <2>3. e.offset = o /\ e.length = m
    OBVIOUS
  <2> HIDE DEF e, o, m
  <2>4. \A u \in 1..e.length : d[e.offset + u] = h[u]
    BY <2>1, <2>3
  <2>p. /\ e.offset \in Nat /\ e.length \in Nat /\ Len(d) \in Nat
        /\ e.offset + e.length <= Len(d) /\ IsSeq(h) /\ Len(h) = e.length
    BY <1>3, <1>7, <2>2, <2>3
  <2>5. UnitsOf(d, e) = h
    BY <2>4, <2>p, UnitsPut
  <2>6. QED
    BY <2>5 DEF e
<1>9. ASSUME NEW j \in 1..Len(entries), j # i
      PROVE  UnitsOf(d, entries[j]) = held[j]
  <2> DEFINE e == entries[j]
  <2>1. e.offset \in Nat /\ e.length \in Nat /\ e.offset + e.length <= room
    BY <1>2
  <2>2. e.offset + e.length <= o \/ o + m <= e.offset
    <3>1. \A x, y \in 1..Len(entries) :
              x < y => entries[x].offset + entries[x].length <= entries[y].offset
      BY DEF Layout
    <3>2. j < i \/ i < j
      BY <1>1, <1>9
    <3>3. QED
      BY <3>1, <3>2
  <2>e. held[j] = UnitsOf(data, e)
    BY DEF Layout
  <2> HIDE DEF e, d, o, m, z
  <2>3. ASSUME NEW u \in 1..e.length
        PROVE  d[e.offset + u] = data[e.offset + u]
    <3> DEFINE k == e.offset + u
               limit == Len(data)
    <3>a. room \in Nat /\ limit \in Nat /\ room <= limit
      BY <1>1
    <3> HIDE DEF limit
    <3>1. k \in 1..Len(data)
      <4>1. k \in 1..limit
        BY <2>1, <3>a
      <4>2. QED
        BY <4>1 DEF limit
    <3>b. z \in Nat /\ z <= m
      BY <1>1
    <3>2. ~(k > o /\ k <= o + z)
      BY <1>3, <2>1, <2>2, <3>b
    <3> HIDE DEF k
    <3>3. d[k] = data[k]
      BY <1>4, <3>1, <3>2
    <3>4. QED
      BY <3>3 DEF k
  <2>4. /\ Len(d) \in Nat /\ e.offset + e.length <= Len(data)
        /\ e.offset + e.length <= Len(d)
    BY <1>1, <1>4, <2>1
  <2>5. UnitsOf(d, e) = UnitsOf(data, e)
    <3>1. Within(e, data) /\ Within(e, d)
      BY <1>1, <2>1, <2>4 DEF Within
    <3>2. SameUnits(d, data, e)
      BY <2>3 DEF SameUnits
    <3>3. QED
      BY <3>1, <3>2, UnitsStay
  <2>6. QED
    BY <2>5, <2>e DEF e
<1>10. /\ IsSeq(H) /\ Len(H) = Len(held)
       /\ \A j \in 1..Len(held) : H[j] = IF j = i THEN h ELSE held[j]
  <2> HIDE DEF h
  <2>1. DOMAIN held = 1..Len(held)
    BY <1>1 DEF IsSeq
  <2>2. H = [held EXCEPT ![i] = h]
    BY DEF h
  <2>3. /\ DOMAIN H = 1..Len(held) /\ H = [k \in DOMAIN H |-> H[k]]
        /\ \A j \in 1..Len(held) : H[j] = IF j = i THEN h ELSE held[j]
    BY <2>1, <2>2
  <2>4. IsSeq(H) /\ Len(H) = Len(held)
    BY <1>1, <2>3, ReplaceInSeq
  <2>5. QED
    BY <2>3, <2>4
<1>11. Layout(d, room, entries, H)
  <2> HIDE DEF d, h
  <2>1. \A j \in 1..Len(entries) : H[j] = UnitsOf(d, entries[j])
    BY <1>1, <1>8, <1>9, <1>10
  <2>2. QED
    BY <1>1, <1>4, <1>10, <2>1 DEF Layout
<1>12. \A u \in 1..Len(data) : u > room => d[u] = data[u]
  <2> HIDE DEF d, o, m, z
  <2>1. QED
    BY <1>1, <1>3, <1>4
<1>13. QED
  BY <1>4, <1>11, <1>12

-----------------------------------------------------------------------------
(***************************************************************************)
(* A workspace of which one file changes.                                  *)
(***************************************************************************)
\* What of a workspace is where, for the rest of this module.
LEMMA WorkFacts ==
    ASSUME NEW w, Shaped(w)
    PROVE  /\ DOMAIN w = WorkFields /\ DOMAIN w.fam = FamFields /\ w.ok = TRUE
           /\ IsSeq(w.files) /\ Len(w.files) \in Nat /\ Len(w.files) >= 1
           /\ IsSeq(w.fam.directory) /\ Len(w.fam.directory) = Len(w.files)
           /\ \A i \in 1..Len(w.files) :
                  /\ DOMAIN w.files[i] = FileFields
                  /\ w.files[i].commit_count = w.fam.directory[i].commit_count
                  /\ w.files[i].commit_count \in Nat
                  /\ w.files[i].commit_count > 0 => w.files[i].dir = EntriesOf(w, i)
                  /\ IsSeq(EntriesOf(w, i)) /\ Len(EntriesOf(w, i)) \in Nat
           /\ IsSeq(w.fam.srecs)
  BY DEF Shaped, DirsShaped, FilesMatch, IsSeq, EntriesOf

\* The files but one stay, that one is in order, and so are all.
LEMMA LaidAt ==
    ASSUME NEW w, Shaped(w), Laid(w), NEW v, v.clock \in Nat, NEW c \in 1..Len(w.files),
           Len(v.files) = Len(w.files), IsSeq(v.wrote), Len(v.wrote) = Len(w.wrote),
           \A i \in 1..Len(w.files) : i # c => /\ v.files[i] = w.files[i]
                                               /\ EntriesOf(v, i) = EntriesOf(w, i)
                                               /\ v.wrote[i] = w.wrote[i],
           Filed(v.files[c], EntriesOf(v, c), v.wrote[c]),
           c = 1 => HeaderFree(v.files[1].data, EntriesOf(v, 1))
    PROVE  Laid(v)
<1>1. Len(w.files) \in Nat /\ 1 \in 1..Len(w.files)
  BY WorkFacts
<1>2. \A i \in 1..Len(w.files) : Filed(v.files[i], EntriesOf(v, i), v.wrote[i])
  BY DEF Laid
<1>3. HeaderFree(v.files[1].data, EntriesOf(v, 1))
  BY <1>1 DEF Laid
<1>4. QED
  BY <1>2, <1>3 DEF Laid

\* The files but one stay, and that one is not committed, or keeps all but its data.
LEMMA ExtendsAt ==
    ASSUME NEW w, Shaped(w), NEW v, NEW c \in 1..Len(w.files), NEW name,
           v.fam.names = w.fam.names, Len(v.files) = Len(w.files),
           \A i \in 1..Len(w.files) : i # c => /\ v.files[i] = w.files[i]
                                               /\ EntriesOf(v, i) = EntriesOf(w, i)
                                               /\ v.wrote[i] = w.wrote[i],
           Len(EntriesOf(v, c)) >= Len(EntriesOf(w, c)),
           \A j \in 1..Len(EntriesOf(w, c)) : /\ EntriesOf(v, c)[j] = EntriesOf(w, c)[j]
                                              /\ v.wrote[c][j] = w.wrote[c][j],
           \A j \in 1..Len(EntriesOf(v, c)) :
               j > Len(EntriesOf(w, c)) => EntriesOf(v, c)[j].name = name,
           w.files[c].commit_count > 0 => Kept(v.files[c], w.files[c])
    PROVE  Extends(v, w, name)
<1>1. Len(w.files) \in Nat /\ \A i \in 1..Len(w.files) : Len(EntriesOf(w, i)) \in Nat
  BY WorkFacts
<1>2. ASSUME NEW i \in 1..Len(w.files), i # c
      PROVE  /\ Len(EntriesOf(v, i)) >= Len(EntriesOf(w, i))
             /\ \A j \in 1..Len(EntriesOf(w, i)) : /\ EntriesOf(v, i)[j] = EntriesOf(w, i)[j]
                                                   /\ v.wrote[i][j] = w.wrote[i][j]
             /\ \A j \in 1..Len(EntriesOf(v, i)) :
                    j > Len(EntriesOf(w, i)) => EntriesOf(v, i)[j].name = name
             /\ w.files[i].commit_count > 0 => Kept(v.files[i], w.files[i])
  BY <1>1, <1>2 DEF Kept
<1>3. \A i \in 1..Len(v.files) : ~(i > Len(w.files))
  BY <1>1
<1>4. QED
  BY <1>1, <1>2, <1>3 DEF Extends

\* Steps that add nothing with a name follow each other.
LEMMA ExtendsOn ==
    ASSUME NEW u, NEW v, NEW w, Shaped(u), Shaped(v), Shaped(w), NEW name,
           Extends(u, v, name), Extends(v, w, name)
    PROVE  Extends(u, w, name)
<1>1. /\ Len(u.files) \in Nat /\ Len(v.files) \in Nat /\ Len(w.files) \in Nat
      /\ \A i \in 1..Len(u.files) : Len(EntriesOf(u, i)) \in Nat
      /\ \A i \in 1..Len(v.files) : Len(EntriesOf(v, i)) \in Nat
      /\ \A i \in 1..Len(w.files) : Len(EntriesOf(w, i)) \in Nat
  BY WorkFacts
<1>2. Len(u.files) >= Len(v.files) /\ Len(v.files) >= Len(w.files) /\ u.fam.names = w.fam.names
  BY DEF Extends
<1>3. ASSUME NEW i \in 1..Len(w.files)
      PROVE  /\ Len(EntriesOf(u, i)) >= Len(EntriesOf(w, i))
             /\ \A j \in 1..Len(EntriesOf(w, i)) : /\ EntriesOf(u, i)[j] = EntriesOf(w, i)[j]
                                                   /\ u.wrote[i][j] = w.wrote[i][j]
             /\ \A j \in 1..Len(EntriesOf(u, i)) :
                    j > Len(EntriesOf(w, i)) => EntriesOf(u, i)[j].name = name
             /\ w.files[i].commit_count > 0 => Kept(u.files[i], w.files[i])
  <2>1. i \in 1..Len(v.files) /\ i \in 1..Len(u.files)
    BY <1>1, <1>2
  <2> DEFINE a == EntriesOf(u, i)
             b == EntriesOf(v, i)
             c == EntriesOf(w, i)
  <2>2. Len(a) \in Nat /\ Len(b) \in Nat /\ Len(c) \in Nat
    BY <1>1, <2>1
  <2>3. /\ Len(a) >= Len(b)
        /\ \A j \in 1..Len(b) : a[j] = b[j] /\ u.wrote[i][j] = v.wrote[i][j]
        /\ \A j \in 1..Len(a) : j > Len(b) => a[j].name = name
        /\ v.files[i].commit_count > 0 => Kept(u.files[i], v.files[i])
    BY <2>1 DEF Extends
  <2>4. /\ Len(b) >= Len(c)
        /\ \A j \in 1..Len(c) : b[j] = c[j] /\ v.wrote[i][j] = w.wrote[i][j]
        /\ \A j \in 1..Len(b) : j > Len(c) => b[j].name = name
        /\ w.files[i].commit_count > 0 => Kept(v.files[i], w.files[i])
    BY DEF Extends
  <2> HIDE DEF a, b, c
  <2>5. Len(a) >= Len(c) /\ \A j \in 1..Len(c) : j \in 1..Len(b)
    BY <2>2, <2>3, <2>4
  <2>6. \A j \in 1..Len(c) : a[j] = c[j] /\ u.wrote[i][j] = w.wrote[i][j]
    BY <2>3, <2>4, <2>5
  <2>7. ASSUME NEW j \in 1..Len(a), j > Len(c)
        PROVE  a[j].name = name
    <3>1. CASE j > Len(b)
      BY <2>3, <3>1
    <3>2. CASE ~(j > Len(b))
      <4>1. j \in 1..Len(b)
        BY <2>2, <3>2
      <4>2. QED
        BY <2>3, <2>4, <2>7, <4>1
    <3>3. QED
      BY <3>1, <3>2
  <2>8. w.files[i].commit_count > 0 => Kept(u.files[i], w.files[i])
    BY <2>3, <2>4 DEF Kept
  <2>9. QED
    BY <2>5, <2>6, <2>7, <2>8 DEF a, b, c
<1>4. ASSUME NEW i \in 1..Len(u.files), i > Len(w.files), NEW j \in 1..Len(EntriesOf(u, i))
      PROVE  EntriesOf(u, i)[j].name = name
  <2>1. CASE i > Len(v.files)
    BY <2>1 DEF Extends
  <2>2. CASE ~(i > Len(v.files))
    <3>1. i \in 1..Len(v.files)
      BY <1>1, <2>2
    <3>2. CASE j > Len(EntriesOf(v, i))
      BY <3>1, <3>2 DEF Extends
    <3>3. CASE ~(j > Len(EntriesOf(v, i)))
      <4>1. j \in 1..Len(EntriesOf(v, i))
        BY <1>1, <3>1, <3>3
      <4>2. EntriesOf(u, i)[j] = EntriesOf(v, i)[j] /\ EntriesOf(v, i)[j].name = name
        BY <1>4, <3>1, <4>1 DEF Extends
      <4>3. QED
        BY <4>2
    <3>4. QED
      BY <3>2, <3>3
  <2>3. QED
    BY <2>1, <2>2
<1>5. QED
  BY <1>1, <1>2, <1>3, <1>4 DEF Extends

\* A step that changes no file and no entry.
LEMMA ExtendsSame ==
    ASSUME NEW v, NEW w, Shaped(w), v.files = w.files, v.fam.directory = w.fam.directory,
           v.wrote = w.wrote, v.fam.names = w.fam.names, NEW name
    PROVE  Extends(v, w, name)
<1>1. /\ Len(w.files) \in Nat
      /\ \A i \in 1..Len(w.files) : Len(EntriesOf(w, i)) \in Nat
  BY WorkFacts
<1>2. \A i : EntriesOf(v, i) = EntriesOf(w, i)
  BY DEF EntriesOf
<1>3. /\ \A i \in 1..Len(v.files) : ~(i > Len(w.files))
      /\ \A i \in 1..Len(w.files) : \A j \in 1..Len(EntriesOf(v, i)) : ~(j > Len(EntriesOf(w, i)))
  BY <1>1, <1>2
<1>4. QED
  BY <1>1, <1>2, <1>3 DEF Extends, Kept

-----------------------------------------------------------------------------
(***************************************************************************)
(* Writing.                                                                *)
(***************************************************************************)
\* The parts of a workspace that a write and a seek leave.
SameMemory(v, w) ==
    /\ v.fam.directory = w.fam.directory /\ v.fam.names = w.fam.names
    /\ v.fam.srecs = w.fam.srecs /\ v.fam.commit_max = w.fam.commit_max
    /\ v.fam.cur_index = w.fam.cur_index /\ v.fam.next_free_byte = w.fam.next_free_byte
    /\ v.wrote = w.wrote /\ v.clock = w.clock

\* fwrite puts its units where the stream stands, and moves it.
LEMMA WriteIs ==
    ASSUME NEW w, Shaped(w), w.fam.cur_index \in 1..Len(w.files), NEW units
    PROVE  LET v == Write(w, units)
               c == w.fam.cur_index
           IN  /\ Shaped(v) /\ SameMemory(v, w)
               /\ v.fam.pos = w.fam.pos + Len(units)
               /\ Len(v.files) = Len(w.files)
               /\ \A i \in 1..Len(w.files) : i # c => v.files[i] = w.files[i]
               /\ v.files[c].data = Put(w.files[c].data, w.fam.pos, units)
               /\ v.files[c].dir = w.files[c].dir
               /\ v.files[c].commit_count = w.files[c].commit_count
<1> DEFINE v == Write(w, units)
           c == w.fam.cur_index
           d == Put(w.files[c].data, w.fam.pos, units)
<1>1. /\ DOMAIN w = WorkFields /\ DOMAIN w.fam = FamFields
      /\ DOMAIN w.files = 1..Len(w.files) /\ DOMAIN w.files[c] = FileFields
  <2>1. /\ DOMAIN w = WorkFields /\ DOMAIN w.fam = FamFields /\ IsSeq(w.files)
        /\ DOMAIN w.files[c] = FileFields
    BY WorkFacts
  <2>2. DOMAIN w.files = 1..Len(w.files)
    BY <2>1 DEF IsSeq
  <2>3. QED
    BY <2>1, <2>2
<1>2. Shaped(v) /\ SameDirs(v.files, w.files)
  <2>1. Like(v, w)
    BY WriteLike
  <2>2. QED
    BY <2>1, LikeIsShaped DEF Like
<1>3. /\ v.files = [w.files EXCEPT ![c].data = d]
      /\ v.fam = [w.fam EXCEPT !.pos = @ + Len(units)]
      /\ v.wrote = w.wrote /\ v.clock = w.clock
  BY <1>1 DEF Write, WorkFields
<1> HIDE DEF v, d
<1>4. SameMemory(v, w) /\ v.fam.pos = w.fam.pos + Len(units)
  BY <1>1, <1>3 DEF SameMemory, FamFields
<1>5. Len(v.files) = Len(w.files)
  BY <1>2 DEF SameDirs
<1>6. \A i \in 1..Len(w.files) : i # c => v.files[i] = w.files[i]
  BY <1>1, <1>3
<1>7. /\ v.files[c].data = d /\ v.files[c].dir = w.files[c].dir
      /\ v.files[c].commit_count = w.files[c].commit_count
  BY <1>1, <1>3 DEF FileFields
<1>8. QED
  BY <1>2, <1>4, <1>5, <1>6, <1>7 DEF v, d

\* fseek moves the stream.
LEMMA SeekEndIs ==
    ASSUME NEW w, Held(w), w.fam.cur_index # NoFile
    PROVE  LET v == SeekEnd(w)
           IN  /\ Held(v) /\ Extends(v, w, "") /\ SameMemory(v, w) /\ v.files = w.files
               /\ v.fam.pos = v.fam.next_free_byte
<1> DEFINE v == SeekEnd(w)
           c == w.fam.cur_index
<1>1. Shaped(w) /\ Laid(w) /\ Streamed(w) /\ Stated(w)
  BY DEF Held
<1>2. DOMAIN w = WorkFields /\ DOMAIN w.fam = FamFields /\ IsSeq(w.files[c].data)
  <2>1. DOMAIN w = WorkFields /\ DOMAIN w.fam = FamFields /\ Len(w.files) \in Nat
    BY <1>1, WorkFacts
  <2>2. c \in 1..Len(w.files)
    BY <1>1, <2>1 DEF Streamed, NoFile
  <2>3. IsSeq(w.files[c].data)
    BY <1>1, <2>2 DEF Laid, Filed, Layout
  <2>4. QED
    BY <2>1, <2>3
<1>3. Shaped(v)
  BY <1>1, SeekEndLike, LikeIsShaped
<1>4. SameMemory(v, w) /\ v.files = w.files /\ v.fam.pos = Len(w.files[c].data)
  BY <1>2 DEF SeekEnd, SameMemory, Size, WorkFields, FamFields
<1> HIDE DEF v
<1>5. Laid(v) /\ Stated(v)
  BY <1>1, <1>4 DEF Laid, Stated, SameMemory, EntriesOf
<1>6. Streamed(v) /\ v.fam.pos = v.fam.next_free_byte
  <2>1. /\ c \in 0..Len(w.files) /\ w.fam.next_free_byte = Len(w.files[c].data)
        /\ Len(w.files[c].data) \in Nat
    BY <1>1, <1>2 DEF Streamed, IsSeq
  <2>2. /\ v.fam.cur_index = c /\ v.fam.next_free_byte = w.fam.next_free_byte
        /\ Len(v.files) = Len(w.files) /\ v.files[c] = w.files[c]
    BY <1>4 DEF SameMemory
  <2> HIDE DEF c
  <2>3. v.fam.pos \in 0..Len(w.files[c].data)
    BY <1>4, <2>1
  <2>4. QED
    BY <1>4, <2>1, <2>2, <2>3 DEF Streamed
<1>7. Extends(v, w, "")
  BY <1>1, <1>4, ExtendsSame DEF SameMemory
<1>8. QED
  BY <1>3, <1>4, <1>5, <1>6, <1>7 DEF Held, v

\* What is at work is the last file, which is not committed.
LEMMA AtWorkIs ==
    ASSUME NEW w, Shaped(w), AtWork(w)
    PROVE  /\ w.fam.cur_index = Len(w.files) /\ Len(w.files) \in 1..Len(w.files)
           /\ w.fam.cur_index # NoFile
           /\ w.files[Len(w.files)].commit_count = 0
           /\ w.fam.directory[Len(w.files)].commit_count = 0
<1> DEFINE n == Len(w.files)
<1>1. n \in Nat /\ n >= 1 /\ Len(w.fam.directory) = n
  BY WorkFacts
<1>2. \A i \in 1..n : w.files[i].commit_count = w.fam.directory[i].commit_count
  BY WorkFacts
<1>3. w.fam.cur_index = n /\ w.fam.directory[n].commit_count = 0
  BY <1>1 DEF AtWork, Uncommitted, LastDir, file_count
<1> HIDE DEF n
<1>4. n \in 1..n /\ n # 0
  BY <1>1
<1>5. QED
  BY <1>2, <1>3, <1>4 DEF NoFile, n

\* The units of a file that ends with those written behind b, and what of these
\* belongs to an entry.
EndsWith(d, b, units) ==
    /\ IsSeq(d) /\ Len(d) = b + Len(units)
    /\ \A u \in 1..Len(units) : d[b + u] = units[u]
TakenFrom(t, e, b, units) ==
    /\ IsSeq(t) /\ Len(t) = e.length
    /\ \A u \in 1..e.length : t[u] = units[(e.offset - b) + u]

\* What was written behind b for an entry is what the entry names.
LEMMA UnitsWritten ==
    ASSUME NEW b \in Nat, NEW units, IsSeq(units), NEW d, EndsWith(d, b, units),
           NEW e, Fits(e, Len(d)), e.offset >= b, NEW t, TakenFrom(t, e, b, units)
    PROVE  t = UnitsOf(d, e)
<1> DEFINE o == e.offset
           z == Len(units)
<1>0. /\ IsSeq(d) /\ Len(d) = b + z
      /\ \A u \in 1..z : d[b + u] = units[u]
      /\ IsSeq(t) /\ Len(t) = e.length
      /\ \A u \in 1..e.length : t[u] = units[(o - b) + u]
  BY DEF EndsWith, TakenFrom
<1>1. e.offset \in Nat /\ e.length \in Nat /\ e.offset + e.length <= Len(d) /\ Len(d) \in Nat
  BY <1>0, FitsTyped DEF IsSeq
<1>2. z \in Nat
  BY DEF IsSeq
<1>3. ASSUME NEW u \in 1..e.length
      PROVE  d[o + u] = t[u]
  <2>1. PICK k \in 1..z : k = (o - b) + u
    <3>1. o \in Nat /\ o >= b /\ o + e.length <= b + z
      BY <1>0, <1>1
    <3> HIDE DEF o, z
    <3>2. (o - b) + u \in 1..z
      BY <1>1, <1>2, <3>1
    <3>3. QED
      BY <3>2
  <2>2. o + u = b + k
    BY <1>1, <2>1
  <2>3. QED
    BY <1>0, <2>1, <2>2
<1>4. UnitsOf(d, e) = t
  <2>1. \A u \in 1..e.length : d[e.offset + u] = t[u]
    BY <1>3
  <2>2. UnitsOf(d, e) = [u \in 1..e.length |-> d[e.offset + u]]
    BY <1>1, UnitsHere
  <2>3. UnitsOf(d, e) = [u \in 1..e.length |-> t[u]]
    BY <2>1, <2>2
  <2>4. t = [u \in 1..Len(t) |-> t[u]]
    BY <1>0 DEF IsSeq
  <2>5. QED
    BY <1>0, <2>3, <2>4
<1>5. QED
  BY <1>4

\* A write at the end of a file.
LEMMA PutAtEnd ==
    ASSUME NEW data, IsSeq(data), NEW units, IsSeq(units)
    PROVE  LET d == Put(data, Len(data), units)
           IN  /\ EndsWith(d, Len(data), units) /\ IsSeq(d)
               /\ Len(d) = Len(data) + Len(units) /\ Len(d) >= Len(data)
               /\ \A u \in 1..Len(data) : d[u] = data[u]
<1> DEFINE b == Len(data)
           d == Put(data, b, units)
<1>1. b \in Nat /\ Len(units) \in Nat
  BY DEF IsSeq
<1> DEFINE z == Len(units)
<1>2. /\ IsSeq(d) /\ Len(d) = IF b + z > b THEN b + z ELSE b
      /\ \A u \in 1..Len(d) : d[u] = IF u > b /\ u <= b + z THEN units[u - b] ELSE data[u]
  <2>1. IsPut(d, data, b, units)
    BY <1>1, PutUnits
  <2> HIDE DEF d
  <2>2. QED
    BY <2>1 DEF IsPut
<1> HIDE DEF z, b, d
<1>3. z \in Nat /\ Len(d) = b + z
  BY <1>1, <1>2 DEF z
<1>4. ASSUME NEW u \in 1..z
      PROVE  d[b + u] = units[u]
  <2>1. /\ b + u \in 1..Len(d) /\ b + u > b /\ b + u <= b + z
        /\ (b + u) - b = u
    BY <1>1, <1>3
  <2>2. QED
    BY <1>2, <2>1
<1>5. \A u \in 1..b : u \in 1..Len(d) /\ ~(u > b)
  BY <1>1, <1>3
<1>6. QED
  BY <1>1, <1>2, <1>3, <1>4, <1>5 DEF EndsWith, z, b, d

(***************************************************************************)
(* New entries, one or many, and their units, at the end of the last file. *)
(***************************************************************************)
\* Entries behind b, and what each has of the units written there.
EntriesFor(new, tok, name, b, units) ==
    /\ IsSeq(new) /\ IsSeq(tok) /\ Len(tok) = Len(new)
    /\ \A k \in 1..Len(new) :
           /\ Fits(new[k], b + Len(units)) /\ new[k].offset >= b /\ new[k].name = name
           /\ TakenFrom(tok[k], new[k], b, units)
    /\ \A k, l \in 1..Len(new) : k < l => new[k].offset + new[k].length <= new[l].offset

\* Entries and history of the files but the last.
SameBefore(v, w, n) ==
    \A i \in 1..n : i # n => EntriesOf(v, i) = EntriesOf(w, i) /\ v.wrote[i] = w.wrote[i]

LEMMA EntriesAdded ==
    ASSUME NEW w, AtEnd(w), NEW v, Shaped(v), AtWork(v), Stated(v), v.clock \in Nat,
           v.fam.names = w.fam.names, Len(v.fam.directory) = Len(w.files),
           IsSeq(v.wrote), Len(v.wrote) = Len(w.files), SameBefore(v, w, Len(w.files)),
           NEW units, IsSeq(units), v.files = Write(w, units).files,
           v.fam.pos = w.fam.next_free_byte + Len(units), v.fam.next_free_byte = v.fam.pos,
           NEW new, NEW tok, NEW name,
           EntriesFor(new, tok, name, w.fam.next_free_byte, units),
           Joined(EntriesOf(w, Len(w.files)), new, EntriesOf(v, Len(w.files))),
           Joined(w.wrote[Len(w.files)], tok, v.wrote[Len(w.files)])
    PROVE  AtEnd(v) /\ Extends(v, w, name)
<1> SUFFICES ASSUME NEW n, n = Len(w.files), NEW b, b = w.fam.next_free_byte
             PROVE  AtEnd(v) /\ Extends(v, w, name)
  OBVIOUS
<1>0. /\ IsSeq(new) /\ IsSeq(tok) /\ Len(tok) = Len(new)
      /\ \A k \in 1..Len(new) :
             /\ Fits(new[k], b + Len(units)) /\ new[k].offset >= b /\ new[k].name = name
             /\ TakenFrom(tok[k], new[k], b, units)
      /\ \A k, l \in 1..Len(new) : k < l => new[k].offset + new[k].length <= new[l].offset
  BY DEF EntriesFor
<1>b. \A i \in 1..n : i # n => EntriesOf(v, i) = EntriesOf(w, i) /\ v.wrote[i] = w.wrote[i]
  BY DEF SameBefore
<1> DEFINE x == Write(w, units)
           data == w.files[n].data
           d == v.files[n].data
           entries == EntriesOf(w, n)
           E == EntriesOf(v, n)
           held == w.wrote[n]
           H == v.wrote[n]
<1>1. Shaped(w) /\ Laid(w) /\ Streamed(w) /\ AtWork(w) /\ w.fam.pos = b
  BY DEF AtEnd, Held
<1>2. /\ n \in 1..n /\ n \in Nat /\ w.fam.cur_index = n /\ w.files[n].commit_count = 0
      /\ Len(entries) \in Nat
  BY <1>1, AtWorkIs, WorkFacts
<1>3. /\ Layout(data, Len(data), entries, held) /\ IsSeq(data) /\ Len(data) \in Nat
      /\ HeaderFree(w.files[1].data, EntriesOf(w, 1)) /\ Len(w.wrote) = n
  <2>1. Filed(w.files[n], entries, held) /\ Room(w.files[n]) = Len(data)
    BY <1>1, <1>2 DEF Laid, Room
  <2>2. QED
    BY <1>1, <2>1 DEF Filed, Layout, Laid, IsSeq
<1>4. b = Len(data)
  BY <1>1, <1>2 DEF Streamed, NoFile
<1>5. /\ Len(v.files) = n /\ \A i \in 1..n : i # n => v.files[i] = w.files[i]
      /\ d = Put(data, b, units) /\ v.files[n].dir = w.files[n].dir
      /\ v.files[n].commit_count = 0
  BY <1>1, <1>2, WriteIs
<1>6. /\ EndsWith(d, b, units) /\ IsSeq(d) /\ Len(d) = b + Len(units) /\ Len(d) >= Len(data)
      /\ \A u \in 1..Len(data) : d[u] = data[u]
  <2> DEFINE y == Put(data, Len(data), units)
  <2>1. IsSeq(data) /\ b = Len(data) /\ d = y
    BY <1>3, <1>4, <1>5
  <2> HIDE DEF data, d
  <2>2. /\ EndsWith(y, Len(data), units) /\ IsSeq(y)
        /\ Len(y) = Len(data) + Len(units) /\ Len(y) >= Len(data)
        /\ \A u \in 1..Len(data) : y[u] = data[u]
    BY <2>1, PutAtEnd
  <2> HIDE DEF y
  <2>3. QED
    BY <2>1, <2>2
<1> HIDE DEF data, d, entries, E, held, H
<1>8. ASSUME NEW k \in 1..Len(new)
      PROVE  /\ Fits(new[k], Len(d)) /\ new[k].offset >= Len(data)
             /\ tok[k] = UnitsOf(d, new[k])
  <2> DEFINE e == new[k]
             t == tok[k]
  <2>1. Fits(e, Len(d)) /\ e.offset >= b /\ TakenFrom(t, e, b, units)
    BY <1>0, <1>6
  <2>2. e.offset \in Nat /\ e.length \in Nat /\ e.offset + e.length <= Len(d)
    BY <2>1, FitsTyped
  <2> HIDE DEF e, t
  <2>3. b \in Nat
    BY <1>3, <1>4
  <2>4. EndsWith(d, b, units)
    BY <1>6
  <2>5. t = UnitsOf(d, e)
    BY <2>1, <2>3, <2>4, UnitsWritten
  <2>6. QED
    BY <1>4, <2>1, <2>5 DEF e, t
<1>9. Layout(d, Len(d), E, H)
  <2>1. Joined(entries, new, E) /\ Joined(held, tok, H)
    BY DEF entries, E, held, H
  <2>2. QED
    BY <1>0, <1>3, <1>6, <1>8, <2>1, LayoutGrows
<1>10. Filed(v.files[n], E, H)
  BY <1>5, <1>9 DEF Filed, Room, d
<1>11. ASSUME n = 1
       PROVE  HeaderFree(v.files[1].data, EntriesOf(v, 1))
  <2>1. Len(data) >= 1 /\ \A j \in 1..Len(entries) : entries[j].offset >= 1
    BY <1>3, <1>11 DEF HeaderFree, data, entries
  <2>2. Joined(entries, new, E)
    BY DEF entries, E
  <2>3. ASSUME NEW j \in 1..Len(E)
        PROVE  E[j].offset >= 1
    <3>1. CASE j <= Len(entries)
      <4>1. j \in 1..Len(entries)
        BY <1>2, <2>2, <3>1 DEF Joined, entries
      <4>2. QED
        BY <2>1, <2>2, <4>1 DEF Joined
    <3>2. CASE ~(j <= Len(entries))
      <4>1. Len(entries) \in Nat /\ Len(new) \in Nat
        BY <1>2 DEF entries, IsSeq
      <4>l. Len(E) = Len(entries) + Len(new)
        BY <2>2 DEF Joined
      <4>m. j - Len(entries) \in 1..Len(new)
        BY <3>2, <4>1, <4>l
      <4>2. PICK k \in 1..Len(new) : k = j - Len(entries)
        BY <4>m
      <4>3. E[j] = new[k]
        <5>1. j = Len(entries) + k
          BY <4>1, <4>2
        <5>2. QED
          BY <2>2, <5>1 DEF Joined
      <4>4. new[k].offset >= b /\ new[k].offset \in Nat
        BY <1>0, FitsTyped
      <4>5. QED
        BY <1>3, <1>4, <2>1, <4>3, <4>4
    <3>3. QED
      BY <3>1, <3>2
  <2>4. Len(d) >= 1
    BY <1>3, <1>6, <2>1 DEF IsSeq
  <2>5. QED
    BY <1>11, <2>3, <2>4 DEF HeaderFree, d, E
<1>12. Laid(v)
  <2>1. n \in 1..Len(w.files)
    BY <1>2
  <2>2. \A i \in 1..Len(w.files) : i # n => /\ v.files[i] = w.files[i]
                                            /\ EntriesOf(v, i) = EntriesOf(w, i)
                                            /\ v.wrote[i] = w.wrote[i]
    BY <1>5, <1>b
  <2>3. Filed(v.files[n], EntriesOf(v, n), v.wrote[n])
    BY <1>10 DEF E, H
  <2>4. /\ Len(v.files) = Len(w.files) /\ Len(v.wrote) = Len(w.wrote)
        /\ n = 1 => HeaderFree(v.files[1].data, EntriesOf(v, 1))
    BY <1>3, <1>5, <1>11
  <2>5. QED
    BY <1>1, <2>1, <2>2, <2>3, <2>4, LaidAt
<1>13. Streamed(v)
  <2>1. v.fam.cur_index = n
    BY <1>5, AtWorkIs
  <2>2. Len(d) \in Nat
    BY <1>6 DEF IsSeq
  <2>3. QED
    BY <1>2, <1>5, <1>6, <2>1, <2>2 DEF Streamed, d
<1>14. Extends(v, w, name)
  <2>1. n \in 1..Len(w.files) /\ Len(v.files) = Len(w.files)
    BY <1>2, <1>5
  <2>2. \A i \in 1..Len(w.files) : i # n => /\ v.files[i] = w.files[i]
                                            /\ EntriesOf(v, i) = EntriesOf(w, i)
                                            /\ v.wrote[i] = w.wrote[i]
    BY <1>5, <1>b
  <2>3. Joined(entries, new, E) /\ Joined(held, tok, H) /\ Len(held) = Len(entries)
    BY <1>3 DEF entries, E, held, H, Layout
  <2>4. Len(entries) \in Nat /\ Len(new) \in Nat
    BY <1>2 DEF entries, IsSeq
  <2>5. Len(E) >= Len(entries)
    BY <2>3, <2>4 DEF Joined
  <2>6. \A j \in 1..Len(entries) : E[j] = entries[j] /\ H[j] = held[j]
    BY <2>3 DEF Joined
  <2>7. ASSUME NEW j \in 1..Len(E), j > Len(entries)
        PROVE  E[j].name = name
    <3>1. PICK k \in 1..Len(new) : j = Len(entries) + k
      <4>1. j - Len(entries) \in 1..Len(new) /\ j = Len(entries) + (j - Len(entries))
        BY <2>3, <2>4, <2>7 DEF Joined
      <4>2. QED
        BY <4>1
    <3>2. E[j] = new[k]
      BY <2>3, <3>1 DEF Joined
    <3>3. QED
      BY <1>0, <3>2
  <2>8. ~(w.files[n].commit_count > 0)
    BY <1>2
  <2> DEFINE A == EntriesOf(v, n)
             B == EntriesOf(w, n)
  <2>9. /\ Len(A) >= Len(B)
        /\ \A j \in 1..Len(B) : A[j] = B[j] /\ v.wrote[n][j] = w.wrote[n][j]
        /\ \A j \in 1..Len(A) : j > Len(B) => A[j].name = name
    BY <2>5, <2>6, <2>7 DEF E, entries, H, held
  <2>10. QED
    BY <1>1, <2>1, <2>2, <2>8, <2>9, ExtendsAt
<1>15. QED
  BY <1>12, <1>13, <1>14 DEF AtEnd, Held

\* Directories with other entries in the last one.
LEMMA EntriesReplaced ==
    ASSUME NEW w, Shaped(w), NEW v, NEW s,
           v.fam.directory = [w.fam.directory EXCEPT ![Len(w.files)].entries = s]
    PROVE  /\ Len(v.fam.directory) = Len(w.files) /\ EntriesOf(v, Len(w.files)) = s
           /\ \A i \in 1..Len(w.files) : i # Len(w.files) => EntriesOf(v, i) = EntriesOf(w, i)
<1> DEFINE n == Len(w.files)
           D == w.fam.directory
           E == v.fam.directory
<1>1. DirsShaped(D) /\ Len(D) = n /\ Len(w.files) = n
  BY WorkFacts DEF Shaped
<1>2. E = [D EXCEPT ![Len(D)].entries = s]
  BY <1>1
<1> HIDE DEF D, E
<1>3. WithEntries(E, D, s)
  BY <1>1, <1>2, NewEntries
<1>4. QED
  BY <1>1, <1>3 DEF WithEntries, EntriesOf, D, E

\* What the entries are.
Kinds  == {"param", "mesh", "svars", "srec"}
Titles == Names \cup {""}

\* add_dir_entry and the write behind it.
LEMMA AddEntryAtEnd ==
    ASSUME NEW w, AtEnd(w), NEW kind \in Kinds, NEW name \in Titles, NEW len \in Nat, len >= 1
    PROVE  LET v == AddEntry(w, kind, name, len)
               n == Len(w.files)
           IN  /\ AtEnd(v) /\ Busy(v) /\ Extends(v, w, name)
               /\ Len(v.files) = n /\ v.clock = w.clock + 1
               /\ Len(EntriesOf(v, n)) = Len(EntriesOf(w, n)) + 1
               /\ EntriesOf(v, n)[Len(EntriesOf(w, n)) + 1].name = name
               /\ v.wrote[n][Len(EntriesOf(w, n)) + 1] = Copies(w.clock + 1, len)
<1> DEFINE n == Len(w.files)
           b == w.fam.next_free_byte
           c == w.clock + 1
           units == Copies(c, len)
           x == Write(w, units)
           e == [kind |-> kind, name |-> name, id |-> 0, offset |-> b, length |-> len]
           entries == EntriesOf(w, n)
           s == Append(entries, e)
           held == w.wrote[n]
           t == Append(held, units)
           v == AddEntry(w, kind, name, len)
<1>1. /\ Shaped(w) /\ Laid(w) /\ Streamed(w) /\ Stated(w) /\ AtWork(w) /\ w.fam.pos = b
  BY DEF AtEnd, Held
<1>2. /\ DOMAIN w = WorkFields /\ DOMAIN w.fam = FamFields /\ Len(w.fam.directory) = n
      /\ n \in 1..n /\ w.fam.cur_index = n /\ IsSeq(entries) /\ Len(entries) \in Nat
  BY <1>1, WorkFacts, AtWorkIs
<1>3. Shaped(v) /\ Busy(v)
  BY <1>1, AddEntryBusy
<1>4. /\ IsSeq(units) /\ Len(units) = len /\ \A u \in 1..len : units[u] = c
  BY CopiesSeq
<1>5. SameMemory(x, w) /\ Shaped(x) /\ x.fam.pos = b + Len(units)
  BY <1>1, <1>2, WriteIs
<1>6. DOMAIN x = WorkFields /\ DOMAIN x.fam = FamFields
  BY <1>5, WorkFacts
<1>7. v = [x EXCEPT !.fam.directory[n].entries = Append(@, e), !.fam.next_free_byte = @ + len,
                    !.wrote[n] = Append(@, units), !.clock = c]
  BY <1>2 DEF AddEntry, file_count
<1>8. w.clock \in Nat /\ IsSeq(w.wrote) /\ DOMAIN w.wrote = 1..n /\ Len(w.wrote) = n
      /\ IsSeq(held) /\ Len(held) = Len(entries)
      /\ b \in Nat
  <2>1. w.clock \in Nat /\ IsSeq(w.wrote) /\ Len(w.wrote) = n
    BY <1>1 DEF Laid
  <2>2. Layout(w.files[n].data, Room(w.files[n]), entries, held)
    BY <1>1, <1>2 DEF Laid, Filed
  <2>3. b = Len(w.files[n].data)
    BY <1>1, <1>2 DEF Streamed, NoFile
  <2>4. DOMAIN w.wrote = 1..n
    BY <2>1 DEF IsSeq
  <2>5. QED
    BY <2>1, <2>2, <2>3, <2>4 DEF Layout, IsSeq
<1> HIDE DEF x, v, e, units, c
<1>9. /\ v.files = x.files
      /\ v.fam.directory = [w.fam.directory EXCEPT ![n].entries = s]
      /\ v.wrote = [w.wrote EXCEPT ![n] = t] /\ v.clock = c
      /\ v.fam.names = w.fam.names /\ v.fam.srecs = w.fam.srecs
      /\ v.fam.pos = b + Len(units) /\ v.fam.next_free_byte = b + len
  <2>0. /\ x.fam.directory = w.fam.directory /\ x.wrote = w.wrote
        /\ x.fam.next_free_byte = b
    BY <1>5 DEF SameMemory
  <2>1. /\ v.files = x.files /\ v.clock = c /\ v.wrote = [x.wrote EXCEPT ![n] = Append(@, units)]
        /\ v.fam = [x.fam EXCEPT !.directory[n].entries = Append(@, e), !.next_free_byte = @ + len]
    BY <1>6, <1>7 DEF WorkFields
  <2>2. /\ v.fam.directory = [x.fam.directory EXCEPT ![n].entries = Append(@, e)]
        /\ v.fam.next_free_byte = x.fam.next_free_byte + len
        /\ v.fam.names = x.fam.names /\ v.fam.srecs = x.fam.srecs /\ v.fam.pos = x.fam.pos
    BY <1>6, <2>1 DEF FamFields
  <2>3. v.fam.directory = [w.fam.directory EXCEPT ![n].entries = s]
    BY <2>0, <2>2 DEF EntriesOf
  <2>4. v.wrote = [w.wrote EXCEPT ![n] = t]
    BY <2>0, <2>1
  <2>5. QED
    BY <1>5, <2>0, <2>1, <2>2, <2>3, <2>4 DEF SameMemory
<1> HIDE DEF s, t, held, entries, n, b
<1>10. /\ Len(v.fam.directory) = n /\ EntriesOf(v, n) = s
       /\ \A i \in 1..n : i # n => EntriesOf(v, i) = EntriesOf(w, i)
  <2>1. v.fam.directory = [w.fam.directory EXCEPT ![Len(w.files)].entries = s]
    BY <1>9 DEF n
  <2>2. QED
    BY <1>1, <2>1, EntriesReplaced DEF n
<1>11. IsSeq(v.wrote) /\ Len(v.wrote) = n /\ v.wrote[n] = t
       /\ \A i \in 1..n : i # n => v.wrote[i] = w.wrote[i]
  <2>1. DOMAIN v.wrote = 1..n /\ v.wrote[n] = t /\ \A i \in 1..n : i # n => v.wrote[i] = w.wrote[i]
    BY <1>2, <1>8, <1>9
  <2>2. v.wrote = [k \in DOMAIN v.wrote |-> v.wrote[k]]
    BY <1>9
  <2>3. IsSeq(v.wrote) /\ Len(v.wrote) = n
    BY <1>8, <2>1, <2>2, ReplaceInSeq
  <2>4. QED
    BY <2>1, <2>3
<1>12. Joined(entries, <<e>>, s) /\ Joined(held, <<units>>, t)
  BY <1>2, <1>8, AppendJoined DEF s, t
<1>13. /\ e \in Entry /\ e.length = len /\ e.offset = b /\ e.name = name
  <2>1. e \in [kind : Kinds, name : Titles, id : Nat, offset : Nat, length : Nat]
    BY <1>8 DEF e
  <2>2. QED
    BY <2>1 DEF e, Entry, Kinds, Titles
<1>14. /\ Fits(e, b + Len(units)) /\ e.offset >= b /\ e.name = name
       /\ TakenFrom(units, e, b, units)
  <2>1. Fits(e, b + Len(units))
    BY <1>4, <1>8, <1>13 DEF Fits
  <2>2. \A u \in 1..len : (b - b) + u = u
    BY <1>8
  <2>3. TakenFrom(units, e, b, units)
    BY <1>4, <1>13, <2>2 DEF TakenFrom
  <2>4. QED
    BY <1>8, <1>13, <2>1, <2>3
<1> DEFINE new == <<e>>
           tok == <<units>>
<1>15. IsSeq(new) /\ Len(new) = 1 /\ new[1] = e /\ IsSeq(tok) /\ Len(tok) = 1 /\ tok[1] = units
  BY OneElement
<1>n. Joined(entries, new, s) /\ Joined(held, tok, t)
  BY <1>12
<1> HIDE DEF new, tok
<1>16. \A k \in 1..Len(new) :
           /\ Fits(new[k], b + Len(units)) /\ new[k].offset >= b /\ new[k].name = name
           /\ TakenFrom(tok[k], new[k], b, units)
  <2>1. TAKE k \in 1..Len(new)
  <2>2. k = 1
    BY <1>15
  <2>3. QED
    BY <1>14, <1>15, <2>2
<1>17. \A k, l \in 1..Len(new) : k < l => new[k].offset + new[k].length <= new[l].offset
  <2>1. \A k, l \in 1..Len(new) : ~(k < l)
    BY <1>15
  <2>2. QED
    BY <2>1
<1>18. EntriesFor(new, tok, name, b, units)
  BY <1>15, <1>16, <1>17 DEF EntriesFor
<1>19. AtEnd(v) /\ Extends(v, w, name)
  <2>1. /\ v.clock \in Nat /\ Stated(v) /\ AtWork(v)
        /\ v.fam.pos = b + Len(units) /\ v.fam.next_free_byte = v.fam.pos
    BY <1>1, <1>3, <1>4, <1>8, <1>9 DEF Stated, Busy, c
  <2>2. v.files = Write(w, units).files
    BY <1>9 DEF x
  <2>3. Joined(EntriesOf(w, n), new, EntriesOf(v, n)) /\ Joined(w.wrote[n], tok, v.wrote[n])
    BY <1>10, <1>11, <1>n DEF entries, held
  <2>4. SameBefore(v, w, n)
    BY <1>10, <1>11 DEF SameBefore
  <2>5. QED
    BY <1>3, <1>4, <1>9, <1>10, <1>11, <1>18, <2>1, <2>2, <2>3, <2>4, EntriesAdded DEF n, b
<1>20. /\ Len(v.files) = n
       /\ Len(EntriesOf(v, n)) = Len(entries) + 1
       /\ EntriesOf(v, n)[Len(entries) + 1].name = name
       /\ v.wrote[n][Len(entries) + 1] = units
  <2>1. Len(v.files) = n
    BY <1>3, <1>10, WorkFacts
  <2>2. 1 \in 1..1
    OBVIOUS
  <2>3. QED
    BY <1>8, <1>10, <1>11, <1>13, <1>15, <1>n, <2>1, <2>2 DEF Joined
<1>21. QED
  BY <1>3, <1>9, <1>19, <1>20 DEF v, n, entries, c, units

\* A step that changes flags and counts in memory only.
LEMMA HeldSame ==
    ASSUME NEW w, Held(w), NEW v, Shaped(v), v.files = w.files, v.wrote = w.wrote,
           v.clock = w.clock, v.fam.directory = w.fam.directory, v.fam.names = w.fam.names,
           v.fam.srecs = w.fam.srecs, v.fam.cur_index = w.fam.cur_index,
           v.fam.pos = w.fam.pos, v.fam.next_free_byte = w.fam.next_free_byte
    PROVE  Held(v) /\ Extends(v, w, "") /\ (AtEnd(w) => AtEnd(v))
<1>1. Laid(v) /\ Streamed(v) /\ Stated(v)
  BY DEF Held, Laid, Streamed, Stated, EntriesOf
<1>2. Extends(v, w, "")
  BY ExtendsSame DEF Held
<1>3. AtWork(w) => AtWork(v)
  BY DEF AtWork, Uncommitted, LastDir, file_count
<1>4. QED
  BY <1>1, <1>2, <1>3 DEF Held, AtEnd

\* commit_svars
LEMMA CommitSvarsAtEnd ==
    ASSUME NEW w, AtEnd(w), Busy(w)
    PROVE  LET v == CommitSvars(w)
           IN  AtEnd(v) /\ Busy(v) /\ Extends(v, w, "") /\ ~v.fam.svars_fresh
<1>1. Shaped(w) /\ Shaped(CommitSvars(w)) /\ Busy(CommitSvars(w)) /\ ~CommitSvars(w).fam.svars_fresh
  BY CommitSvarsBusy DEF AtEnd, Held
<1>2. CASE w.fam.svars_fresh
  <2> DEFINE x == AddEntry(w, "svars", "", 1)
             v == [x EXCEPT !.fam.svars_fresh = FALSE]
  <2>1. v = CommitSvars(w)
    BY <1>2 DEF CommitSvars
  <2>2. "svars" \in Kinds /\ "" \in Titles
    BY DEF Kinds, Titles
  <2>k. 1 \in Nat /\ 1 >= 1
    OBVIOUS
  <2>3. AtEnd(x) /\ Extends(x, w, "")
    BY <2>2, <2>k, AddEntryAtEnd
  <2> HIDE DEF x, v
  <2>4. DOMAIN x = WorkFields /\ DOMAIN x.fam = FamFields /\ Shaped(x)
    BY <2>3, WorkFacts DEF AtEnd, Held
  <2>5. /\ v.files = x.files /\ v.wrote = x.wrote /\ v.clock = x.clock
        /\ v.fam = [x.fam EXCEPT !.svars_fresh = FALSE]
    BY <2>4 DEF v, WorkFields
  <2>6. /\ v.fam.directory = x.fam.directory /\ v.fam.names = x.fam.names
        /\ v.fam.srecs = x.fam.srecs /\ v.fam.cur_index = x.fam.cur_index
        /\ v.fam.pos = x.fam.pos /\ v.fam.next_free_byte = x.fam.next_free_byte
    BY <2>4, <2>5 DEF FamFields
  <2>7. Held(x) /\ Shaped(v)
    BY <1>1, <2>1, <2>3 DEF AtEnd
  <2>8. AtEnd(v) /\ Extends(v, x, "")
    BY <2>3, <2>5, <2>6, <2>7, HeldSame
  <2>9. Extends(v, w, "")
    BY <1>1, <2>3, <2>4, <2>7, <2>8, ExtendsOn
  <2>10. QED
    BY <1>1, <2>1, <2>8, <2>9
<1>3. CASE ~w.fam.svars_fresh
  <2>1. CommitSvars(w) = w
    BY <1>3 DEF CommitSvars
  <2>2. Extends(w, w, "")
    BY <1>1, ExtendsSame
  <2>3. QED
    BY <1>1, <2>1, <2>2
<1>4. QED
  BY <1>2, <1>3

\* A finite set of numbers has a k-th smallest, for every k up to their number.
LEMMA NthIn ==
    ASSUME NEW m \in Nat, NEW S, S \subseteq 1..m, NEW k \in Nat, k >= 1, k <= Cardinality(S)
    PROVE  Nth(S, k) \in S
<1> DEFINE Below(i) == {j \in S : j <= i}
           U == {i \in 0..m : Cardinality(Below(i)) >= k}
<1>1. IsFiniteSet(S)
  <2>1. IsFiniteSet(1..m)
    BY FS_Interval
  <2>2. QED
    BY <2>1, FS_Subset
<1>2. \A i : IsFiniteSet(Below(i)) /\ Cardinality(Below(i)) \in Nat
  <2>1. TAKE i
  <2>2. Below(i) \in SUBSET S
    OBVIOUS
  <2> HIDE DEF Below
  <2>3. QED
    BY <1>1, <2>2, FS_Subset, FS_CardinalityType
<1>s. \A j \in S : j \in Nat /\ j >= 1 /\ j <= m
  OBVIOUS
<1>3. m \in U
  <2>1. Below(m) = S
    BY <1>s
  <2>2. m \in 0..m
    OBVIOUS
  <2> HIDE DEF Below
  <2>3. QED
    BY <2>1, <2>2
<1>4. PICK i \in U : \A j \in U : ~(<<j, i>> \in OpToRel(<, Nat))
  <2>1. U \subseteq Nat
    OBVIOUS
  <2> HIDE DEF U
  <2>2. QED
    BY <1>3, <2>1, NatLessThanWellFounded, WFMin
<1>5. i \in 0..m /\ Cardinality(Below(i)) >= k
  OBVIOUS
<1>6. i # 0
  <2>1. SUFFICES ASSUME i = 0 PROVE FALSE
    OBVIOUS
  <2>2. Below(0) = {}
    <3>1. \A j \in S : ~(j <= 0)
      BY <1>s
    <3>2. QED
      BY <3>1
  <2>3. Cardinality({}) = 0
    BY FS_EmptySet
  <2> HIDE DEF Below
  <2>4. Cardinality(Below(i)) = 0
    BY <2>1, <2>2, <2>3
  <2>5. QED
    BY <1>5, <2>4
<1>7. i - 1 \in 0..m
  BY <1>5, <1>6
<1>8. Cardinality(Below(i - 1)) < k
  <2>1. i - 1 \notin U
    <3>1. SUFFICES ASSUME i - 1 \in U PROVE FALSE
      OBVIOUS
    <3>2. <<i - 1, i>> \in OpToRel(<, Nat)
      BY <1>5, <1>7 DEF OpToRel
    <3> HIDE DEF U
    <3>3. QED
      BY <1>4, <3>1, <3>2
  <2> HIDE DEF Below
  <2>2. ~(Cardinality(Below(i - 1)) >= k)
    BY <1>7, <2>1
  <2>3. Cardinality(Below(i - 1)) \in Nat
    BY <1>2
  <2>4. QED
    BY <2>2, <2>3
<1>9. i \in S
  <2>1. SUFFICES ASSUME i \notin S PROVE FALSE
    OBVIOUS
  <2>2. Below(i) = Below(i - 1)
    <3>1. \A j \in S : j <= i <=> j <= i - 1
      BY <1>5, <1>s, <2>1
    <3>2. QED
      BY <3>1
  <2> HIDE DEF Below
  <2>3. Cardinality(Below(i)) \in Nat
    BY <1>2
  <2>4. QED
    BY <1>5, <1>8, <2>2, <2>3
<1>10. Cardinality(Below(i)) = k
  <2>1. Below(i) = Below(i - 1) \cup {i} /\ i \notin Below(i - 1)
    <3>1. \A j \in S : j <= i <=> j <= i - 1 \/ j = i
      BY <1>5, <1>s
    <3>2. ~(i <= i - 1) /\ i <= i
      BY <1>5
    <3>3. QED
      BY <1>9, <3>1, <3>2
  <2> HIDE DEF Below
  <2>2. Cardinality(Below(i)) = Cardinality(Below(i - 1)) + 1
    BY <1>2, <2>1, FS_AddElement
  <2>3. Cardinality(Below(i - 1)) \in Nat
    BY <1>2
  <2>4. QED
    BY <1>5, <1>8, <2>2, <2>3
<1>11. QED
  BY <1>9, <1>10 DEF Nth

\* The directory entry of a format.
Untitled == ""
FormatEntry(i, o) == [kind |-> "srec", name |-> Untitled, id |-> i, offset |-> o, length |-> 1]

\* What it is made of.
LEMMA FormatEntryIs ==
    ASSUME NEW i \in Nat, NEW o \in Nat
    PROVE  LET e == FormatEntry(i, o)
           IN  e \in Entry /\ e.offset = o /\ e.length = 1 /\ e.name = Untitled
<1> DEFINE e == FormatEntry(i, o)
<1>1. e \in [kind : Kinds, name : Titles, id : Nat, offset : Nat, length : Nat]
  <2>1. 1 \in Nat /\ "srec" \in Kinds /\ Untitled \in Titles
    BY DEF Kinds, Titles, Untitled
  <2>2. QED
    BY <2>1 DEF FormatEntry
<1>2. e.offset = o /\ e.length = 1 /\ e.name = Untitled
  BY DEF FormatEntry
<1>3. e \in Entry
  BY <1>1 DEF Entry, Kinds, Titles
<1>4. QED
  BY <1>2, <1>3

\* The units, the entries and the history of commit_srecs.
Tokens(c, qty) == [k \in 1..qty |-> c + k]
FormatDir(id, b, qty) == [k \in 1..qty |-> FormatEntry(id[k], b + k - 1)]
Singles(c, qty) == [k \in 1..qty |-> <<c + k>>]
Numbered(id, qty) == qty \in Nat /\ \A k \in 1..qty : id[k] \in Nat

\* They fit together: one unit for each entry, behind b.
LEMMA FormatEntries ==
    ASSUME NEW qty, NEW b \in Nat, NEW c \in Nat, NEW id, Numbered(id, qty)
    PROVE  /\ EntriesFor(FormatDir(id, b, qty), Singles(c, qty), Untitled, b, Tokens(c, qty))
           /\ IsSeq(Tokens(c, qty)) /\ Len(Tokens(c, qty)) = qty
<1> SUFFICES ASSUME qty \in Nat, \A k \in 1..qty : id[k] \in Nat,
                     NEW units, units = [k \in 1..qty |-> c + k],
                      NEW new, new = [k \in 1..qty |-> FormatEntry(id[k], b + k - 1)],
                      NEW tok, tok = [k \in 1..qty |-> <<c + k>>]
               PROVE  EntriesFor(new, tok, Untitled, b, units) /\ IsSeq(units) /\ Len(units) = qty
  BY DEF Tokens, FormatDir, Singles, Numbered
<1>1. /\ units = [k \in 1..qty |-> units[k]] /\ new = [k \in 1..qty |-> new[k]]
      /\ tok = [k \in 1..qty |-> tok[k]]
      /\ \A k \in 1..qty : /\ units[k] = c + k /\ tok[k] = <<c + k>>
                           /\ new[k] = FormatEntry(id[k], b + k - 1)
  OBVIOUS
<1>2. /\ IsSeq(units) /\ Len(units) = qty /\ IsSeq(new) /\ Len(new) = qty
      /\ IsSeq(tok) /\ Len(tok) = qty
  <2>1. IsSeq(units) /\ Len(units) = qty
    BY <1>1, FunctionSeq
  <2>2. IsSeq(new) /\ Len(new) = qty
    BY <1>1, FunctionSeq
  <2>3. IsSeq(tok) /\ Len(tok) = qty
    BY <1>1, FunctionSeq
  <2>4. QED
    BY <2>1, <2>2, <2>3
<1>3. ASSUME NEW k \in 1..qty
      PROVE  /\ Fits(new[k], b + qty) /\ new[k].offset >= b /\ new[k].name = Untitled
             /\ new[k].offset = b + k - 1 /\ new[k].length = 1
             /\ TakenFrom(tok[k], new[k], b, units)
  <2> DEFINE e == new[k]
             o == b + k - 1
  <2>1. e = FormatEntry(id[k], o)
    BY <1>1
  <2>2. o \in Nat /\ o >= b /\ o + 1 <= b + qty /\ (o - b) + 1 = k
    OBVIOUS
  <2>3. id[k] \in Nat
    OBVIOUS
  <2> HIDE DEF o
  <2>5. e \in Entry /\ e.offset = o /\ e.length = 1 /\ e.name = Untitled
    BY <2>1, <2>2, <2>3, FormatEntryIs
  <2> HIDE DEF e
  <2>7. Fits(e, b + qty)
    BY <2>2, <2>5 DEF Fits
  <2>8. TakenFrom(tok[k], e, b, units)
    <3>1. tok[k] = <<c + k>> /\ units[k] = c + k
      BY <1>1
    <3>2. IsSeq(tok[k]) /\ Len(tok[k]) = 1 /\ tok[k][1] = c + k
      BY <3>1, OneElement
    <3>3. \A u \in 1..1 : u = 1
      OBVIOUS
    <3>4. \A u \in 1..e.length : tok[k][u] = units[(e.offset - b) + u]
      BY <2>2, <2>5, <3>1, <3>2, <3>3
    <3>5. QED
      BY <2>5, <3>2, <3>4 DEF TakenFrom
  <2>9. QED
    BY <2>2, <2>5, <2>7, <2>8 DEF e, o
<1>4. \A k, l \in 1..qty : k < l => new[k].offset + new[k].length <= new[l].offset
  <2>1. TAKE k, l \in 1..qty
  <2>2. /\ new[k].offset = b + k - 1 /\ new[k].length = 1
        /\ new[l].offset = b + l - 1
    BY <1>3
  <2>3. k < l => (b + k - 1) + 1 <= b + l - 1
    OBVIOUS
  <2>4. QED
    BY <2>2, <2>3
<1>5. QED
  BY <1>2, <1>3, <1>4 DEF EntriesFor

\* The ids of the formats that wait in memory.
LEMMA FreshIds ==
    ASSUME NEW w, Shaped(w)
    PROVE  LET fresh == FreshFormats(w)
               qty == Cardinality(fresh)
           IN  qty \in Nat /\ \A k \in 1..qty : Nth(fresh, k) \in Nat
<1> DEFINE m == Len(w.fam.srecs)
           fresh == FreshFormats(w)
           qty == Cardinality(fresh)
<1>1. m \in Nat /\ w.fam.commit_max \in Nat
  BY DEF Shaped, IsSeq
<1>2. fresh \subseteq w.fam.commit_max + 1 .. m
  BY DEF FreshFormats
<1>3. qty \in Nat
  BY FreshFinite
<1> HIDE DEF fresh, m, qty
<1>4. fresh \subseteq 1..m
  BY <1>1, <1>2
<1>5. ASSUME NEW k \in 1..qty
      PROVE  Nth(fresh, k) \in Nat
  <2>1. k \in Nat /\ k >= 1 /\ k <= Cardinality(fresh)
    BY <1>3 DEF qty
  <2> DEFINE z == Nth(fresh, k)
  <2>2. z \in fresh
    BY <1>1, <1>4, <2>1, NthIn
  <2> HIDE DEF z
  <2>3. z \in 1..m
    BY <1>4, <2>2
  <2>4. z \in Nat
    BY <1>1, <2>3
  <2>5. QED
    BY <2>4 DEF z
<1>6. QED
  BY <1>3, <1>5 DEF qty, fresh

\* commit_srecs
LEMMA CommitSrecsAtEnd ==
    ASSUME NEW w, AtEnd(w), Busy(w)
    PROVE  LET v == CommitSrecs(w)
           IN  AtEnd(v) /\ Busy(v) /\ Extends(v, w, "") /\ v.fam.svars_fresh = w.fam.svars_fresh
<1> DEFINE n == Len(w.files)
           b == w.fam.next_free_byte
           c == w.clock
           fresh == FreshFormats(w)
           qty == Cardinality(fresh)
           id == [k \in 1..qty |-> Nth(fresh, k)]
           units == [k \in 1..qty |-> c + k]
           entry(k) == [kind |-> "srec", name |-> "", id |-> Nth(fresh, k),
                        offset |-> b + k - 1, length |-> 1]
           new == [k \in 1..qty |-> entry(k)]
           tok == [k \in 1..qty |-> <<c + k>>]
           x == Write(w, units)
           entries == EntriesOf(w, n)
           held == w.wrote[n]
           s == entries \o new
           t == held \o tok
           v == CommitSrecs(w)
<1>1. /\ Shaped(w) /\ Laid(w) /\ Streamed(w) /\ Stated(w) /\ AtWork(w) /\ w.fam.pos = b
  BY DEF AtEnd, Held
<1>2. /\ DOMAIN w = WorkFields /\ DOMAIN w.fam = FamFields /\ Len(w.fam.directory) = n
      /\ n \in 1..n /\ w.fam.cur_index = n /\ IsSeq(entries) /\ Len(entries) \in Nat
      /\ IsSeq(w.fam.srecs)
  BY <1>1, WorkFacts, AtWorkIs
<1>3. Shaped(v) /\ Busy(v) /\ v.fam.svars_fresh = w.fam.svars_fresh
  BY <1>1, CommitSrecsBusy
<1>4. c \in Nat /\ IsSeq(w.wrote) /\ DOMAIN w.wrote = 1..n /\ Len(w.wrote) = n
      /\ IsSeq(held) /\ Len(held) = Len(entries) /\ b \in Nat
  <2>1. c \in Nat /\ IsSeq(w.wrote) /\ Len(w.wrote) = n
    BY <1>1 DEF Laid
  <2>2. Layout(w.files[n].data, Room(w.files[n]), entries, held)
    BY <1>1, <1>2 DEF Laid, Filed
  <2>3. b = Len(w.files[n].data)
    BY <1>1, <1>2 DEF Streamed, NoFile
  <2>4. DOMAIN w.wrote = 1..n
    BY <2>1 DEF IsSeq
  <2>5. QED
    BY <2>1, <2>2, <2>3, <2>4 DEF Layout, IsSeq
<1>5. qty \in Nat /\ \A k \in 1..qty : Nth(fresh, k) \in Nat
  BY <1>1, FreshIds
<1>6. x = Write(w, [k \in 1..qty |-> w.clock + k])
  OBVIOUS
<1>7. v = [x EXCEPT !.fam.directory[n].entries = @ \o new,
                    !.fam.next_free_byte = @ + qty,
                    !.fam.srecs = [i \in DOMAIN @ |-> IF i \in fresh THEN "saved" ELSE @[i]],
                    !.fam.commit_max = Len(w.fam.srecs),
                    !.wrote[n] = @ \o tok,
                    !.clock = @ + qty]
  BY <1>2 DEF CommitSrecs, file_count
<1> HIDE DEF fresh, qty
<1>8. EntriesFor(new, tok, "", b, units) /\ IsSeq(units) /\ Len(units) = qty
  <2>1. Numbered(id, qty)
    BY <1>5 DEF Numbered
  <2>2. new = FormatDir(id, b, qty)
    BY DEF FormatEntry, Untitled, FormatDir
  <2>3. units = Tokens(c, qty) /\ tok = Singles(c, qty)
    BY DEF Tokens, Singles
  <2>4. b \in Nat /\ c \in Nat
    BY <1>4
  <2> HIDE DEF id, b, c, new, units, tok
  <2>5. /\ EntriesFor(FormatDir(id, b, qty), Singles(c, qty), Untitled, b, Tokens(c, qty))
        /\ IsSeq(Tokens(c, qty)) /\ Len(Tokens(c, qty)) = qty
    BY <2>1, <2>4, FormatEntries
  <2>6. QED
    BY <2>2, <2>3, <2>5 DEF Untitled
<1>9. IsSeq(new) /\ IsSeq(tok)
  BY <1>8 DEF EntriesFor
<1> HIDE DEF id, units, new, tok
<1>10. SameMemory(x, w) /\ Shaped(x) /\ x.fam.pos = b + Len(units)
  BY <1>1, <1>2, WriteIs
<1>11. DOMAIN x = WorkFields /\ DOMAIN x.fam = FamFields
  BY <1>10, WorkFacts
<1> HIDE DEF x, v
<1>12. /\ v.files = x.files
       /\ v.fam.directory = [w.fam.directory EXCEPT ![n].entries = s]
       /\ v.wrote = [w.wrote EXCEPT ![n] = t] /\ v.clock = c + qty
       /\ v.fam.names = w.fam.names
       /\ v.fam.pos = b + Len(units) /\ v.fam.next_free_byte = b + qty
       /\ v.fam.srecs = [i \in DOMAIN w.fam.srecs |->
                            IF i \in fresh THEN "saved" ELSE w.fam.srecs[i]]
  <2>0. /\ x.fam.directory = w.fam.directory /\ x.wrote = w.wrote /\ x.clock = c
        /\ x.fam.next_free_byte = b /\ x.fam.srecs = w.fam.srecs /\ x.fam.names = w.fam.names
    BY <1>10 DEF SameMemory
  <2>1. /\ v.files = x.files /\ v.clock = x.clock + qty
        /\ v.wrote = [x.wrote EXCEPT ![n] = @ \o tok]
        /\ v.fam = [x.fam EXCEPT !.directory[n].entries = @ \o new,
                                 !.next_free_byte = @ + qty,
                                 !.srecs = [i \in DOMAIN @ |-> IF i \in fresh THEN "saved" ELSE @[i]],
                                 !.commit_max = Len(w.fam.srecs)]
    BY <1>7, <1>11 DEF WorkFields
  <2>2. /\ v.fam.directory = [x.fam.directory EXCEPT ![n].entries = @ \o new]
        /\ v.fam.next_free_byte = x.fam.next_free_byte + qty
        /\ v.fam.names = x.fam.names /\ v.fam.pos = x.fam.pos
    BY <1>11, <2>1 DEF FamFields
  <2>3. v.fam.srecs = [i \in DOMAIN x.fam.srecs |->
                          IF i \in fresh THEN "saved" ELSE x.fam.srecs[i]]
    BY <1>11, <2>1 DEF FamFields
  <2>4. v.fam.directory = [w.fam.directory EXCEPT ![n].entries = s]
    BY <2>0, <2>2 DEF EntriesOf
  <2>5. v.wrote = [w.wrote EXCEPT ![n] = t]
    BY <2>0, <2>1
  <2>6. QED
    BY <1>10, <2>0, <2>1, <2>2, <2>3, <2>4, <2>5
<1>13. Stated(v)
  <2> DEFINE r == w.fam.srecs
             q == v.fam.srecs
  <2>1. IsSeq(r) /\ DOMAIN r = 1..Len(r) /\ \A i \in 1..Len(r) : r[i] \in Statuses
    BY <1>1, <1>2 DEF Stated, IsSeq
  <2>2. q = [i \in DOMAIN r |-> IF i \in fresh THEN "saved" ELSE r[i]]
    BY <1>12
  <2> HIDE DEF r, q
  <2>3. /\ DOMAIN q = 1..Len(r) /\ q = [k \in DOMAIN q |-> q[k]]
        /\ \A i \in 1..Len(r) : q[i] = IF i \in fresh THEN "saved" ELSE r[i]
    BY <2>1, <2>2
  <2>4. Len(q) = Len(r)
    BY <2>1, <2>3, ReplaceInSeq
  <2>5. \A i \in 1..Len(q) : q[i] \in Statuses
    BY <2>1, <2>3, <2>4 DEF Statuses
  <2>6. QED
    BY <2>5 DEF Stated, q
<1> HIDE DEF s, t, held, entries, n, b, c
<1>14. /\ Len(v.fam.directory) = n /\ EntriesOf(v, n) = s
       /\ \A i \in 1..n : i # n => EntriesOf(v, i) = EntriesOf(w, i)
  <2>1. v.fam.directory = [w.fam.directory EXCEPT ![Len(w.files)].entries = s]
    BY <1>12 DEF n
  <2>2. QED
    BY <1>1, <2>1, EntriesReplaced DEF n
<1>15. IsSeq(v.wrote) /\ Len(v.wrote) = n /\ v.wrote[n] = t
       /\ \A i \in 1..n : i # n => v.wrote[i] = w.wrote[i]
  <2>1. DOMAIN v.wrote = 1..n /\ v.wrote[n] = t /\ \A i \in 1..n : i # n => v.wrote[i] = w.wrote[i]
    BY <1>2, <1>4, <1>12
  <2>2. v.wrote = [k \in DOMAIN v.wrote |-> v.wrote[k]]
    BY <1>12
  <2>3. IsSeq(v.wrote) /\ Len(v.wrote) = n
    BY <1>4, <2>1, <2>2, ReplaceInSeq
  <2>4. QED
    BY <2>1, <2>3
<1>16. Joined(entries, new, s) /\ Joined(held, tok, t)
  BY <1>2, <1>4, <1>9, ConcatJoined DEF s, t
<1>17. AtEnd(v) /\ Extends(v, w, "")
  <2>1. /\ v.clock \in Nat /\ AtWork(v)
        /\ v.fam.pos = b + Len(units) /\ v.fam.next_free_byte = v.fam.pos
    <3>1. v.clock = c + qty /\ v.fam.pos = b + Len(units) /\ v.fam.next_free_byte = b + qty
      BY <1>12
    <3>2. c + qty \in Nat
      BY <1>4, <1>5
    <3>3. QED
      BY <1>3, <1>8, <3>1, <3>2 DEF Busy
  <2>2. v.files = Write(w, units).files
    BY <1>12 DEF x
  <2>3. Joined(EntriesOf(w, n), new, EntriesOf(v, n)) /\ Joined(w.wrote[n], tok, v.wrote[n])
    BY <1>14, <1>15, <1>16 DEF entries, held
  <2>4. SameBefore(v, w, n)
    BY <1>14, <1>15 DEF SameBefore
  <2>5. QED
    BY <1>3, <1>8, <1>12, <1>13, <1>14, <1>15, <2>1, <2>2, <2>3, <2>4, EntriesAdded DEF n, b
<1>18. QED
  BY <1>3, <1>17 DEF v

-----------------------------------------------------------------------------
(***************************************************************************)
(* Committing and closing.                                                 *)
(***************************************************************************)
\* commit_dir: the last file ends in its directory, behind its entries.
LEMMA CommitDirHeld ==
    ASSUME NEW w, AtEnd(w), Busy(w)
    PROVE  LET v == [CommitDir(w) EXCEPT !.fam.commit_count = @ + 1,
                                         !.fam.non_state_ready = FALSE]
           IN  Held(v) /\ Extends(v, w, "")
<1> SUFFICES ASSUME NEW n, n = Len(w.files), NEW b, b = w.fam.next_free_byte
             PROVE  LET v == [CommitDir(w) EXCEPT !.fam.commit_count = @ + 1,
                                                  !.fam.non_state_ready = FALSE]
                    IN  Held(v) /\ Extends(v, w, "")
  OBVIOUS
<1> DEFINE x == Write(w, <<DIR>>)
           y == CommitDir(w)
           v == [y EXCEPT !.fam.commit_count = @ + 1, !.fam.non_state_ready = FALSE]
           c == w.fam.commit_count + 1
           data == w.files[n].data
           d == Put(data, b, <<DIR>>)
           entries == EntriesOf(w, n)
           held == w.wrote[n]
<1>1. Shaped(w) /\ Laid(w) /\ Streamed(w) /\ Stated(w) /\ AtWork(w) /\ w.fam.pos = b
  BY DEF AtEnd, Held
<1>2. /\ n \in 1..n /\ n \in Nat /\ w.fam.cur_index = n /\ w.files[n].commit_count = 0
      /\ DOMAIN w = WorkFields /\ DOMAIN w.fam = FamFields
      /\ Len(w.fam.directory) = n /\ DOMAIN w.fam.directory = 1..n
  <2>1. IsSeq(w.fam.directory) /\ Len(w.fam.directory) = n
    BY <1>1, WorkFacts
  <2>2. DOMAIN w.fam.directory = 1..n
    BY <2>1 DEF IsSeq
  <2>3. QED
    BY <1>1, <2>1, <2>2, AtWorkIs, WorkFacts
<1>3. /\ Layout(data, Len(data), entries, held) /\ IsSeq(data) /\ Len(data) \in Nat
      /\ HeaderFree(w.files[1].data, EntriesOf(w, 1))
  <2>1. Filed(w.files[n], entries, held) /\ Room(w.files[n]) = Len(data)
    BY <1>1, <1>2 DEF Laid, Room
  <2>2. QED
    BY <1>1, <2>1 DEF Filed, Layout, Laid, IsSeq
<1>4. b = Len(data)
  BY <1>1, <1>2 DEF Streamed, NoFile
<1>5. /\ Shaped(x) /\ SameMemory(x, w) /\ x.fam.pos = b + 1 /\ Len(x.files) = n
      /\ \A i \in 1..n : i # n => x.files[i] = w.files[i]
      /\ x.files[n].data = d
  <2>1. Len(<<DIR>>) = 1
    BY OneElement
  <2>2. w.fam.cur_index \in 1..Len(w.files)
    BY <1>2
  <2>3. /\ Shaped(x) /\ SameMemory(x, w) /\ x.fam.pos = w.fam.pos + Len(<<DIR>>)
        /\ Len(x.files) = Len(w.files)
        /\ \A i \in 1..Len(w.files) : i # w.fam.cur_index => x.files[i] = w.files[i]
        /\ x.files[w.fam.cur_index].data
             = Put(w.files[w.fam.cur_index].data, w.fam.pos, <<DIR>>)
    BY <1>1, <2>2, WriteIs
  <2> HIDE DEF x
  <2>4. QED
    BY <1>1, <1>2, <2>1, <2>3
<1>6. /\ IsSeq(d) /\ Len(d) = b + 1 /\ d[b + 1] = DIR
      /\ \A u \in 1..Len(data) : d[u] = data[u]
  <2> DEFINE z == Put(data, Len(data), <<DIR>>)
  <2>1. IsSeq(<<DIR>>) /\ Len(<<DIR>>) = 1 /\ <<DIR>>[1] = DIR
    BY OneElement
  <2>2. z = d
    BY <1>4
  <2> HIDE DEF data, d
  <2>3. /\ EndsWith(z, Len(data), <<DIR>>) /\ IsSeq(z)
        /\ Len(z) = Len(data) + Len(<<DIR>>)
        /\ \A u \in 1..Len(data) : z[u] = data[u]
    BY <1>3, <2>1, PutAtEnd
  <2> HIDE DEF z
  <2>4. d[b + 1] = DIR
    <3>1. 1 \in 1..Len(<<DIR>>)
      BY <2>1
    <3>2. z[Len(data) + 1] = <<DIR>>[1]
      BY <2>3, <3>1 DEF EndsWith
    <3>3. QED
      BY <1>4, <2>1, <2>2, <3>2
  <2>5. QED
    BY <1>4, <2>1, <2>2, <2>3, <2>4
<1>7. entries # Empty
  BY <1>2 DEF Busy, LastDir, file_count, EntriesOf
<1>8. y = [x EXCEPT !.files[n].dir = entries, !.files[n].commit_count = c,
                    !.fam.directory[n].commit_count = c, !.fam.next_free_byte = @ + 1]
  BY <1>2, <1>7 DEF CommitDir, LastDir, file_count, EntriesOf
<1>9. c \in Nat /\ c > 0 /\ Shaped(v)
  <2>1. w.fam.commit_count \in Nat
    BY <1>1 DEF Shaped, InOrder
  <2>2. Shaped(v)
    BY <1>1, CommitDirCommits
  <2>3. QED
    BY <2>1, <2>2
<1>10. DOMAIN x = WorkFields /\ DOMAIN x.fam = FamFields /\ DOMAIN x.files = 1..n
       /\ DOMAIN x.files[n] = FileFields
  <2>1. IsSeq(x.files) /\ DOMAIN x.files[n] = FileFields
    <3>1. Shaped(x) /\ n \in 1..Len(x.files)
      BY <1>2, <1>5
    <3> HIDE DEF x
    <3>2. QED
      BY <3>1, WorkFacts
  <2>2. DOMAIN x.files = 1..n
    BY <1>5, <2>1 DEF IsSeq
  <2>3. QED
    BY <1>5, <2>1, <2>2, WorkFacts
<1> HIDE DEF x, y, c, d, data, entries, held
<1>11. /\ v.files = [x.files EXCEPT ![n].dir = entries, ![n].commit_count = c]
       /\ v.wrote = w.wrote /\ v.clock = w.clock
       /\ y.fam = [x.fam EXCEPT !.directory[n].commit_count = c, !.next_free_byte = @ + 1]
       /\ v.fam = [y.fam EXCEPT !.commit_count = @ + 1, !.non_state_ready = FALSE]
  BY <1>5, <1>8, <1>10 DEF WorkFields, SameMemory
<1>12. /\ v.fam.directory = [w.fam.directory EXCEPT ![n].commit_count = c]
       /\ v.fam.names = w.fam.names /\ v.fam.srecs = w.fam.srecs
       /\ v.fam.cur_index = n /\ v.fam.pos = b + 1 /\ v.fam.next_free_byte = b + 1
  <2>1. /\ DOMAIN y.fam = FamFields
        /\ y.fam.directory = [x.fam.directory EXCEPT ![n].commit_count = c]
        /\ y.fam.names = x.fam.names /\ y.fam.srecs = x.fam.srecs
        /\ y.fam.cur_index = x.fam.cur_index /\ y.fam.pos = x.fam.pos
        /\ y.fam.next_free_byte = x.fam.next_free_byte + 1
    BY <1>10, <1>11 DEF FamFields
  <2> DEFINE f == [y.fam EXCEPT !.commit_count = @ + 1]
  <2>f. /\ DOMAIN f = FamFields /\ f.directory = y.fam.directory
        /\ f.names = y.fam.names /\ f.srecs = y.fam.srecs
        /\ f.cur_index = y.fam.cur_index /\ f.pos = y.fam.pos
        /\ f.next_free_byte = y.fam.next_free_byte
    BY <2>1 DEF FamFields
  <2>g. v.fam = [f EXCEPT !.non_state_ready = FALSE]
    BY <1>11
  <2> HIDE DEF f, v
  <2>2. /\ v.fam.directory = y.fam.directory
        /\ v.fam.names = y.fam.names /\ v.fam.srecs = y.fam.srecs
        /\ v.fam.cur_index = y.fam.cur_index /\ v.fam.pos = y.fam.pos
        /\ v.fam.next_free_byte = y.fam.next_free_byte
    BY <2>f, <2>g DEF FamFields
  <2>3. QED
    BY <1>2, <1>5, <2>1, <2>2 DEF SameMemory
<1> HIDE DEF v
<1>13. /\ Len(v.files) = n /\ v.files[n].data = d /\ v.files[n].commit_count = c
       /\ \A i \in 1..n : i # n => v.files[i] = w.files[i]
  <2>1. /\ v.files[n].data = x.files[n].data /\ v.files[n].commit_count = c
        /\ \A i \in 1..n : i # n => v.files[i] = x.files[i]
    BY <1>2, <1>10, <1>11 DEF FileFields
  <2>2. Len(v.files) = Len(v.fam.directory) /\ IsSeq(v.files)
    BY <1>9, WorkFacts
  <2>3. DOMAIN v.files = 1..n /\ v.files = [k \in DOMAIN v.files |-> v.files[k]]
    BY <1>10, <1>11
  <2>4. IsSeq(x.files)
    BY <1>5, WorkFacts
  <2>5. Len(v.files) = n
    BY <1>5, <2>3, <2>4, ReplaceInSeq
  <2>6. QED
    BY <1>2, <1>5, <2>1, <2>5
<1>14. \A i \in 1..n : EntriesOf(v, i) = EntriesOf(w, i)
  <2>1. \A i \in 1..n : i # n => v.fam.directory[i] = w.fam.directory[i]
    BY <1>2, <1>12
  <2>2. DOMAIN w.fam.directory[n] = DirFields
    BY <1>1, <1>2 DEF Shaped, DirsShaped
  <2>3. v.fam.directory[n].entries = w.fam.directory[n].entries
    BY <1>2, <1>12, <2>2 DEF DirFields
  <2>4. QED
    BY <2>1, <2>3 DEF EntriesOf
<1>15. Filed(v.files[n], entries, held)
  <2>1. Len(data) = Len(d) - 1 /\ Len(d) >= Len(data) /\ Len(d) >= 1 /\ Len(d) = b + 1
    BY <1>3, <1>4, <1>6
  <2>2. Layout(d, Len(data), entries, held)
    BY <1>3, <1>6, <2>1, LayoutDone
  <2>3. Room(v.files[n]) = Len(data)
    BY <1>9, <1>13, <2>1 DEF Room
  <2>4. EndsInDir(v.files[n])
    BY <1>6, <1>13, <2>1 DEF EndsInDir
  <2>5. QED
    BY <1>7, <1>13, <2>2, <2>3, <2>4 DEF Filed
<1>16. Laid(v)
  <2>1. w.clock \in Nat /\ IsSeq(w.wrote)
    BY <1>1 DEF Laid
  <2>2. n = 1 => HeaderFree(v.files[1].data, EntriesOf(v, 1))
    <3>1. ASSUME n = 1
          PROVE  HeaderFree(d, entries)
      <4>1. HeaderFree(data, entries)
        BY <1>3, <3>1 DEF data, entries
      <4>2. Len(d) >= 1
        BY <1>3, <1>4, <1>6
      <4>3. QED
        BY <4>1, <4>2 DEF HeaderFree
    <3>2. QED
      BY <1>2, <1>13, <1>14, <3>1 DEF entries
  <2>3. \A i \in 1..Len(w.files) : i # n => /\ v.files[i] = w.files[i]
                                            /\ EntriesOf(v, i) = EntriesOf(w, i)
                                            /\ v.wrote[i] = w.wrote[i]
    BY <1>11, <1>13, <1>14
  <2>4. Filed(v.files[n], EntriesOf(v, n), v.wrote[n])
    BY <1>2, <1>11, <1>14, <1>15 DEF entries, held
  <2>5. n \in 1..Len(w.files) /\ Len(v.files) = Len(w.files) /\ v.clock \in Nat
        /\ IsSeq(v.wrote) /\ Len(v.wrote) = Len(w.wrote)
    BY <1>2, <1>11, <1>13, <2>1
  <2>6. QED
    BY <1>1, <2>2, <2>3, <2>4, <2>5, LaidAt
<1>17. Streamed(v)
  BY <1>2, <1>3, <1>4, <1>6, <1>12, <1>13 DEF Streamed
<1>18. Stated(v)
  BY <1>1, <1>12 DEF Stated
<1>19. Extends(v, w, "")
  <2>1. \A i \in 1..Len(w.files) : i # n => /\ v.files[i] = w.files[i]
                                            /\ EntriesOf(v, i) = EntriesOf(w, i)
                                            /\ v.wrote[i] = w.wrote[i]
    BY <1>11, <1>13, <1>14
  <2>2. EntriesOf(v, n) = EntriesOf(w, n) /\ v.wrote[n] = w.wrote[n] /\ Len(EntriesOf(w, n)) \in Nat
    BY <1>1, <1>2, <1>11, <1>14, WorkFacts
  <2>3. /\ Len(EntriesOf(v, n)) >= Len(EntriesOf(w, n))
        /\ \A j \in 1..Len(EntriesOf(w, n)) : /\ EntriesOf(v, n)[j] = EntriesOf(w, n)[j]
                                              /\ v.wrote[n][j] = w.wrote[n][j]
        /\ \A j \in 1..Len(EntriesOf(v, n)) :
               j > Len(EntriesOf(w, n)) => EntriesOf(v, n)[j].name = Untitled
    BY <2>2
  <2>4. n \in 1..Len(w.files) /\ Len(v.files) = Len(w.files) /\ v.fam.names = w.fam.names
        /\ ~(w.files[n].commit_count > 0)
    BY <1>2, <1>12, <1>13
  <2>5. Extends(v, w, Untitled)
    BY <1>1, <2>1, <2>3, <2>4, ExtendsAt
  <2>6. QED
    BY <2>5 DEF Untitled
<1>20. QED
  BY <1>9, <1>16, <1>17, <1>18, <1>19 DEF Held, v, y

\* The file that is opened behind settled ones is empty.
LEMMA NewFileAtEnd ==
    ASSUME NEW w, Held(w), Settled(w)
    PROVE  LET v == NewFile(w)
           IN  AtEnd(v) /\ Extends(v, w, "")
<1> SUFFICES ASSUME NEW n, n = Len(w.files)
             PROVE  LET v == NewFile(w)
                    IN  AtEnd(v) /\ Extends(v, w, "")
  OBVIOUS
<1> DEFINE v == NewFile(w)
<1>1. Shaped(w) /\ Laid(w) /\ Stated(w)
  BY DEF Held
<1>2. Shaped(v) /\ AtWork(v)
  BY <1>1, NewFileAtWork
<1>3. /\ DOMAIN w = WorkFields /\ DOMAIN w.fam = FamFields /\ n \in Nat /\ n >= 1
      /\ IsSeq(w.files) /\ IsSeq(w.fam.directory) /\ Len(w.fam.directory) = n
      /\ w.clock \in Nat /\ IsSeq(w.wrote) /\ Len(w.wrote) = n
  <2>1. /\ DOMAIN w = WorkFields /\ DOMAIN w.fam = FamFields /\ n \in Nat /\ n >= 1
        /\ IsSeq(w.files) /\ IsSeq(w.fam.directory) /\ Len(w.fam.directory) = n
    BY <1>1, WorkFacts
  <2>2. w.clock \in Nat /\ IsSeq(w.wrote) /\ Len(w.wrote) = n
    BY <1>1 DEF Laid
  <2>3. QED
    BY <2>1, <2>2
<1>4. /\ v.files = Append(w.files, File(Empty)) /\ v.wrote = Append(w.wrote, Empty)
      /\ v.clock = w.clock
      /\ v.fam = [w.fam EXCEPT !.directory = Append(@, FileDir), !.cur_index = n + 1,
                               !.pos = 0, !.next_free_byte = 0]
  BY <1>3 DEF NewFile, WorkFields, file_count
<1> HIDE DEF v
<1>5. /\ v.fam.directory = Append(w.fam.directory, FileDir) /\ v.fam.names = w.fam.names
      /\ v.fam.cur_index = n + 1 /\ v.fam.pos = 0 /\ v.fam.next_free_byte = 0
      /\ v.fam.srecs = w.fam.srecs
  <2> DEFINE f == [w.fam EXCEPT !.directory = Append(@, FileDir), !.cur_index = n + 1]
             g == [f EXCEPT !.pos = 0]
  <2>1. /\ DOMAIN f = FamFields /\ f.directory = Append(w.fam.directory, FileDir)
        /\ f.cur_index = n + 1 /\ f.names = w.fam.names /\ f.srecs = w.fam.srecs
    BY <1>3 DEF FamFields
  <2>2. v.fam = [g EXCEPT !.next_free_byte = 0]
    BY <1>4
  <2> HIDE DEF f
  <2>3. /\ DOMAIN g = FamFields /\ g.pos = 0 /\ g.directory = f.directory
        /\ g.cur_index = f.cur_index /\ g.names = f.names /\ g.srecs = f.srecs
    BY <2>1 DEF FamFields
  <2> HIDE DEF g
  <2>4. QED
    BY <2>1, <2>2, <2>3 DEF FamFields
<1>6. /\ IsSeq(v.files) /\ Len(v.files) = n + 1
      /\ \A i \in 1..n : v.files[i] = w.files[i]
      /\ v.files[n + 1] = File(Empty)
  BY <1>3, <1>4, AppendSeq
<1>7. /\ IsSeq(v.wrote) /\ Len(v.wrote) = n + 1
      /\ \A i \in 1..n : v.wrote[i] = w.wrote[i]
      /\ v.wrote[n + 1] = Empty
  BY <1>3, <1>4, AppendSeq
<1>8. /\ \A i \in 1..n : EntriesOf(v, i) = EntriesOf(w, i)
      /\ EntriesOf(v, n + 1) = Empty
  <2>1. /\ \A i \in 1..n : v.fam.directory[i] = w.fam.directory[i]
        /\ v.fam.directory[n + 1] = FileDir
    BY <1>3, <1>5, AppendSeq
  <2>2. QED
    BY <2>1 DEF EntriesOf, FileDir
<1>9. Filed(v.files[n + 1], EntriesOf(v, n + 1), v.wrote[n + 1])
  <2>1. IsSeq(Empty) /\ Len(Empty) = 0
    BY NoElements
  <2>2. Layout(Empty, 0, Empty, Empty)
    BY <2>1 DEF Layout
  <2>3. File(Empty).data = Empty /\ File(Empty).commit_count = 0
    BY DEF File
  <2>4. QED
    BY <1>6, <1>7, <1>8, <2>1, <2>2, <2>3 DEF Filed, Room
<1>10. Laid(v)
  <2>1. \A i \in 1..n : Filed(w.files[i], EntriesOf(w, i), w.wrote[i])
    BY <1>1 DEF Laid
  <2>2. \A i \in 1..n : Filed(v.files[i], EntriesOf(v, i), v.wrote[i])
    BY <1>6, <1>7, <1>8, <2>1
  <2>3. \A i \in 1..n + 1 : i \in 1..n \/ i = n + 1
    BY <1>3
  <2>4. \A i \in 1..n + 1 : Filed(v.files[i], EntriesOf(v, i), v.wrote[i])
    BY <1>9, <2>2, <2>3
  <2>5. 1 \in 1..n
    BY <1>3
  <2>6. HeaderFree(v.files[1].data, EntriesOf(v, 1))
    BY <1>1, <1>6, <1>8, <2>5 DEF Laid
  <2>7. QED
    BY <1>3, <1>4, <1>6, <1>7, <2>4, <2>6 DEF Laid
<1>11. Streamed(v)
  <2>1. n + 1 \in 0..n + 1 /\ 0 \in 0..0
    BY <1>3
  <2>2. Len(File(Empty).data) = 0
    BY NoElements DEF File
  <2>3. v.fam.cur_index \in 0..Len(v.files)
    BY <1>5, <1>6, <2>1
  <2>4. Len(v.files[v.fam.cur_index].data) = 0
    BY <1>5, <1>6, <2>2
  <2>5. QED
    BY <1>5, <2>1, <2>3, <2>4 DEF Streamed
<1>12. Stated(v)
  BY <1>1, <1>5 DEF Stated
<1>13. Extends(v, w, "")
  <2>1. n + 1 \in Nat /\ n + 1 >= n
    BY <1>3
  <2>2. \A i \in 1..n : /\ Len(EntriesOf(w, i)) \in Nat
    BY <1>1, WorkFacts
  <2>3. \A i \in 1..n : Kept(v.files[i], w.files[i])
    BY <1>6 DEF Kept
  <2>4. ASSUME NEW i \in 1..n
        PROVE  /\ Len(EntriesOf(v, i)) >= Len(EntriesOf(w, i))
               /\ \A j \in 1..Len(EntriesOf(w, i)) : /\ EntriesOf(v, i)[j] = EntriesOf(w, i)[j]
                                                     /\ v.wrote[i][j] = w.wrote[i][j]
               /\ \A j \in 1..Len(EntriesOf(v, i)) :
                      j > Len(EntriesOf(w, i)) => EntriesOf(v, i)[j].name = Untitled
    BY <1>7, <1>8, <2>2
  <2>5. ASSUME NEW i \in 1..n + 1, i > n, NEW j \in 1..Len(EntriesOf(v, i))
        PROVE  EntriesOf(v, i)[j].name = Untitled
    <3>1. i = n + 1
      BY <1>3, <2>5
    <3>2. Len(EntriesOf(v, i)) = 0
      BY <1>8, <3>1, NoElements
    <3>3. QED
      BY <3>2
  <2>6. Extends(v, w, Untitled)
    BY <1>5, <1>6, <2>1, <2>3, <2>4, <2>5 DEF Extends
  <2>7. QED
    BY <2>6 DEF Untitled
<1>14. QED
  BY <1>2, <1>5, <1>10, <1>11, <1>12, <1>13 DEF AtEnd, Held, v

\* commit_non_state on a file at work.
LEMMA CommitNonStateHeld ==
    ASSUME NEW w, Held(w), Busy(w)
    PROVE  LET v == CommitNonState(w)
           IN  Held(v) /\ Settled(v) /\ Extends(v, w, "")
<1> DEFINE v1 == SeekEnd(w)
           v2 == CommitSvars(v1)
           v3 == CommitSrecs(v2)
           v4 == [CommitDir(v3) EXCEPT !.fam.commit_count = @ + 1, !.fam.non_state_ready = FALSE]
<1>1. Shaped(w) /\ w.fam.cur_index # NoFile /\ AtWork(w)
  BY BusyIsOpen DEF Held
<1>2. v4 = CommitNonState(w) /\ Settled(CommitNonState(w))
  <2>1. v4 = CommitNonState(w)
    BY <1>1 DEF CommitNonState
  <2>2. QED
    BY <1>1, <2>1, CommitSettles
<1>3. AtEnd(v1) /\ Busy(v1) /\ Extends(v1, w, "")
  <2>1. Held(v1) /\ Extends(v1, w, "") /\ v1.fam.pos = v1.fam.next_free_byte
    BY <1>1, SeekEndIs
  <2>2. Like(v1, w) /\ v1.fam.cur_index = w.fam.cur_index
    BY <1>1, SeekEndLike
  <2> HIDE DEF v1
  <2>3. Busy(v1)
    BY <1>1, <2>2, LikeIsBusy
  <2>4. QED
    BY <2>1, <2>3 DEF AtEnd, Busy
<1> HIDE DEF v1
<1>4. AtEnd(v2) /\ Busy(v2) /\ Extends(v2, v1, "")
  BY <1>3, CommitSvarsAtEnd
<1> HIDE DEF v2
<1>5. AtEnd(v3) /\ Busy(v3) /\ Extends(v3, v2, "")
  BY <1>4, CommitSrecsAtEnd
<1> HIDE DEF v3
<1>6. Held(v4) /\ Extends(v4, v3, "")
  BY <1>5, CommitDirHeld
<1> HIDE DEF v4
<1>7. Shaped(v1) /\ Shaped(v2) /\ Shaped(v3) /\ Shaped(v4)
  BY <1>3, <1>4, <1>5, <1>6 DEF AtEnd, Held
<1>8. Extends(v2, w, "")
  BY <1>1, <1>3, <1>4, <1>7, ExtendsOn
<1>9. Extends(v3, w, "")
  BY <1>1, <1>5, <1>7, <1>8, ExtendsOn
<1>10. Extends(v4, w, "")
  BY <1>1, <1>6, <1>7, <1>9, ExtendsOn
<1>11. QED
  BY <1>2, <1>6, <1>10

\* Another file is opened, or none, where the stream can stand.
LEMMA HeldOpened ==
    ASSUME NEW w, Held(w), Settled(w), NEW i \in 0..Len(w.files), NEW p, NEW b,
           i # NoFile => b = Len(w.files[i].data) /\ p \in 0..b,
           NEW v, Shaped(v), Settled(v), v.files = w.files, v.wrote = w.wrote, v.clock = w.clock,
           v.fam.directory = w.fam.directory, v.fam.names = w.fam.names,
           v.fam.srecs = w.fam.srecs, v.fam.cur_index = i,
           i # NoFile => v.fam.pos = p /\ v.fam.next_free_byte = b
    PROVE  Held(v) /\ Extends(v, w, "")
<1>1. Laid(v) /\ Stated(v)
  BY DEF Held, Laid, Stated, EntriesOf
<1>2. Streamed(v)
  BY DEF Streamed
<1>3. Extends(v, w, "")
  BY ExtendsSame DEF Held
<1>4. QED
  BY <1>1, <1>2, <1>3 DEF Held

\* non_state_file_close
LEMMA FileCloseHeld ==
    ASSUME NEW w, Held(w), Good(w)
    PROVE  LET v == FileClose(w)
           IN  Held(v) /\ Settled(v) /\ Extends(v, w, "")
               /\ (w.fam.cur_index # NoFile => v.fam.cur_index = NoFile)
<1> DEFINE v == FileClose(w)
<1>1. Shaped(w) /\ Shaped(v) /\ Settled(v)
  BY FileCloseSettles DEF Held
<1>2. CASE w.fam.cur_index = NoFile
  <2>1. v = w
    BY <1>2 DEF FileClose
  <2>2. Extends(w, w, "")
    BY <1>1, ExtendsSame
  <2>3. QED
    BY <1>1, <1>2, <2>1, <2>2
<1>3. CASE w.fam.cur_index # NoFile
  <2> DEFINE x == IF COMMIT_NS(w) THEN CommitNonState(w) ELSE w
  <2>1. v = [x EXCEPT !.fam.cur_index = NoFile]
    BY <1>3 DEF FileClose
  <2>2. Held(x) /\ Extends(x, w, "")
    <3>1. CASE COMMIT_NS(w)
      BY <3>1, CommitMeansBusy, CommitNonStateHeld
    <3>2. CASE ~COMMIT_NS(w)
      BY <1>1, <3>2, ExtendsSame
    <3>3. QED
      BY <3>1, <3>2
  <2>3. Settled(x)
    <3>1. CASE COMMIT_NS(w)
      BY <3>1, CommitMeansBusy, CommitNonStateHeld
    <3>2. CASE ~COMMIT_NS(w)
      <4>1. ~Busy(w)
        BY <3>2 DEF COMMIT_NS, Busy, AtWork
      <4>2. QED
        BY <3>2, <4>1 DEF Good
    <3>3. QED
      BY <3>1, <3>2
  <2> HIDE DEF x
  <2>4. Shaped(x) /\ DOMAIN x = WorkFields /\ DOMAIN x.fam = FamFields /\ Len(x.files) \in Nat
    BY <2>2, WorkFacts DEF Held
  <2> HIDE DEF v
  <2>5. /\ v.files = x.files /\ v.wrote = x.wrote /\ v.clock = x.clock
        /\ v.fam = [x.fam EXCEPT !.cur_index = NoFile]
    BY <2>1, <2>4 DEF WorkFields
  <2>6. /\ v.fam.directory = x.fam.directory /\ v.fam.names = x.fam.names
        /\ v.fam.srecs = x.fam.srecs /\ v.fam.cur_index = NoFile
    BY <2>4, <2>5 DEF FamFields
  <2>7. NoFile \in 0..Len(x.files)
    BY <2>4 DEF NoFile
  <2>8. Held(v) /\ Extends(v, x, "")
    BY <1>1, <2>2, <2>3, <2>5, <2>6, <2>7, HeldOpened
  <2>9. Extends(v, w, "")
    BY <1>1, <2>2, <2>4, <2>8, ExtendsOn
  <2>10. QED
    BY <1>1, <2>6, <2>8, <2>9 DEF v
<1>4. QED
  BY <1>2, <1>3

\* non_state_file_open of a file of the family
LEMMA FileOpenHeld ==
    ASSUME NEW w, Held(w), Good(w), NEW i \in 1..Len(w.files)
    PROVE  LET v == FileOpen(w, i)
           IN  /\ Held(v) /\ Good(v) /\ Extends(v, w, "") /\ v.fam.cur_index = i
               /\ w.fam.cur_index = i => v = w
               /\ w.fam.cur_index # i => Settled(v) /\ v.fam.pos = 0
<1> DEFINE v == FileOpen(w, i)
           x == FileClose(w)
<1>1. Shaped(w) /\ Good(v)
  BY FileOpenGood DEF Held
<1>2. CASE w.fam.cur_index = i
  <2>1. v = w
    BY <1>2 DEF FileOpen
  <2>2. Extends(w, w, "")
    BY <1>1, ExtendsSame
  <2>3. QED
    BY <1>1, <1>2, <2>1, <2>2
<1>3. CASE w.fam.cur_index # i
  <2>1. Held(x) /\ Settled(x) /\ Extends(x, w, "")
    BY FileCloseHeld
  <2> DEFINE b == Size(x, i)
  <2>2. v = [x EXCEPT !.fam.cur_index = i, !.fam.pos = 0, !.fam.next_free_byte = b]
    BY <1>3 DEF FileOpen
  <2> HIDE DEF x, v
  <2>3. /\ Shaped(x) /\ DOMAIN x = WorkFields /\ DOMAIN x.fam = FamFields
        /\ i \in 1..Len(x.files)
    <3>1. Shaped(x) /\ DOMAIN x = WorkFields /\ DOMAIN x.fam = FamFields
      BY <2>1, WorkFacts DEF Held
    <3>2. Len(x.files) \in Nat /\ Len(w.files) \in Nat /\ Len(x.files) >= Len(w.files)
      BY <1>1, <2>1, WorkFacts DEF Extends
    <3>3. QED
      BY <3>1, <3>2
  <2>4. b \in Nat /\ b = Len(x.files[i].data)
    BY <2>1, <2>3 DEF Held, Laid, Filed, Layout, IsSeq, Size
  <2> HIDE DEF b
  <2>5. Like(v, x)
    BY <2>2, <2>3, StreamLike
  <2>6. Shaped(v) /\ Settled(v)
    BY <2>1, <2>3, <2>5, LikeIsSettled
  <2>7. /\ v.files = x.files /\ v.wrote = x.wrote /\ v.clock = x.clock
        /\ v.fam = [x.fam EXCEPT !.cur_index = i, !.pos = 0, !.next_free_byte = b]
    BY <2>2, <2>3 DEF WorkFields
  <2>8. /\ v.fam.directory = x.fam.directory /\ v.fam.names = x.fam.names
        /\ v.fam.srecs = x.fam.srecs /\ v.fam.cur_index = i /\ v.fam.pos = 0
        /\ v.fam.next_free_byte = b
    BY <2>3, <2>7 DEF FamFields
  <2>9. i \in 0..Len(x.files) /\ 0 \in 0..b
    BY <2>3, <2>4
  <2>10. Held(v) /\ Extends(v, x, "")
    BY <2>1, <2>4, <2>6, <2>7, <2>8, <2>9, HeldOpened
  <2>11. Extends(v, w, "")
    BY <1>1, <2>1, <2>3, <2>6, <2>10, ExtendsOn
  <2>12. QED
    BY <1>1, <1>3, <2>6, <2>8, <2>10, <2>11 DEF v
<1>4. QED
  BY <1>2, <1>3

\* prep_for_new_data
LEMMA PrepAtEnd ==
    ASSUME NEW w, Held(w), Good(w)
    PROVE  LET v == PrepForNewData(w)
           IN  AtEnd(v) /\ Extends(v, w, "")
<1> DEFINE v == PrepForNewData(w)
<1>1. Shaped(w) /\ Shaped(v) /\ AtWork(v)
  BY PrepAtWork DEF Held
<1>2. CASE AtWork(w)
  <2>1. v = SeekEnd(w) /\ w.fam.cur_index # NoFile
    BY <1>1, <1>2, AtWorkIs DEF PrepForNewData
  <2>2. Held(v) /\ Extends(v, w, "") /\ v.fam.pos = v.fam.next_free_byte
    BY <2>1, SeekEndIs
  <2>3. QED
    BY <1>1, <2>2 DEF AtEnd
<1>3. CASE ~AtWork(w)
  <2> DEFINE x == FileClose(w)
             y == NewFile(x)
  <2>1. v = y
    BY <1>3 DEF PrepForNewData
  <2>2. Held(x) /\ Settled(x) /\ Extends(x, w, "")
    BY FileCloseHeld
  <2> HIDE DEF x
  <2>3. AtEnd(y) /\ Extends(y, x, "")
    BY <2>2, NewFileAtEnd
  <2> HIDE DEF y
  <2>4. Extends(y, w, "")
    BY <1>1, <2>2, <2>3, ExtendsOn DEF AtEnd, Held
  <2>5. QED
    BY <2>1, <2>3, <2>4
<1>4. QED
  BY <1>2, <1>3

-----------------------------------------------------------------------------
(***************************************************************************)
(* The parameter table.                                                    *)
(***************************************************************************)
\* The table and the values the history has for it.
Found(w, val) == Tabled(w.fam.names, w.fam.directory) /\ Valued(val, w.fam.names, w.wrote)

\* The last entry of a name stays the last when others are added.
LEMMA LastStays ==
    ASSUME NEW v, Shaped(v), NEW w, Shaped(w), NEW name, Extends(v, w, name),
           NEW n, n # name, NEW p, LastOf(p, n, w.fam.directory)
    PROVE  LastOf(p, n, v.fam.directory)
<1>1. /\ Len(v.fam.directory) = Len(v.files) /\ Len(w.fam.directory) = Len(w.files)
      /\ Len(v.files) \in Nat /\ Len(w.files) \in Nat /\ Len(v.files) >= Len(w.files)
  BY WorkFacts DEF Extends
<1>2. ASSUME NEW i \in 1..Len(v.fam.directory), NEW j \in 1..Len(EntriesOf(v, i)),
             EntriesOf(v, i)[j].name = n
      PROVE  p # Nowhere /\ (i < p.file \/ (i = p.file /\ j <= p.entry))
  <2>1. i \in 1..Len(w.files)
    <3>1. ~(i > Len(w.files))
      BY <1>1, <1>2 DEF Extends
    <3>2. QED
      BY <1>1, <3>1
  <2>2. Len(EntriesOf(w, i)) \in Nat /\ Len(EntriesOf(v, i)) \in Nat
    BY <1>1, <2>1, WorkFacts
  <2>3. j \in 1..Len(EntriesOf(w, i))
    <3>1. ~(j > Len(EntriesOf(w, i)))
      BY <1>2, <2>1 DEF Extends
    <3>2. QED
      BY <2>2, <3>1
  <2>4. EntriesOf(w, i)[j].name = n
    BY <1>2, <2>1, <2>3 DEF Extends
  <2>5. QED
    BY <1>1, <2>1, <2>3, <2>4 DEF LastOf, EntriesOf
<1>3. ASSUME p # Nowhere
      PROVE  IsPlace(p, v.fam.directory) /\ EntriesOf(v, p.file)[p.entry].name = n
  <2>1. IsPlace(p, w.fam.directory) /\ EntriesOf(w, p.file)[p.entry].name = n
    BY <1>3 DEF LastOf, EntriesOf
  <2> DEFINE i == p.file
             j == p.entry
  <2>2. p = [file |-> i, entry |-> j] /\ i \in 1..Len(w.files) /\ j \in 1..Len(EntriesOf(w, i))
    BY <1>1, <2>1 DEF IsPlace, EntriesOf
  <2> HIDE DEF i, j
  <2>3. Len(EntriesOf(w, i)) \in Nat /\ Len(EntriesOf(v, i)) \in Nat /\ i \in 1..Len(v.files)
    BY <1>1, <2>2, WorkFacts
  <2>4. EntriesOf(v, i)[j] = EntriesOf(w, i)[j] /\ Len(EntriesOf(v, i)) >= Len(EntriesOf(w, i))
    BY <2>2 DEF Extends
  <2>5. j \in 1..Len(EntriesOf(v, i))
    BY <2>2, <2>3, <2>4
  <2>6. QED
    BY <1>1, <2>1, <2>2, <2>3, <2>4, <2>5 DEF IsPlace, EntriesOf, i, j
<1>4. QED
  BY <1>2, <1>3 DEF LastOf, EntriesOf

\* A name that a table has is in the files, and its history stays.
LEMMA PlaceStays ==
    ASSUME NEW v, NEW w, Shaped(w), NEW name, Extends(v, w, name),
           NEW p, IsPlace(p, w.fam.directory)
    PROVE  v.wrote[p.file][p.entry] = w.wrote[p.file][p.entry]
<1>1. Len(w.fam.directory) = Len(w.files)
  BY WorkFacts
<1>2. p.file \in 1..Len(w.files) /\ p.entry \in 1..Len(EntriesOf(w, p.file))
  BY <1>1 DEF IsPlace, EntriesOf
<1>3. QED
  BY <1>2 DEF Extends

\* A step that adds no parameter leaves the table and its values.
LEMMA FoundExtends ==
    ASSUME NEW v, Shaped(v), NEW w, Shaped(w), NEW name, name \notin Names, Extends(v, w, name),
           NEW val, Found(w, val)
    PROVE  Found(v, val)
<1>1. \A n \in Names : n # name
  OBVIOUS
<1>3. v.fam.names = w.fam.names
  BY DEF Extends
<1>4. Tabled(w.fam.names, w.fam.directory) /\ Valued(val, w.fam.names, w.wrote)
  BY DEF Found
<1>5. Tabled(v.fam.names, v.fam.directory)
  <2>1. ASSUME NEW n \in Names
        PROVE  LastOf(v.fam.names[n], n, v.fam.directory)
    <3>1. n # name /\ LastOf(w.fam.names[n], n, w.fam.directory)
      BY <1>1, <1>4 DEF Tabled
    <3>2. LastOf(w.fam.names[n], n, v.fam.directory)
      BY <3>1, LastStays
    <3>3. QED
      BY <1>3, <3>2
  <2>2. QED
    BY <1>3, <1>4, <2>1 DEF Tabled
<1>6. Valued(val, v.fam.names, v.wrote)
  <2>1. ASSUME NEW n \in Names
        PROVE  val[n] = IF v.fam.names[n] = Nowhere THEN Empty
                        ELSE v.wrote[v.fam.names[n].file][v.fam.names[n].entry]
    <3> DEFINE p == w.fam.names[n]
    <3>1. val[n] = IF p = Nowhere THEN Empty ELSE w.wrote[p.file][p.entry]
      BY <1>4 DEF Valued
    <3>2. p # Nowhere => IsPlace(p, w.fam.directory)
      BY <1>4 DEF Tabled, LastOf
    <3> HIDE DEF p
    <3>3. p # Nowhere => v.wrote[p.file][p.entry] = w.wrote[p.file][p.entry]
      BY <3>2, PlaceStays
    <3>4. QED
      BY <1>3, <3>1, <3>3 DEF p
  <2>2. QED
    BY <1>4, <2>1 DEF Valued
<1>7. QED
  BY <1>5, <1>6 DEF Found

LEMMA FoundStays ==
    ASSUME NEW v, Shaped(v), NEW w, Shaped(w), Extends(v, w, ""), NEW val, Found(w, val)
    PROVE  Found(v, val)
  BY NamesAssumption, FoundExtends

\* What is in a committed file stays, but for the units of its entries.
Final(v, w) ==
    /\ Len(v.files) \in Nat /\ Len(v.files) >= Len(w.files)
    /\ \A i \in 1..Len(w.files) : w.files[i].commit_count > 0 => Kept(v.files[i], w.files[i])

LEMMA ExtendsFinal ==
    ASSUME NEW v, NEW w, NEW name, Extends(v, w, name)
    PROVE  Final(v, w)
  BY DEF Extends, Final

LEMMA FinalOn ==
    ASSUME NEW u, NEW v, NEW w, Shaped(v), Shaped(w), Final(u, v), Final(v, w)
    PROVE  Final(u, w)
<1>1. Len(v.files) \in Nat /\ Len(w.files) \in Nat /\ Len(u.files) \in Nat
      /\ Len(v.files) >= Len(w.files) /\ Len(u.files) >= Len(v.files)
  BY WorkFacts DEF Final
<1>2. ASSUME NEW i \in 1..Len(w.files), w.files[i].commit_count > 0
      PROVE  Kept(u.files[i], w.files[i])
  <2>1. Kept(v.files[i], w.files[i])
    BY <1>2 DEF Final
  <2>2. i \in 1..Len(v.files) /\ v.files[i].commit_count > 0
    BY <1>1, <1>2, <2>1 DEF Kept
  <2>3. Kept(u.files[i], v.files[i])
    BY <2>2 DEF Final
  <2>4. QED
    BY <2>1, <2>3 DEF Kept
<1>3. QED
  BY <1>1, <1>2 DEF Final

\* A parameter's value after its entry was made.
LEMMA ValueGiven ==
    ASSUME NEW val, val = [m \in Names |-> val[m]], NEW n \in Names, NEW x
    PROVE  LET new == [val EXCEPT ![n] = x]
           IN  /\ new = [m \in Names |-> new[m]] /\ new[n] = x
               /\ \A m \in Names : m # n => new[m] = val[m]
  OBVIOUS

\* A name is entered for the last entry of the last file, which has it.
LEMMA EnterFound ==
    ASSUME NEW w, Shaped(w), NEW val, Found(w, val), NEW x, AtEnd(x),
           NEW n \in Names, Extends(x, w, n), NEW held,
           LET k == Len(x.files)
               l == Len(EntriesOf(x, k))
           IN  /\ l \in 1..l /\ EntriesOf(x, k)[l].name = n
               /\ x.wrote[k][l] = held
    PROVE  LET v == Enter(x, n)
           IN  /\ Held(v) /\ Found(v, [val EXCEPT ![n] = held]) /\ v.files = x.files
               /\ v.clock = x.clock
<1> SUFFICES ASSUME NEW k, k = Len(x.files), NEW l, l = Len(EntriesOf(x, k)),
                    NEW p, p = [file |-> k, entry |-> l],
                    NEW new, new = [val EXCEPT ![n] = held]
             PROVE  LET v == Enter(x, n)
                    IN  /\ Held(v) /\ Found(v, new) /\ v.files = x.files /\ v.clock = x.clock
  OBVIOUS
<1> DEFINE v == Enter(x, n)
           names == w.fam.names
           dirs == x.fam.directory
<1>1. Held(x) /\ Shaped(x) /\ AtWork(x) /\ x.fam.names = names
  BY DEF AtEnd, Held, Extends
<1>2. /\ DOMAIN x = WorkFields /\ DOMAIN x.fam = FamFields /\ x.fam.cur_index = k
      /\ k \in 1..k /\ k \in Nat /\ Len(dirs) = k
      /\ \A i \in 1..k : Len(EntriesOf(x, i)) \in Nat
  BY <1>1, WorkFacts, AtWorkIs
<1>3. l \in 1..l /\ EntriesOf(x, k)[l].name = n /\ x.wrote[k][l] = held
  OBVIOUS
<1>4. v = [x EXCEPT !.fam.names[n] = p]
  BY <1>2 DEF Enter, LastDir, file_count, EntriesOf
<1> HIDE DEF v
<1>5. /\ v.files = x.files /\ v.wrote = x.wrote /\ v.clock = x.clock
      /\ v.fam = [x.fam EXCEPT !.names[n] = p]
  BY <1>2, <1>4 DEF WorkFields
<1>6. /\ v.fam.names = [names EXCEPT ![n] = p] /\ v.fam.directory = dirs
      /\ v.fam.srecs = x.fam.srecs /\ v.fam.cur_index = x.fam.cur_index
      /\ v.fam.pos = x.fam.pos /\ v.fam.next_free_byte = x.fam.next_free_byte
  BY <1>1, <1>2, <1>5 DEF FamFields
<1>7. Shaped(v)
  <2>1. v = [x EXCEPT !.fam.names = [x.fam.names EXCEPT ![n] = p]]
    BY <1>2, <1>4
  <2>2. Like(v, x)
    BY <1>1, <2>1, TableLike
  <2>3. QED
    BY <1>1, <2>2, LikeIsShaped
<1>8. Held(v)
  BY <1>1, <1>5, <1>6, <1>7 DEF Held, Laid, Streamed, Stated, EntriesOf
<1>9. Tabled(names, w.fam.directory) /\ Valued(val, names, w.wrote)
  BY DEF Found
<1>10. /\ v.fam.names = [m \in Names |-> v.fam.names[m]] /\ v.fam.names[n] = p
       /\ \A m \in Names : m # n => v.fam.names[m] = names[m]
  <2>1. names = [m \in Names |-> names[m]]
    BY <1>9 DEF Tabled
  <2> HIDE DEF names
  <2>2. QED
    BY <1>6, <2>1, ValueGiven
<1>11. /\ new = [m \in Names |-> new[m]] /\ new[n] = held
       /\ \A m \in Names : m # n => new[m] = val[m]
  BY <1>9, ValueGiven DEF Valued
<1>12. p # Nowhere /\ p.file = k /\ p.entry = l
  BY <1>2 DEF Nowhere, NoFile
<1> HIDE DEF names, dirs
<1>13. LastOf(p, n, dirs)
  <2>1. IsPlace(p, dirs)
    BY <1>2, <1>3, <1>12 DEF IsPlace, EntriesOf, dirs
  <2>2. dirs[p.file].entries[p.entry].name = n
    BY <1>3, <1>12 DEF EntriesOf, dirs
  <2>3. ASSUME NEW i \in 1..Len(dirs), NEW j \in 1..Len(dirs[i].entries)
        PROVE  i < p.file \/ (i = p.file /\ j <= p.entry)
    <3>1. i \in 1..k
      BY <1>2
    <3>2. i = k => j \in 1..l
      BY DEF EntriesOf, dirs
    <3>3. l \in Nat
      BY <1>2
    <3>4. i < k \/ (i = k /\ j <= l)
      BY <1>2, <3>1, <3>2, <3>3
    <3>5. QED
      BY <1>12, <3>4
  <2>4. QED
    BY <1>12, <2>1, <2>2, <2>3 DEF LastOf
<1>14. ASSUME NEW m \in Names, m # n
       PROVE  LastOf(names[m], m, dirs)
  <2> DEFINE q == names[m]
  <2>1. LastOf(q, m, w.fam.directory)
    BY <1>9 DEF Tabled
  <2> HIDE DEF q
  <2>s. m # n
    BY <1>14
  <2>t. Shaped(x) /\ Shaped(w) /\ Extends(x, w, n)
    BY <1>1
  <2>u. \A r : LastOf(r, m, w.fam.directory) => LastOf(r, m, x.fam.directory)
    BY <2>s, <2>t, LastStays
  <2>2. LastOf(q, m, x.fam.directory)
    BY <2>1, <2>u
  <2>3. QED
    BY <2>2 DEF dirs, q
<1>15. Tabled(v.fam.names, v.fam.directory)
  <2>1. ASSUME NEW m \in Names
        PROVE  LastOf(v.fam.names[m], m, dirs)
    BY <1>10, <1>13, <1>14
  <2>2. QED
    BY <1>6, <1>10, <2>1 DEF Tabled
<1>16. Valued(new, v.fam.names, v.wrote)
  <2>1. ASSUME NEW m \in Names, m # n
        PROVE  new[m] = IF v.fam.names[m] = Nowhere THEN Empty
                        ELSE x.wrote[v.fam.names[m].file][v.fam.names[m].entry]
    <3> DEFINE q == names[m]
    <3>1. new[m] = IF q = Nowhere THEN Empty ELSE w.wrote[q.file][q.entry]
      BY <1>9, <1>11, <2>1 DEF Valued
    <3>2. v.fam.names[m] = q
      BY <1>10, <2>1
    <3>3. q # Nowhere => IsPlace(q, w.fam.directory)
      BY <1>9 DEF Tabled, LastOf
    <3> HIDE DEF q
    <3>4. q # Nowhere => x.wrote[q.file][q.entry] = w.wrote[q.file][q.entry]
      BY <3>3, PlaceStays
    <3>5. QED
      BY <3>1, <3>2, <3>4
  <2>2. new[n] = x.wrote[v.fam.names[n].file][v.fam.names[n].entry] /\ v.fam.names[n] # Nowhere
    BY <1>3, <1>10, <1>11, <1>12
  <2>3. \A m \in Names : new[m] = IF v.fam.names[m] = Nowhere THEN Empty
                                  ELSE x.wrote[v.fam.names[m].file][v.fam.names[m].entry]
    BY <2>1, <2>2
  <2>4. QED
    BY <1>5, <1>11, <2>3 DEF Valued
<1>17. QED
  BY <1>5, <1>8, <1>15, <1>16 DEF Found, v

\* write_scalar, write_string and write_array of something new
LEMMA WriteNewHeld ==
    ASSUME NEW w, Held(w), Good(w), NEW val, Found(w, val),
           NEW n \in Names, NEW len \in Nat, len >= 1
    PROVE  LET v == WriteNew(w, n, len)
           IN  /\ Held(v) /\ Good(v) /\ Final(v, w)
               /\ Found(v, [val EXCEPT ![n] = Copies(v.clock, len)])
<1> DEFINE p == PrepForNewData(w)
           kind == "param"
           x == AddEntry(p, kind, n, len)
           v == Enter(x, n)
<1>1. v = WriteNew(w, n, len) /\ Good(WriteNew(w, n, len))
  BY WriteNewGood DEF WriteNew
<1>2. AtEnd(p) /\ Extends(p, w, "")
  BY PrepAtEnd
<1> HIDE DEF p
<1>3. Shaped(w) /\ Shaped(p) /\ Found(p, val) /\ Final(p, w)
  BY <1>2, FoundStays, ExtendsFinal DEF AtEnd, Held
<1> DEFINE k == Len(p.files)
           l == Len(EntriesOf(p, k)) + 1
<1>4. /\ AtEnd(x) /\ Extends(x, p, n) /\ Len(x.files) = k /\ x.clock = p.clock + 1
      /\ Len(EntriesOf(x, k)) = l /\ EntriesOf(x, k)[l].name = n
      /\ x.wrote[k][l] = Copies(p.clock + 1, len)
  <2>1. kind \in Kinds /\ n \in Titles
    BY DEF Kinds, Titles
  <2> HIDE DEF kind
  <2>2. /\ AtEnd(x) /\ Extends(x, p, n) /\ Len(x.files) = Len(p.files)
        /\ x.clock = p.clock + 1
        /\ Len(EntriesOf(x, Len(p.files))) = Len(EntriesOf(p, Len(p.files))) + 1
        /\ EntriesOf(x, Len(p.files))[Len(EntriesOf(p, Len(p.files))) + 1].name = n
        /\ x.wrote[Len(p.files)][Len(EntriesOf(p, Len(p.files))) + 1] = Copies(p.clock + 1, len)
    <3>1. len \in Nat /\ len >= 1 /\ AtEnd(p)
      BY <1>2
    <3>2. QED
      BY <2>1, <3>1, AddEntryAtEnd
  <2>3. QED
    BY <2>2
<1>5. l \in 1..l
  <2>1. Len(EntriesOf(p, k)) \in Nat
    BY <1>2, <1>3, AtWorkIs, WorkFacts DEF AtEnd
  <2>2. QED
    BY <2>1
<1> HIDE DEF x
<1>6. /\ Held(v) /\ Found(v, [val EXCEPT ![n] = Copies(x.clock, len)]) /\ v.files = x.files
      /\ v.clock = x.clock
  BY <1>3, <1>4, <1>5, EnterFound
<1> HIDE DEF v
<1>7. Final(x, p)
  BY <1>4, ExtendsFinal
<1>8. Final(v, w)
  <2>1. Final(v, p)
    BY <1>6, <1>7 DEF Final
  <2>2. QED
    BY <1>3, <2>1, FinalOn
<1>9. QED
  BY <1>1, <1>6, <1>8

-----------------------------------------------------------------------------
(***************************************************************************)
(* Rewriting what is there.                                                *)
(***************************************************************************)
\* fseek, to a place within the file
LEMMA SeekIs ==
    ASSUME NEW w, Held(w), NEW p
    PROVE  LET v == FileSeek(w, p)
           IN  /\ Shaped(v) /\ SameMemory(v, w) /\ v.files = w.files /\ v.fam.pos = p
               /\ v.fam.svars_fresh = w.fam.svars_fresh
               /\ v.fam.non_state_ready = w.fam.non_state_ready
<1> DEFINE v == FileSeek(w, p)
<1>1. Shaped(w) /\ DOMAIN w = WorkFields /\ DOMAIN w.fam = FamFields
  BY WorkFacts DEF Held
<1>2. /\ v.files = w.files /\ v.wrote = w.wrote /\ v.clock = w.clock /\ v.ok = w.ok
      /\ v.fam = [w.fam EXCEPT !.pos = p] /\ DOMAIN v = WorkFields
  BY <1>1 DEF FileSeek, WorkFields
<1> HIDE DEF v
<1>3. /\ DOMAIN v.fam = FamFields
      /\ v.fam.directory = w.fam.directory /\ v.fam.names = w.fam.names
      /\ v.fam.srecs = w.fam.srecs /\ v.fam.commit_max = w.fam.commit_max
      /\ v.fam.cur_index = w.fam.cur_index /\ v.fam.next_free_byte = w.fam.next_free_byte
      /\ v.fam.commit_count = w.fam.commit_count /\ v.fam.pos = p
      /\ v.fam.svars_fresh = w.fam.svars_fresh
      /\ v.fam.non_state_ready = w.fam.non_state_ready
  BY <1>1, <1>2 DEF FamFields
<1>4. Shaped(v)
  BY <1>1, <1>2, <1>3 DEF Shaped
<1>5. QED
  BY <1>2, <1>3, <1>4 DEF SameMemory, v

\* A committed file keeps its directory when units before it are written.
LEMMA RoomStays ==
    ASSUME NEW f, NEW g, g.commit_count = f.commit_count, Len(f.data) \in Nat, Len(f.data) >= 1,
           Len(g.data) = Len(f.data), NEW entries, NEW held, Filed(f, entries, held),
           NEW H, Layout(g.data, Room(f), entries, H),
           \A u \in 1..Len(f.data) : u > Room(f) => g.data[u] = f.data[u]
    PROVE  Filed(g, entries, H)
<1>1. Room(g) = Room(f)
  BY DEF Room
<1>2. ASSUME f.commit_count > 0
      PROVE  EndsInDir(g) /\ entries # Empty
  <2>1. EndsInDir(f) /\ entries # Empty
    BY <1>2 DEF Filed
  <2>2. Len(f.data) \in 1..Len(f.data) /\ Len(f.data) > Room(f)
    BY <1>2 DEF Room
  <2>3. g.data[Len(f.data)] = f.data[Len(f.data)]
    BY <2>2
  <2>4. QED
    BY <2>1, <2>3 DEF EndsInDir
<1>3. QED
  BY <1>1, <1>2 DEF Filed

\* What a rewrite makes of the history and of the workspace, the entry's file being open.
Replaced(f, p, x) == [f EXCEPT ![p.file][p.entry] = x]
Rewritten(o, p, e, c, len) ==
    [Write(FileSeek(o, e.offset), Copies(c, len)) EXCEPT
        !.wrote[p.file][p.entry] = Put(@, 0, Copies(c, len)), !.clock = c]

\* write_scalar and write_string at the place of the entry, which is open:
\* every entry still has what was last written for it.
ShortEnough(len, e) == len \in Nat /\ len <= e.length
WellRewritten(o, p, len) ==
    LET e == EntriesOf(o, p.file)[p.entry]
        u == Rewritten(o, p, e, o.clock + 1, len)
    IN  /\ CanSeek(o, e.offset) /\ Held(u) /\ Good(u) /\ Final(u, o) /\ u.clock = o.clock + 1
        /\ u.fam.names = o.fam.names /\ u.fam.directory = o.fam.directory
        /\ u.fam.cur_index = o.fam.cur_index
        /\ u.wrote = Replaced(o.wrote, p, Put(o.wrote[p.file][p.entry], 0,
                                              Copies(o.clock + 1, len)))
        /\ Settled(o) => Settled(u)

LEMMA RewrittenHeld ==
    ASSUME NEW o, Held(o), Good(o), NEW p, IsPlace(p, o.fam.directory),
           o.fam.cur_index = p.file, NEW len, ShortEnough(len, EntriesOf(o, p.file)[p.entry])
    PROVE  WellRewritten(o, p, len)
<1> SUFFICES ASSUME NEW e, e = EntriesOf(o, p.file)[p.entry], NEW c, c = o.clock + 1,
                    len \in Nat, len <= e.length
             PROVE  LET u == Rewritten(o, p, e, c, len)
                    IN  /\ CanSeek(o, e.offset) /\ Held(u) /\ Good(u) /\ Final(u, o) /\ u.clock = c
                        /\ u.fam.names = o.fam.names /\ u.fam.directory = o.fam.directory
                        /\ u.fam.cur_index = o.fam.cur_index
                        /\ u.wrote = Replaced(o.wrote, p, Put(o.wrote[p.file][p.entry], 0,
                                                              Copies(c, len)))
                        /\ Settled(o) => Settled(u)
  BY DEF ShortEnough, WellRewritten
<1> DEFINE i == p.file
           j == p.entry
           n == Len(o.files)
           units == Copies(c, len)
           s == FileSeek(o, e.offset)
           v == Write(s, units)
           u == [v EXCEPT !.wrote[i][j] = Put(@, 0, units), !.clock = c]
           data == o.files[i].data
           room == Room(o.files[i])
           d == Put(data, e.offset, units)
           entries == EntriesOf(o, i)
           held == o.wrote[i]
           H == [held EXCEPT ![j] = Put(held[j], 0, units)]
<1>1. Shaped(o) /\ Laid(o) /\ Streamed(o) /\ Stated(o)
  BY DEF Held
<1>2. /\ n \in Nat /\ i \in 1..n /\ j \in 1..Len(entries) /\ e = entries[j]
      /\ o.fam.cur_index = i /\ i # NoFile /\ DOMAIN o = WorkFields
  <2>1. /\ n \in Nat /\ Len(o.fam.directory) = n /\ DOMAIN o = WorkFields
    BY <1>1, WorkFacts DEF n
  <2>2. i \in 1..n /\ j \in 1..Len(entries)
    BY <2>1 DEF IsPlace, EntriesOf, i, j
  <2>3. i # NoFile
    BY <2>1, <2>2 DEF NoFile
  <2>4. QED
    BY <2>1, <2>2, <2>3 DEF i, j
<1> HIDE DEF i, j, n
<1>3. /\ Filed(o.files[i], entries, held) /\ Layout(data, room, entries, held)
      /\ o.clock \in Nat /\ IsSeq(o.wrote) /\ Len(o.wrote) = n
  BY <1>1, <1>2 DEF Laid, Filed, n
<1>4. /\ e.offset \in Nat /\ e.length \in Nat /\ e.length >= 1 /\ e.offset + e.length <= room
      /\ room \in Nat /\ room <= Len(data) /\ Len(data) \in Nat /\ IsSeq(data)
      /\ IsSeq(held) /\ Len(held) = Len(entries)
  <2>1. Fits(e, room)
    BY <1>2, <1>3 DEF Layout
  <2>2. QED
    BY <1>3, <2>1, FitsTyped DEF Layout, IsSeq
<1>5. IsSeq(units) /\ Len(units) = len
  BY CopiesSeq
<1> HIDE DEF units
<1>6. CanSeek(o, e.offset)
  <2>1. o.fam.next_free_byte = Len(data)
    BY <1>1, <1>2 DEF Streamed
  <2> HIDE DEF data, room
  <2>2. e.offset < Len(data)
    BY <1>4
  <2>3. QED
    BY <2>1, <2>2 DEF CanSeek
<1>7. /\ Shaped(s) /\ SameMemory(s, o) /\ s.files = o.files /\ s.fam.pos = e.offset
      /\ s.fam.svars_fresh = o.fam.svars_fresh
      /\ s.fam.non_state_ready = o.fam.non_state_ready
  BY SeekIs
<1>8. Good(u)
  <2>1. Good(s)
    BY SeekGood
  <2> HIDE DEF s
  <2>2. Good(v)
    BY <2>1, WriteGood
  <2> HIDE DEF v
  <2>3. \A x : Good([v EXCEPT !.wrote[i][j] = x, !.clock = c])
    BY <2>2, HistoryGood
  <2>4. QED
    BY <2>3
<1> HIDE DEF s
<1>9. /\ Shaped(v) /\ SameMemory(v, o) /\ v.fam.pos = e.offset + len
      /\ Len(v.files) = n
      /\ \A k \in 1..n : k # i => v.files[k] = o.files[k]
      /\ v.files[i].data = d /\ v.files[i].dir = o.files[i].dir
      /\ v.files[i].commit_count = o.files[i].commit_count
  <2>1. s.fam.cur_index = i /\ Len(s.files) = n
    BY <1>2, <1>7 DEF SameMemory, n
  <2>2. s.fam.cur_index \in 1..Len(s.files)
    BY <1>2, <2>1
  <2>3. /\ Shaped(v) /\ SameMemory(v, s)
        /\ v.fam.pos = s.fam.pos + Len(units)
        /\ Len(v.files) = Len(s.files)
        /\ \A k \in 1..Len(s.files) : k # s.fam.cur_index => v.files[k] = s.files[k]
        /\ v.files[s.fam.cur_index].data = Put(s.files[s.fam.cur_index].data, s.fam.pos, units)
        /\ v.files[s.fam.cur_index].dir = s.files[s.fam.cur_index].dir
        /\ v.files[s.fam.cur_index].commit_count = s.files[s.fam.cur_index].commit_count
    BY <1>7, <2>2, WriteIs
  <2> HIDE DEF v
  <2>4. SameMemory(v, o)
    BY <1>7, <2>3 DEF SameMemory
  <2>5. QED
    BY <1>5, <1>7, <2>1, <2>3, <2>4
<1>l. Like(v, s)
  BY <1>7, WriteLike
<1> HIDE DEF v
<1>10. /\ u.files = v.files /\ u.fam = v.fam /\ u.clock = c
       /\ u.wrote = [o.wrote EXCEPT ![i][j] = Put(@, 0, units)]
  <2>1. DOMAIN v = WorkFields
    BY <1>9, WorkFacts
  <2>2. v.wrote = o.wrote
    BY <1>9 DEF SameMemory
  <2>3. QED
    BY <2>1, <2>2 DEF WorkFields
<1> HIDE DEF u
<1>11. /\ u.fam.names = o.fam.names /\ u.fam.directory = o.fam.directory
       /\ u.fam.cur_index = i /\ u.fam.srecs = o.fam.srecs
       /\ u.fam.next_free_byte = o.fam.next_free_byte /\ u.fam.pos = e.offset + len
  BY <1>2, <1>9, <1>10 DEF SameMemory
<1>12. /\ Layout(d, room, entries, H) /\ Len(d) = Len(data)
       /\ \A k \in 1..Len(data) : k > room => d[k] = data[k]
  <2> DEFINE z == Put(data, entries[j].offset, units)
  <2>1. z = d
    BY <1>2
  <2> HIDE DEF d, data, room, entries, held
  <2>2. Len(units) <= entries[j].length
    BY <1>2, <1>5
  <2>3. /\ Layout(z, room, entries, H) /\ Len(z) = Len(data)
        /\ \A k \in 1..Len(data) : k > room => z[k] = data[k]
    BY <1>2, <1>3, <1>5, <2>2, LayoutRewritten
  <2>4. QED
    BY <2>1, <2>3
<1> HIDE DEF d, data, room, entries, held, H
<1>13. /\ IsSeq(u.wrote) /\ Len(u.wrote) = n /\ u.wrote[i] = H
       /\ \A k \in 1..n : k # i => u.wrote[k] = o.wrote[k]
  <2>1. DOMAIN o.wrote = 1..n
    BY <1>3 DEF IsSeq
  <2>2. /\ DOMAIN u.wrote = 1..n /\ u.wrote = [k \in DOMAIN u.wrote |-> u.wrote[k]]
        /\ \A k \in 1..n : k # i => u.wrote[k] = o.wrote[k]
    BY <1>10, <2>1
  <2>3. u.wrote[i] = H
    BY <1>2, <1>10, <2>1 DEF H, held
  <2>4. IsSeq(u.wrote) /\ Len(u.wrote) = n
    BY <1>3, <2>2, ReplaceInSeq
  <2>5. QED
    BY <2>2, <2>3, <2>4
<1>14. Filed(u.files[i], entries, H)
  <2>1. u.files[i].data = d /\ u.files[i].commit_count = o.files[i].commit_count
    BY <1>9, <1>10
  <2>2. Len(data) \in Nat /\ Len(data) >= 1
    BY <1>4
  <2>3. QED
    BY <1>3, <1>12, <2>1, <2>2, RoomStays DEF data, room
<1>15. Laid(u)
  <2>1. \A k \in 1..Len(o.files) : k # i => /\ u.files[k] = o.files[k]
                                            /\ EntriesOf(u, k) = EntriesOf(o, k)
                                            /\ u.wrote[k] = o.wrote[k]
    BY <1>9, <1>10, <1>11, <1>13 DEF EntriesOf, n
  <2>2. Filed(u.files[i], EntriesOf(u, i), u.wrote[i])
    BY <1>11, <1>13, <1>14 DEF entries, EntriesOf
  <2>3. i = 1 => HeaderFree(u.files[1].data, EntriesOf(u, 1))
    BY <1>1, <1>9, <1>10, <1>11, <1>12 DEF Laid, HeaderFree, EntriesOf, data
  <2>4. u.clock \in Nat /\ i \in 1..Len(o.files) /\ Len(u.files) = Len(o.files)
        /\ IsSeq(u.wrote) /\ Len(u.wrote) = Len(o.wrote)
    BY <1>2, <1>3, <1>9, <1>10, <1>13 DEF n
  <2>5. QED
    BY <1>1, <2>1, <2>2, <2>3, <2>4, LaidAt
<1>16. Streamed(u)
  <2>1. Len(u.files) = n /\ u.files[i].data = d
    BY <1>9, <1>10
  <2>2. o.fam.next_free_byte = Len(data)
    BY <1>1, <1>2 DEF Streamed, data
  <2>3. e.offset + len \in 0..Len(data) /\ i \in 0..n
    BY <1>2, <1>4
  <2>4. QED
    BY <1>11, <1>12, <2>1, <2>2, <2>3 DEF Streamed
<1>17. Held(u)
  BY <1>1, <1>8, <1>11, <1>15, <1>16 DEF Held, Stated, Good
<1>18. Final(u, o)
  <2>1. Kept(u.files[i], o.files[i])
    BY <1>9, <1>10, <1>12 DEF Kept, data
  <2>2. ASSUME NEW k \in 1..n
        PROVE  Kept(u.files[k], o.files[k])
    BY <1>9, <1>10, <2>1, <2>2 DEF Kept
  <2>3. Len(u.files) = n
    BY <1>9, <1>10
  <2>4. QED
    BY <1>2, <2>2, <2>3 DEF Final, n
<1>19. Settled(o) => Settled(u)
  BY <1>7, <1>10, <1>11, <1>l DEF Settled, Uncommitted, LastDir, file_count, Like
<1>20. QED
  BY <1>2, <1>6, <1>8, <1>10, <1>11, <1>17, <1>18, <1>19 DEF u, v, s, units, i, j, n, Rewritten, Replaced

\* The entry of a name gets other units, and the name their value.
LEMMA RewrittenFound ==
    ASSUME NEW o, Held(o), NEW val, Found(o, val), NEW n \in Names,
           NEW p, p = o.fam.names[n], p # Nowhere, NEW units,
           NEW u, u.fam.names = o.fam.names, u.fam.directory = o.fam.directory,
           u.wrote = Replaced(o.wrote, p, Put(o.wrote[p.file][p.entry], 0, units))
    PROVE  Found(u, [val EXCEPT ![n] = Put(@, 0, units)])
<1> DEFINE names == o.fam.names
           new == [val EXCEPT ![n] = Put(val[n], 0, units)]
<1>1. Tabled(names, o.fam.directory) /\ Valued(val, names, o.wrote)
  BY DEF Found
<1>2. /\ Len(o.wrote) = Len(o.files) /\ IsSeq(o.wrote) /\ Len(o.fam.directory) = Len(o.files)
      /\ \A i \in 1..Len(o.files) : /\ Len(o.wrote[i]) = Len(EntriesOf(o, i))
                                    /\ IsSeq(o.wrote[i])
  <2>1. Len(o.fam.directory) = Len(o.files)
    BY WorkFacts DEF Held
  <2>2. QED
    BY <2>1 DEF Held, Laid, Filed, Layout
<1>3. ASSUME NEW q, IsPlace(q, o.fam.directory)
      PROVE  /\ q.file \in DOMAIN o.wrote /\ q.entry \in DOMAIN o.wrote[q.file]
             /\ q = [file |-> q.file, entry |-> q.entry]
  <2> DEFINE i == q.file
             j == q.entry
  <2>1. i \in 1..Len(o.files) /\ j \in 1..Len(EntriesOf(o, i))
    BY <1>2, <1>3 DEF IsPlace, EntriesOf
  <2> HIDE DEF i, j
  <2>2. DOMAIN o.wrote = 1..Len(o.files) /\ DOMAIN o.wrote[i] = 1..Len(EntriesOf(o, i))
    BY <1>2, <2>1 DEF IsSeq
  <2>3. QED
    BY <1>3, <2>1, <2>2 DEF i, j, IsPlace
<1>4. IsPlace(p, o.fam.directory) /\ EntriesOf(o, p.file)[p.entry].name = n
  BY <1>1 DEF Tabled, LastOf, EntriesOf
<1>5. u.wrote[p.file][p.entry] = Put(val[n], 0, units)
  <2>1. val[n] = o.wrote[p.file][p.entry]
    BY <1>1 DEF Valued
  <2>2. p.file \in DOMAIN o.wrote /\ p.entry \in DOMAIN o.wrote[p.file]
    BY <1>3, <1>4
  <2>3. u.wrote[p.file][p.entry] = Put(o.wrote[p.file][p.entry], 0, units)
    <3> DEFINE f == o.wrote
               x == Put(f[p.file][p.entry], 0, units)
    <3>1. u.wrote = Replaced(f, p, x) /\ p.file \in DOMAIN f /\ p.entry \in DOMAIN f[p.file]
      BY <2>2
    <3> HIDE DEF f, x
    <3>2. Replaced(f, p, x)[p.file][p.entry] = x
      BY <3>1 DEF Replaced
    <3>3. u.wrote[p.file][p.entry] = x
      BY <3>1, <3>2
    <3>4. QED
      BY <3>3 DEF x, f
  <2>4. QED
    BY <2>1, <2>3
<1>6. ASSUME NEW m \in Names, m # n, names[m] # Nowhere
      PROVE  u.wrote[names[m].file][names[m].entry] = o.wrote[names[m].file][names[m].entry]
  <2> DEFINE q == names[m]
  <2>1. IsPlace(q, o.fam.directory) /\ EntriesOf(o, q.file)[q.entry].name = m
    BY <1>1, <1>6 DEF Tabled, LastOf, EntriesOf
  <2> HIDE DEF q
  <2>2. q.file # p.file \/ q.entry # p.entry
    BY <1>4, <1>6, <2>1
  <2>3. /\ q.file \in DOMAIN o.wrote /\ q.entry \in DOMAIN o.wrote[q.file]
        /\ p.file \in DOMAIN o.wrote /\ p.entry \in DOMAIN o.wrote[p.file]
    BY <1>3, <1>4, <2>1
  <2>4. u.wrote[q.file][q.entry] = o.wrote[q.file][q.entry]
    <3> DEFINE f == o.wrote
               x == Put(f[p.file][p.entry], 0, units)
    <3>1. /\ u.wrote = Replaced(f, p, x) /\ p.file \in DOMAIN f /\ p.entry \in DOMAIN f[p.file]
          /\ q.file \in DOMAIN f /\ q.entry \in DOMAIN f[q.file]
      BY <2>3
    <3> HIDE DEF f, x
    <3>2. \A k \in DOMAIN f : \A l \in DOMAIN f[k] :
            k # p.file \/ l # p.entry => Replaced(f, p, x)[k][l] = f[k][l]
      BY <3>1 DEF Replaced
    <3>3. u.wrote[q.file][q.entry] = f[q.file][q.entry]
      BY <2>2, <3>1, <3>2
    <3>4. QED
      BY <3>3 DEF f
  <2>5. QED
    BY <2>4 DEF q
<1>7. /\ new = [m \in Names |-> new[m]] /\ new[n] = Put(val[n], 0, units)
      /\ \A m \in Names : m # n => new[m] = val[m]
  BY <1>1, ValueGiven DEF Valued
<1>8. ASSUME NEW m \in Names
      PROVE  new[m] = IF names[m] = Nowhere THEN Empty
                      ELSE u.wrote[names[m].file][names[m].entry]
  <2>1. CASE m = n
    BY <1>5, <1>7, <2>1
  <2>2. CASE m # n
    <3>1. new[m] = val[m]
      BY <1>7, <2>2
    <3>2. val[m] = IF names[m] = Nowhere THEN Empty
                   ELSE o.wrote[names[m].file][names[m].entry]
      BY <1>1 DEF Valued
    <3>3. QED
      BY <1>6, <2>2, <3>1, <3>2
  <2>3. QED
    BY <2>1, <2>2
<1>9. Valued(new, u.fam.names, u.wrote)
  BY <1>7, <1>8 DEF Valued
<1>10. Found(u, new)
  BY <1>1, <1>9 DEF Found
<1>11. QED
  BY <1>10

\* write_scalar and write_string on a name that is there
LEMMA RewriteHeld ==
    ASSUME NEW w, Held(w), Good(w), NEW val, Found(w, val), NEW n \in Names,
           NEW p, p = w.fam.names[n], p # Nowhere,
           NEW len \in Nat, len <= EntriesOf(w, p.file)[p.entry].length
    PROVE  LET v == Rewrite(w, n, len)
           IN  /\ Held(v) /\ Good(v) /\ Final(v, w)
               /\ Found(v, [val EXCEPT ![n] = Put(@, 0, Copies(v.clock, len))])
<1> DEFINE e == EntriesOf(w, p.file)[p.entry]
           o == FileOpen(w, p.file)
           c == o.clock + 1
           u == Rewritten(o, p, e, c, len)
           r == Rewrite(w, n, len)
           new == [val EXCEPT ![n] = Put(@, 0, Copies(c, len))]
<1>1. Shaped(w) /\ Good(r)
  BY RewriteGood DEF Held
<1>2. r = IF ~CanSeek(o, e.offset) THEN o
          ELSE IF w.fam.cur_index = p.file THEN SeekEnd(u) ELSE FileClose(u)
  BY DEF Rewrite, EntriesOf, Rewritten
<1>3. IsPlace(p, w.fam.directory) /\ p.file \in 1..Len(w.files)
      /\ p.entry \in 1..Len(EntriesOf(w, p.file))
  <2>1. IsPlace(p, w.fam.directory)
    BY DEF Found, Tabled, LastOf
  <2>2. Len(w.fam.directory) = Len(w.files)
    BY <1>1, WorkFacts
  <2>3. QED
    BY <2>1, <2>2 DEF IsPlace, EntriesOf
<1>4. /\ Held(o) /\ Good(o) /\ Extends(o, w, "") /\ o.fam.cur_index = p.file
      /\ w.fam.cur_index # p.file => Settled(o)
  BY <1>3, FileOpenHeld
<1> HIDE DEF o
<1>5. Shaped(o) /\ Found(o, val) /\ Final(o, w) /\ o.fam.names = w.fam.names
  <2>1. Shaped(o)
    BY <1>4 DEF Held
  <2>2. Found(o, val)
    BY <1>1, <1>4, <2>1, FoundStays
  <2>3. Final(o, w)
    BY <1>4, ExtendsFinal
  <2>4. o.fam.names = w.fam.names
    BY <1>4 DEF Extends
  <2>5. QED
    BY <2>1, <2>2, <2>3, <2>4
<1>6. IsPlace(p, o.fam.directory) /\ e = EntriesOf(o, p.file)[p.entry]
  <2>1. IsPlace(p, o.fam.directory)
    BY <1>5 DEF Found, Tabled, LastOf
  <2>2. EntriesOf(o, p.file)[p.entry] = EntriesOf(w, p.file)[p.entry]
    BY <1>3, <1>4 DEF Extends
  <2>3. QED
    BY <2>1, <2>2
<1> HIDE DEF e, r
<1>7. /\ CanSeek(o, e.offset) /\ Held(u) /\ Good(u) /\ Final(u, o) /\ u.clock = c
      /\ u.fam.names = o.fam.names /\ u.fam.directory = o.fam.directory
      /\ u.fam.cur_index = o.fam.cur_index
      /\ u.wrote = Replaced(o.wrote, p, Put(o.wrote[p.file][p.entry], 0, Copies(c, len)))
      /\ Settled(o) => Settled(u)
  <2>1. ShortEnough(len, EntriesOf(o, p.file)[p.entry])
    BY <1>6 DEF e, ShortEnough
  <2>2. /\ Held(o) /\ Good(o) /\ IsPlace(p, o.fam.directory) /\ o.fam.cur_index = p.file
    BY <1>4, <1>6
  <2> DEFINE f == EntriesOf(o, p.file)[p.entry]
             x == Rewritten(o, p, f, o.clock + 1, len)
  <2>w. WellRewritten(o, p, len)
    BY <2>1, <2>2, RewrittenHeld
  <2>3. /\ CanSeek(o, f.offset) /\ Held(x) /\ Good(x) /\ Final(x, o) /\ x.clock = o.clock + 1
        /\ x.fam.names = o.fam.names /\ x.fam.directory = o.fam.directory
        /\ x.fam.cur_index = o.fam.cur_index
        /\ x.wrote = Replaced(o.wrote, p, Put(o.wrote[p.file][p.entry], 0,
                                              Copies(o.clock + 1, len)))
        /\ Settled(o) => Settled(x)
    BY <2>w DEF WellRewritten
  <2>4. e = f /\ u = x
    BY <1>6
  <2> HIDE DEF f, x, u
  <2>5. QED
    BY <2>3, <2>4
<1> HIDE DEF u, c
<1>8. Shaped(u) /\ Found(u, new) /\ Final(u, w)
  <2>1. Shaped(u)
    BY <1>7 DEF Held
  <2> DEFINE units == Copies(c, len)
  <2>u. /\ u.fam.names = o.fam.names /\ u.fam.directory = o.fam.directory
        /\ u.wrote = Replaced(o.wrote, p, Put(o.wrote[p.file][p.entry], 0, units))
    BY <1>7
  <2>n. new = [val EXCEPT ![n] = Put(@, 0, units)]
    OBVIOUS
  <2>p. p = o.fam.names[n]
    BY <1>5
  <2> HIDE DEF units, new
  <2>2. Found(u, new)
    BY <1>4, <1>5, <2>u, <2>n, <2>p, RewrittenFound
  <2>3. QED
    BY <1>1, <1>5, <1>7, <2>1, <2>2, FinalOn
<1> HIDE DEF new
<1>11. Held(r) /\ Extends(r, u, "") /\ r.clock = c
  <2>1. CASE w.fam.cur_index = p.file
    <3>1. r = SeekEnd(u)
      BY <1>2, <1>7, <2>1
    <3>2. u.fam.cur_index # NoFile
      <4>1. Len(w.files) \in Nat
        BY <1>1, WorkFacts
      <4>2. p.file # NoFile
        BY <1>3, <4>1 DEF NoFile
      <4>3. QED
        BY <1>4, <1>7, <4>2
    <3>3. Held(r) /\ Extends(r, u, "") /\ r.clock = u.clock
      BY <1>7, <3>1, <3>2, SeekEndIs DEF SameMemory
    <3>4. QED
      BY <1>7, <3>3
  <2>2. CASE w.fam.cur_index # p.file
    <3>1. r = FileClose(u) /\ Settled(u)
      BY <1>2, <1>4, <1>7, <2>2
    <3>2. Held(r) /\ Extends(r, u, "")
      BY <1>7, <3>1, FileCloseHeld
    <3>3. FileClose(u).clock = u.clock
      <4>1. ~COMMIT_NS(u)
        BY <3>1 DEF COMMIT_NS, Settled
      <4>2. DOMAIN u = WorkFields
        BY <1>8, WorkFacts
      <4>3. FileClose(u) = IF u.fam.cur_index = NoFile THEN u ELSE [u EXCEPT !.fam.cur_index = NoFile]
        BY <4>1 DEF FileClose
      <4>4. QED
        BY <4>2, <4>3 DEF WorkFields
    <3>4. QED
      BY <1>7, <3>1, <3>2, <3>3
  <2>3. QED
    BY <2>1, <2>2
<1>12. Found(r, new) /\ Final(r, w)
  <2>1. Shaped(r)
    BY <1>11 DEF Held
  <2>2. Found(r, new)
    BY <1>8, <1>11, <2>1, FoundStays
  <2>3. Final(r, u)
    BY <1>11, ExtendsFinal
  <2>4. QED
    BY <1>1, <1>8, <2>2, <2>3, FinalOn
<1>13. new = [val EXCEPT ![n] = Put(@, 0, Copies(r.clock, len))]
  BY <1>11 DEF new
<1>14. QED
  BY <1>1, <1>11, <1>12, <1>13 DEF r

\* A read moves the stream.
LEMMA SeekHeld ==
    ASSUME NEW w, Held(w), Good(w), w.fam.cur_index # NoFile,
           NEW p, p \in 0..Len(w.files[w.fam.cur_index].data)
    PROVE  LET v == FileSeek(w, p)
           IN  Held(v) /\ Good(v) /\ Extends(v, w, "")
<1> DEFINE v == FileSeek(w, p)
<1>1. /\ Shaped(v) /\ SameMemory(v, w) /\ v.files = w.files /\ v.fam.pos = p
  BY SeekIs
<1>2. Good(v)
  BY SeekGood
<1> HIDE DEF v
<1>3. Laid(v) /\ Streamed(v) /\ Stated(v)
  BY <1>1 DEF Held, Laid, Streamed, Stated, SameMemory, EntriesOf
<1>4. Extends(v, w, "")
  BY <1>1, ExtendsSame DEF Held, SameMemory
<1>5. QED
  BY <1>1, <1>2, <1>3, <1>4 DEF Held, v

\* write_header on a settled family, at the start of the A-file.
Headed(o) ==
    [Write(o, <<o.clock + 1>>) EXCEPT !.fam.char_header = o.clock + 1, !.clock = o.clock + 1]

LEMMA HeaderHeld ==
    ASSUME NEW o, Held(o), Settled(o), o.fam.cur_index = 1, o.fam.pos = 0,
           NEW val, Found(o, val)
    PROVE  LET u == Headed(o)
           IN  Held(u) /\ Good(u) /\ Final(u, o) /\ Found(u, val)
<1> SUFFICES ASSUME NEW c, c = o.clock + 1, NEW n, n = Len(o.files),
                    NEW u, u = [Write(o, <<c>>) EXCEPT !.fam.char_header = c, !.clock = c]
             PROVE  Held(u) /\ Good(u) /\ Final(u, o) /\ Found(u, val)
  BY DEF Headed
<1> DEFINE v == Write(o, <<c>>)
           data == o.files[1].data
           d == Put(data, 0, <<c>>)
           entries == EntriesOf(o, 1)
           held == o.wrote[1]
<1>1. Shaped(o) /\ Laid(o) /\ Streamed(o) /\ Stated(o)
  BY DEF Held
<1>2. n \in Nat /\ 1 \in 1..n /\ DOMAIN o = WorkFields
  <2>1. n \in Nat /\ n >= 1 /\ DOMAIN o = WorkFields
    BY <1>1, WorkFacts
  <2>2. QED
    BY <2>1
<1>3. /\ Filed(o.files[1], entries, held) /\ Layout(data, Room(o.files[1]), entries, held)
      /\ IsSeq(data) /\ Len(data) \in Nat /\ Len(data) >= 1
      /\ \A j \in 1..Len(entries) : entries[j].offset >= 1
      /\ o.clock \in Nat /\ IsSeq(o.wrote) /\ Len(o.wrote) = n
      /\ IsSeq(entries)
  BY <1>1, <1>2 DEF Laid, Filed, HeaderFree, Layout, IsSeq
<1>4. /\ Shaped(v) /\ SameMemory(v, o) /\ v.fam.pos = 1 /\ Len(v.files) = n
      /\ \A k \in 1..n : k # 1 => v.files[k] = o.files[k]
      /\ v.files[1].data = d /\ v.files[1].dir = o.files[1].dir
      /\ v.files[1].commit_count = o.files[1].commit_count
  <2>1. o.fam.cur_index \in 1..Len(o.files)
    BY <1>2
  <2>2. Len(<<c>>) = 1
    BY OneElement
  <2>3. /\ Shaped(v) /\ SameMemory(v, o)
        /\ v.fam.pos = o.fam.pos + Len(<<c>>)
        /\ Len(v.files) = Len(o.files)
        /\ \A k \in 1..Len(o.files) : k # o.fam.cur_index => v.files[k] = o.files[k]
        /\ v.files[o.fam.cur_index].data = Put(o.files[o.fam.cur_index].data, o.fam.pos, <<c>>)
        /\ v.files[o.fam.cur_index].dir = o.files[o.fam.cur_index].dir
        /\ v.files[o.fam.cur_index].commit_count = o.files[o.fam.cur_index].commit_count
    BY <1>1, <2>1, WriteIs
  <2> HIDE DEF v
  <2>4. QED
    BY <2>2, <2>3
<1>5. Like(v, o)
  BY <1>1, WriteLike
<1> HIDE DEF v
<1>6. /\ DOMAIN v = WorkFields /\ DOMAIN v.fam = FamFields /\ u.clock = c
      /\ DOMAIN u = WorkFields /\ u.ok = v.ok
      /\ u.files = v.files /\ u.wrote = o.wrote
      /\ u.fam = [v.fam EXCEPT !.char_header = c]
  <2>1. DOMAIN v = WorkFields /\ DOMAIN v.fam = FamFields /\ v.wrote = o.wrote
    BY <1>4, WorkFacts DEF SameMemory
  <2>2. u = [v EXCEPT !.fam.char_header = c, !.clock = c]
    BY DEF v
  <2>3. QED
    BY <2>1, <2>2 DEF WorkFields
<1>7. /\ DOMAIN u.fam = FamFields
      /\ u.fam.directory = v.fam.directory /\ u.fam.srecs = v.fam.srecs
      /\ u.fam.commit_max = v.fam.commit_max /\ u.fam.svars_fresh = v.fam.svars_fresh
      /\ u.fam.non_state_ready = v.fam.non_state_ready
      /\ u.fam.commit_count = v.fam.commit_count /\ u.fam.names = v.fam.names
      /\ u.fam.cur_index = v.fam.cur_index /\ u.fam.pos = v.fam.pos
      /\ u.fam.next_free_byte = v.fam.next_free_byte
  BY <1>6 DEF FamFields
<1>8. Shaped(u) /\ Settled(u) /\ Good(u)
  <2>1. Like(u, v)
    <3>1. Like(v, v)
      BY <1>4, SelfLike
    <3>2. QED
      BY <1>6, <1>7, <3>1 DEF Like
  <2>2. Settled(v)
    BY <1>1, <1>5, LikeIsSettled
  <2>3. QED
    BY <1>4, <2>1, <2>2, LikeIsSettled
<1>9. /\ u.fam.names = o.fam.names /\ u.fam.directory = o.fam.directory
      /\ u.fam.cur_index = 1 /\ u.fam.srecs = o.fam.srecs
      /\ u.fam.next_free_byte = o.fam.next_free_byte /\ u.fam.pos = 1
  BY <1>4, <1>7 DEF SameMemory
<1> HIDE DEF d
<1>10. /\ IsSeq(d) /\ Len(d) = Len(data) /\ \A k \in 1..Len(data) : k > 1 => d[k] = data[k]
  <2> HIDE DEF data
  <2>1. IsSeq(<<c>>) /\ Len(<<c>>) = 1
    BY OneElement
  <2> DEFINE z == Put(data, 0, <<c>>)
             stop == 0 + Len(<<c>>)
  <2>2. /\ IsSeq(z) /\ Len(z) = IF stop > Len(data) THEN stop ELSE Len(data)
        /\ \A k \in 1..Len(z) : z[k] = IF k > 0 /\ k <= stop THEN <<c>>[k - 0] ELSE data[k]
    <3> DEFINE one == <<c>>
               at == 0
    <3>1. at \in Nat /\ IsSeq(data)
      BY <1>3
    <3>2. IsSeq(one)
      BY <2>1
    <3> HIDE DEF one, at
    <3>3. IsPut(Put(data, at, one), data, at, one)
      BY <3>1, <3>2, PutUnits
    <3>4. QED
      BY <3>3 DEF IsPut, one, at
  <2>3. z = d /\ stop = 1
    BY <2>1 DEF d, data
  <2> HIDE DEF z, stop
  <2>4. Len(z) = Len(data)
    BY <1>3, <2>2, <2>3
  <2>5. \A k \in 1..Len(data) : k > 1 => z[k] = data[k]
    BY <1>3, <2>2, <2>3, <2>4
  <2>6. QED
    BY <2>2, <2>3, <2>4, <2>5
<1> HIDE DEF data, entries, held
<1>11. Layout(d, Room(o.files[1]), entries, held)
  <2> DEFINE room == Room(o.files[1])
  <2>1. Layout(data, room, entries, held) /\ room <= Len(data) /\ room \in Nat /\ Len(data) \in Nat
    BY <1>3 DEF Layout
  <2> HIDE DEF room
  <2>2. ASSUME NEW j \in 1..Len(entries)
        PROVE  SameUnits(d, data, entries[j])
    <3> DEFINE e == entries[j]
    <3>1. Fits(e, room) /\ e.offset >= 1
      BY <1>3, <2>1 DEF Layout
    <3> HIDE DEF e
    <3>2. e.offset \in Nat /\ e.length \in Nat /\ e.offset + e.length <= room
      BY <3>1, FitsTyped
    <3>3. ASSUME NEW k \in 1..e.length
          PROVE  d[e.offset + k] = data[e.offset + k]
      <4>1. e.offset + k \in 1..Len(data) /\ e.offset + k > 1
        BY <2>1, <3>1, <3>2
      <4>2. QED
        BY <1>10, <4>1
    <3>4. SameUnits(d, data, e)
      BY <3>3 DEF SameUnits
    <3>5. QED
      BY <3>4 DEF e
  <2>3. Layout(d, room, entries, held)
    BY <1>10, <2>1, <2>2, LayoutStays
  <2>4. QED
    BY <2>3 DEF room
<1>12. \A k \in 1..Len(data) : k > Room(o.files[1]) => d[k] = data[k]
  <2>1. CASE o.files[1].commit_count > 0
    <3>1. entries # Empty /\ Room(o.files[1]) = Len(data) - 1
      BY <1>3, <2>1 DEF Filed, Room, data
    <3>2. 1 \in 1..Len(entries)
      <4>1. Len(entries) > 0 /\ Len(entries) \in Nat
        BY <1>3, <3>1, NotEmpty DEF IsSeq
      <4>2. QED
        BY <4>1
    <3>3. Fits(entries[1], Room(o.files[1])) /\ entries[1].offset >= 1
      BY <1>3, <3>2 DEF Layout
    <3>4. Room(o.files[1]) > 1
      BY <1>3, <3>1, <3>3, FitsTyped
    <3>5. QED
      BY <1>3, <1>10, <3>1, <3>4
  <2>2. CASE ~(o.files[1].commit_count > 0)
    <3>1. Room(o.files[1]) = Len(data)
      BY <2>2 DEF Room, data
    <3>2. QED
      BY <1>3, <3>1
  <2>3. QED
    BY <2>1, <2>2
<1>13. Filed(u.files[1], entries, held)
  <2> DEFINE f == o.files[1]
             g == u.files[1]
  <2>1. g.data = d /\ g.commit_count = f.commit_count /\ f.data = data
    BY <1>4, <1>6 DEF data
  <2>2. /\ Filed(f, entries, held) /\ Layout(d, Room(f), entries, held)
        /\ Len(data) \in Nat /\ Len(data) >= 1 /\ Len(d) = Len(data)
        /\ \A k \in 1..Len(data) : k > Room(f) => d[k] = data[k]
    BY <1>3, <1>10, <1>11, <1>12
  <2> HIDE DEF f, g
  <2>3. /\ Len(f.data) \in Nat /\ Len(f.data) >= 1 /\ Len(g.data) = Len(f.data)
        /\ Layout(g.data, Room(f), entries, held)
        /\ \A k \in 1..Len(f.data) : k > Room(f) => g.data[k] = f.data[k]
    BY <2>1, <2>2
  <2>4. Filed(g, entries, held)
    BY <2>1, <2>2, <2>3, RoomStays
  <2>5. QED
    BY <2>4 DEF g
<1>14. Laid(u)
  <2>1. \A k \in 1..Len(o.files) : k # 1 => /\ u.files[k] = o.files[k]
                                            /\ EntriesOf(u, k) = EntriesOf(o, k)
                                            /\ u.wrote[k] = o.wrote[k]
    BY <1>4, <1>6, <1>9 DEF EntriesOf
  <2>2. Filed(u.files[1], EntriesOf(u, 1), u.wrote[1])
    BY <1>6, <1>9, <1>13 DEF entries, held, EntriesOf
  <2>3. HeaderFree(u.files[1].data, EntriesOf(u, 1))
    BY <1>1, <1>4, <1>6, <1>9, <1>10 DEF Laid, HeaderFree, EntriesOf, data
  <2>4. u.clock \in Nat /\ 1 \in 1..Len(o.files) /\ Len(u.files) = Len(o.files)
        /\ IsSeq(u.wrote) /\ Len(u.wrote) = Len(o.wrote)
    BY <1>2, <1>3, <1>4, <1>6
  <2>5. ASSUME NEW k \in 1..Len(o.files)
        PROVE  Filed(u.files[k], EntriesOf(u, k), u.wrote[k])
    <3>1. CASE k = 1
      BY <2>2, <3>1
    <3>2. CASE k # 1
      BY <1>1, <2>1, <3>2 DEF Laid
    <3>3. QED
      BY <3>1, <3>2
  <2>6. Len(o.wrote) = Len(o.files)
    BY <1>1 DEF Laid
  <2>7. QED
    BY <2>3, <2>4, <2>5, <2>6 DEF Laid
<1>15. Streamed(u)
  <2>1. Len(u.files) = n /\ u.files[1].data = d
    BY <1>4, <1>6
  <2>2. o.fam.next_free_byte = Len(data)
    BY <1>1 DEF Streamed, data, NoFile
  <2>3. 1 \in 0..Len(data) /\ 1 \in 0..n
    BY <1>2, <1>3
  <2>4. QED
    BY <1>9, <1>10, <2>1, <2>2, <2>3 DEF Streamed
<1>16. Held(u)
  BY <1>1, <1>8, <1>9, <1>14, <1>15 DEF Held, Stated
<1>17. Final(u, o)
  <2>1. Kept(u.files[1], o.files[1])
    BY <1>4, <1>6, <1>10 DEF Kept, data
  <2>2. ASSUME NEW k \in 1..n
        PROVE  Kept(u.files[k], o.files[k])
    BY <1>4, <1>6, <2>1, <2>2 DEF Kept
  <2>3. Len(u.files) = n
    BY <1>4, <1>6
  <2>4. QED
    BY <1>2, <2>2, <2>3 DEF Final
<1>18. Found(u, val)
  BY <1>6, <1>9 DEF Found
<1>19. QED
  BY <1>8, <1>16, <1>17, <1>18

-----------------------------------------------------------------------------
(***************************************************************************)
(* The calls.                                                              *)
(***************************************************************************)
Modes == {"open", "closed", "dead", "overflow"}

DataInv == ClosedInv /\ Held(Now) /\ Found(Now, value) /\ proc \in Modes

\* What a call keeps, and what it leaves as it was.
DataKept == Held(Now)' /\ Found(Now, value)' /\ Final(Now', Now)

\* What the invariant says of the workspace a call starts from.
LEMMA DataNow ==
    ASSUME DataInv
    PROVE  Held(Now) /\ Good(Now) /\ Shaped(Now) /\ Found(Now, value)
  BY DEF DataInv, ClosedInv, IInv, Held

\* A call's workspace is what the variables become.
LEMMA BecomesHeld ==
    ASSUME DataInv, NEW w, Held(w), Good(w), Final(w, Now), NEW p, p # "overflow", Becomes(w, p),
           Found(w, value')
    PROVE  DataKept
<1> DEFINE v == [files |-> w.files, fam |-> w.fam, wrote |-> w.wrote,
                 clock |-> w.clock, ok |-> TRUE]
<1>1. /\ files' = w.files /\ fam' = w.fam /\ wrote' = w.wrote /\ clock' = w.clock
  BY DEF Good, Shaped, Becomes
<1>2. Now' = v
  BY <1>1 DEF Now
<1>3. Shaped(v)
  BY DEF Good, Shaped, WorkFields
<1>4. v.files = w.files /\ v.fam = w.fam /\ v.wrote = w.wrote /\ v.clock = w.clock
  OBVIOUS
<1> HIDE DEF v
<1>5. Held(v)
  BY <1>3, <1>4, HeldSame
<1>6. Found(v, value')
  BY <1>4 DEF Found
<1>7. Final(v, Now)
  BY <1>4 DEF Final
<1>8. QED
  BY <1>2, <1>5, <1>6, <1>7 DEF DataKept

\* A call that adds no parameter.
LEMMA BecomesExtended ==
    ASSUME DataInv, NEW w, Held(w), Good(w), Extends(w, Now, ""), NEW p, p # "overflow",
           Becomes(w, p), UNCHANGED value
    PROVE  DataKept
<1>1. Found(Now, value) /\ Shaped(Now) /\ Shaped(w)
  BY DataNow DEF Held
<1>2. Found(w, value)
  BY <1>1, FoundStays
<1>3. Final(w, Now)
  BY ExtendsFinal
<1>4. Found(w, value')
  BY <1>2
<1>5. QED
  BY <1>3, <1>4, BecomesHeld

\* A call that changes only the formats and flags in memory.
LEMMA FlagsHeld ==
    ASSUME DataInv, IInv', UNCHANGED <<files, wrote, value, clock>>,
           fam'.directory = fam.directory, fam'.names = fam.names,
           fam'.cur_index = fam.cur_index, fam'.pos = fam.pos,
           fam'.next_free_byte = fam.next_free_byte, Stated(Now)'
    PROVE  DataKept
<1> DEFINE w == Now
           v == [files |-> files, fam |-> fam', wrote |-> wrote, clock |-> clock, ok |-> TRUE]
<1>1. Now' = v
  BY DEF Now
<1>2. Held(w) /\ Found(w, value) /\ Shaped(w)
  BY DataNow
<1>3. /\ w.files = v.files /\ w.wrote = v.wrote /\ w.clock = v.clock
      /\ w.fam = fam /\ v.fam = fam'
  BY DEF Now
<1> HIDE DEF w, v
<1>4. Shaped(v) /\ Stated(v)
  BY <1>1 DEF IInv, Good
<1>5. Laid(v) /\ Streamed(v)
  BY <1>2, <1>3 DEF Held, Laid, Streamed, EntriesOf
<1>6. Found(v, value)
  BY <1>2, <1>3 DEF Found
<1>7. Extends(v, w, "")
  BY <1>2, <1>3, ExtendsSame
<1>8. Final(v, w)
  BY <1>7, ExtendsFinal
<1>9. QED
  BY <1>1, <1>4, <1>5, <1>6, <1>8 DEF DataKept, Held, w

\* Of a value that was not given before, all is what is given.
LEMMA PutInEmpty ==
    ASSUME NEW units, IsSeq(units)
    PROVE  Put(Empty, 0, units) = units
<1> DEFINE at == 0
           d == Put(Empty, at, units)
<1>1. IsSeq(Empty) /\ Len(Empty) = 0 /\ Len(units) \in Nat /\ at \in Nat /\ at = 0
  BY DEF IsSeq, Empty
<1> HIDE DEF at
<1>2. /\ IsSeq(d) /\ Len(d) = IF at + Len(units) > Len(Empty) THEN at + Len(units) ELSE Len(Empty)
      /\ \A u \in 1..Len(d) : d[u] = IF u > at /\ u <= at + Len(units) THEN units[u - at]
                                     ELSE Empty[u]
  BY <1>1, PutUnits DEF IsPut
<1> HIDE DEF d
<1>3. Len(d) = Len(units)
  BY <1>1, <1>2
<1>4. \A u \in 1..Len(units) : d[u] = units[u]
  BY <1>1, <1>2, <1>3
<1>5. d = [u \in 1..Len(units) |-> units[u]]
  BY <1>2, <1>3, <1>4 DEF IsSeq
<1>6. d = units
  BY <1>5 DEF IsSeq
<1>7. QED
  BY <1>6 DEF d, at

\* A scalar or string: a new one, or over the one that is there.
LEMMA WriteParamHeld ==
    ASSUME DataInv, NEW n \in Names, NEW len \in Sizes, WriteParam(n, len)
    PROVE  DataKept
<1> DEFINE w == IF Known(n) THEN Rewrite(Now, n, len) ELSE WriteNew(Now, n, len)
           p == Now.fam.names[n]
<1>1. /\ Held(Now) /\ Good(Now) /\ Shaped(Now) /\ Found(Now, value)
      /\ len \in Nat /\ len >= 1
  BY DataNow, SizesAssumption
<1>2. Now.fam = fam
  BY DEF Now
<1>3. Becomes(w, "open")
  BY DEF WriteParam
<1>4. value' = IF w.ok THEN [value EXCEPT ![n] = Put(@, 0, Copies(w.clock, len))] ELSE value
  BY DEF WriteParam
<1>5. /\ Held(w) /\ Good(w) /\ Final(w, Now)
      /\ Found(w, [value EXCEPT ![n] = Put(@, 0, Copies(w.clock, len))])
  <2>1. CASE Known(n)
    <3> DEFINE e == EntriesOf(Now, p.file)[p.entry]
    <3>1. p # Nowhere /\ w = Rewrite(Now, n, len)
      BY <1>2, <2>1 DEF Known
    <3>2. len <= e.length
      <4>1. e = EntryOf(n)
        BY <1>2 DEF EntriesOf, EntryOf, Place
      <4>2. e.length = len \/ e.length >= len
        BY <2>1, <4>1 DEF WriteParam
      <4> HIDE DEF e
      <4>3. CASE e.length = len
        BY <1>1, <4>3
      <4>4. CASE e.length >= len
        BY <4>4
      <4>5. QED
        BY <4>2, <4>3, <4>4
    <3>3. QED
      BY <1>1, <3>1, <3>2, RewriteHeld
  <2>2. CASE ~Known(n)
    <3>1. w = WriteNew(Now, n, len)
      BY <2>2
    <3>2. value[n] = Empty
      BY <1>1, <1>2, <2>2 DEF Found, Valued, Known
    <3> HIDE DEF w
    <3>3. Put(value[n], 0, Copies(w.clock, len)) = Copies(w.clock, len)
      BY <1>1, <3>2, CopiesSeq, PutInEmpty
    <3>4. [value EXCEPT ![n] = Put(@, 0, Copies(w.clock, len))]
          = [value EXCEPT ![n] = Copies(w.clock, len)]
      BY <3>3
    <3>5. QED
      BY <1>1, <3>1, <3>4, WriteNewHeld
  <2>3. QED
    BY <2>1, <2>2
<1> HIDE DEF w
<1>6. Found(w, value')
  BY <1>4, <1>5 DEF Good, Shaped
<1>7. QED
  BY <1>3, <1>5, <1>6, BecomesHeld

\* An array is always new.
LEMMA WriteArrayHeld ==
    ASSUME DataInv, NEW n \in Names, NEW len \in Sizes, WriteArray(n, len)
    PROVE  DataKept
<1> DEFINE w == WriteNew(Now, n, len)
<1>1. /\ Held(Now) /\ Good(Now) /\ Shaped(Now) /\ Found(Now, value)
      /\ len \in Nat /\ len >= 1
  BY DataNow, SizesAssumption
<1>2. Becomes(w, "open")
  BY DEF WriteArray
<1>3. value' = IF w.ok THEN [value EXCEPT ![n] = Copies(w.clock, len)] ELSE value
  BY DEF WriteArray
<1>4. /\ Held(w) /\ Good(w) /\ Final(w, Now)
      /\ Found(w, [value EXCEPT ![n] = Copies(w.clock, len)])
  BY <1>1, WriteNewHeld
<1> HIDE DEF w
<1>5. Found(w, value')
  BY <1>3, <1>4 DEF Good, Shaped
<1>6. QED
  BY <1>2, <1>4, <1>5, BecomesHeld

\* A read opens the file of its parameter and goes behind what it reads.
LEMMA ReadParamHeld ==
    ASSUME DataInv, NEW n \in Names, ReadParam(n)
    PROVE  DataKept
<1> DEFINE p == Now.fam.names[n]
           e == EntriesOf(Now, p.file)[p.entry]
           o == FileOpen(Now, p.file)
           to == e.offset + e.length
           w == IF CanSeek(o, e.offset) THEN FileSeek(o, to) ELSE o
<1>1. Held(Now) /\ Good(Now) /\ Shaped(Now) /\ Found(Now, value) /\ Now.fam = fam
  BY DataNow DEF Now
<1>2. Becomes(w, "open") /\ UNCHANGED value
  BY <1>1 DEF ReadParam, EntryOf, Place, EntriesOf
<1>3. p.file \in 1..Len(Now.files) /\ p.entry \in 1..Len(EntriesOf(Now, p.file))
  <2>1. p # Nowhere
    BY <1>1 DEF ReadParam, Known
  <2>2. LastOf(p, n, Now.fam.directory)
    BY <1>1 DEF Found, Tabled
  <2>3. Len(Now.fam.directory) = Len(Now.files)
    BY <1>1, WorkFacts
  <2>4. QED
    BY <2>1, <2>2, <2>3 DEF LastOf, IsPlace, EntriesOf
<1>4. Held(o) /\ Good(o) /\ Extends(o, Now, "") /\ o.fam.cur_index = p.file
  BY <1>1, <1>3, FileOpenHeld
<1>5. to \in 0..Len(o.files[o.fam.cur_index].data)
  <2> DEFINE i == p.file
             j == p.entry
             f == o.files[i]
             x == EntriesOf(o, i)[j]
  <2>0. Shaped(o) /\ Len(o.files) \in Nat /\ Len(Now.files) \in Nat
        /\ Len(o.files) >= Len(Now.files)
        /\ Len(EntriesOf(Now, i)) \in Nat /\ Len(EntriesOf(o, i)) \in Nat
    <3>1. Shaped(o) /\ Len(o.files) >= Len(Now.files)
      BY <1>4 DEF Held, Extends
    <3>2. Len(o.files) \in Nat /\ Len(Now.files) \in Nat /\ Len(EntriesOf(Now, i)) \in Nat
      BY <1>1, <1>3, <3>1, WorkFacts
    <3>3. i \in 1..Len(o.files)
      BY <1>3, <3>1, <3>2
    <3>4. QED
      BY <3>1, <3>2, <3>3, WorkFacts
  <2>1. i \in 1..Len(o.files) /\ i \in 1..Len(Now.files) /\ j \in 1..Len(EntriesOf(o, i)) /\ x = e
    <3>1. Len(EntriesOf(o, i)) >= Len(EntriesOf(Now, i)) /\ x = e
      BY <1>3, <1>4 DEF Extends
    <3>2. QED
      BY <1>3, <2>0, <3>1
  <2>2. Layout(f.data, Room(f), EntriesOf(o, i), o.wrote[i])
    BY <1>4, <2>1 DEF Held, Laid, Filed
  <2>3. Fits(x, Room(f)) /\ Room(f) \in Nat /\ Room(f) <= Len(f.data) /\ Len(f.data) \in Nat
    BY <2>1, <2>2 DEF Layout, IsSeq
  <2>4. f.data = o.files[o.fam.cur_index].data
    BY <1>4
  <2> HIDE DEF f, e, x, o
  <2>5. e.offset \in Nat /\ e.length \in Nat /\ e.offset + e.length <= Room(f)
    BY <2>1, <2>3, FitsTyped
  <2>6. QED
    BY <2>3, <2>4, <2>5
<1>6. o.fam.cur_index # NoFile
  <2>1. Len(Now.files) \in Nat
    BY <1>1, WorkFacts
  <2>2. p.file # 0
    BY <1>3, <2>1
  <2>3. QED
    BY <1>4, <2>2 DEF NoFile
<1> HIDE DEF o, to, e
<1>7. Held(w) /\ Good(w) /\ Extends(w, Now, "")
  <2> DEFINE s == FileSeek(o, to)
  <2>1. Held(s) /\ Good(s) /\ Extends(s, o, "")
    BY <1>4, <1>5, <1>6, SeekHeld
  <2> HIDE DEF s
  <2>2. Extends(s, Now, "")
    BY <1>1, <1>4, <2>1, ExtendsOn DEF Held
  <2>3. w = s \/ w = o
    BY DEF s
  <2>4. QED
    BY <1>4, <2>1, <2>2, <2>3
<1> HIDE DEF w
<1>8. QED
  BY <1>2, <1>7, BecomesExtended

\* A definition of a mesh is a new entry, which is no parameter's.
LEMMA DefMeshHeld ==
    ASSUME DataInv, DefMesh
    PROVE  DataKept
<1> DEFINE p == PrepForNewData(Now)
           kind == "mesh"
           name == Untitled
           w == AddEntry(p, kind, name, 1)
<1>1. Held(Now) /\ Good(Now) /\ Shaped(Now)
  BY DataNow
<1>2. Becomes(w, "open") /\ UNCHANGED value
  BY DEF DefMesh, Untitled
<1>3. AtEnd(p) /\ Extends(p, Now, Untitled)
  BY <1>1, PrepAtEnd DEF Untitled
<1>4. kind \in Kinds /\ name \in Titles /\ 1 \in Nat /\ 1 >= 1
  BY DEF Kinds, Titles, Untitled
<1> HIDE DEF p, kind, name
<1>5. AtEnd(w) /\ Busy(w) /\ Extends(w, p, name)
  BY <1>3, <1>4, AddEntryAtEnd
<1> HIDE DEF w
<1>6. Held(w) /\ Shaped(w) /\ Shaped(p)
  BY <1>3, <1>5 DEF AtEnd, Held
<1>7. Extends(w, Now, name)
  BY <1>1, <1>3, <1>5, <1>6, ExtendsOn DEF name
<1>8. Good(w)
  BY <1>5, <1>6 DEF Good
<1>9. Extends(w, Now, "")
  BY <1>7 DEF name, Untitled
<1>10. QED
  BY <1>2, <1>6, <1>8, <1>9, BecomesExtended

\* mc_flush and mc_close commit only what is at work.
LEMMA FlushHeld ==
    ASSUME NEW w, Held(w), Good(w), COMMIT_NS(w)
    PROVE  LET v == FileClose(CommitNonState(w))
           IN  Held(v) /\ Good(v) /\ Extends(v, w, "")
<1> DEFINE x == CommitNonState(w)
           v == FileClose(x)
<1>1. Shaped(w) /\ Busy(w)
  BY CommitMeansBusy DEF Good
<1>2. Held(x) /\ Settled(x) /\ Extends(x, w, "")
  BY <1>1, CommitNonStateHeld
<1> HIDE DEF x
<1>3. Good(x) /\ Shaped(x)
  BY <1>2 DEF Held, Good
<1>4. Held(v) /\ Settled(v) /\ Extends(v, x, "")
  BY <1>2, <1>3, FileCloseHeld
<1> HIDE DEF v
<1>5. Good(v) /\ Shaped(v)
  BY <1>4 DEF Held, Good
<1>6. Extends(v, w, "")
  BY <1>1, <1>2, <1>3, <1>4, <1>5, ExtendsOn
<1>7. QED
  BY <1>4, <1>5, <1>6 DEF v, x

\* mc_flush commits and closes.
LEMMA FlushCallHeld ==
    ASSUME DataInv, Flush
    PROVE  DataKept
<1> DEFINE w == FileClose(CommitNonState(Now))
<1>1. Becomes(w, "open") /\ UNCHANGED value /\ COMMIT_NS(Now)
  BY DEF Flush
<1>2. Held(w) /\ Good(w) /\ Extends(w, Now, "")
  BY <1>1, DataNow, FlushHeld
<1> HIDE DEF w
<1>3. QED
  BY <1>1, <1>2, BecomesExtended

\* mc_close does so too, or has nothing to close.
LEMMA CloseHeld ==
    ASSUME DataInv, Close
    PROVE  DataKept
<1> DEFINE v == IF COMMIT_NS(Now) THEN FileClose(CommitNonState(Now)) ELSE Now
           x == FileClose(v)
           w == IF fam.cur_index = NoFile THEN Now ELSE x
<1>1. Held(Now) /\ Good(Now) /\ Shaped(Now)
  BY DataNow
<1>2. Becomes(w, "closed") /\ UNCHANGED value
  BY DEF Close
<1>3. Extends(Now, Now, "")
  BY <1>1, ExtendsSame
<1>4. Held(v) /\ Good(v) /\ Extends(v, Now, "")
  BY <1>1, <1>3, FlushHeld
<1> HIDE DEF v
<1>5. Held(x) /\ Settled(x) /\ Extends(x, v, "")
  BY <1>4, FileCloseHeld
<1> HIDE DEF x
<1>6. Good(x) /\ Extends(x, Now, "")
  <2>1. Shaped(x) /\ Shaped(v)
    BY <1>4, <1>5 DEF Held
  <2>2. QED
    BY <1>1, <1>4, <1>5, <2>1, ExtendsOn DEF Good
<1>7. Held(w) /\ Good(w) /\ Extends(w, Now, "")
  BY <1>1, <1>3, <1>5, <1>6
<1> HIDE DEF w
<1>8. QED
  BY <1>2, <1>7, BecomesExtended

\* mc_suffix_width writes the header of an A-file that it has opened.
LEMMA SuffixWidthHeld ==
    ASSUME DataInv, "suffix" \notin App, SuffixWidth
    PROVE  DataKept
<1> DEFINE o == FileOpen(Now, 1)
           u == Headed(o)
           w == FileClose(u)
<1>1. Held(Now) /\ Good(Now) /\ Shaped(Now) /\ Found(Now, value) /\ Now.fam = fam
  BY DataNow DEF Now
<1>2. Becomes(w, "open") /\ UNCHANGED value /\ Now.fam.cur_index # 1
  BY <1>1 DEF SuffixWidth, Headed
<1>3. 1 \in 1..Len(Now.files)
  <2>1. Len(Now.files) \in Nat /\ Len(Now.files) >= 1
    BY <1>1, WorkFacts
  <2>2. QED
    BY <2>1
<1>4. /\ Held(o) /\ Extends(o, Now, "") /\ o.fam.cur_index = 1
      /\ Settled(o) /\ o.fam.pos = 0
  BY <1>1, <1>2, <1>3, FileOpenHeld
<1> HIDE DEF o
<1>5. Shaped(o) /\ Found(o, value)
  BY <1>1, <1>4, FoundStays DEF Held
<1>6. Held(u) /\ Good(u) /\ Final(u, o) /\ Found(u, value)
  BY <1>4, <1>5, HeaderHeld
<1> HIDE DEF u
<1>7. Held(w) /\ Settled(w) /\ Extends(w, u, "")
  BY <1>6, FileCloseHeld
<1> HIDE DEF w
<1>8. Shaped(w) /\ Shaped(u) /\ Good(w)
  BY <1>6, <1>7 DEF Held, Good
<1>9. Found(w, value) /\ Final(w, u)
  BY <1>6, <1>7, <1>8, FoundStays, ExtendsFinal
<1>10. Final(w, Now)
  <2>1. Final(w, o)
    BY <1>5, <1>6, <1>8, <1>9, FinalOn
  <2>2. Final(o, Now)
    BY <1>4, ExtendsFinal
  <2>3. QED
    BY <1>1, <1>5, <2>1, <2>2, FinalOn
<1>11. Found(w, value')
  BY <1>2, <1>9
<1>12. QED
  BY <1>2, <1>7, <1>8, <1>10, <1>11, BecomesHeld

\* The calls that change only the formats and flags in memory.
LEMMA DefSvarsHeld ==
    ASSUME DataInv, IInv', DefSvars
    PROVE  DataKept
<1>1. DOMAIN fam = FamFields /\ Now.fam = fam /\ Stated(Now)
  BY DEF DataInv, Held, Shaped, Now
<1>2. /\ fam'.directory = fam.directory /\ fam'.names = fam.names /\ fam'.srecs = fam.srecs
      /\ fam'.cur_index = fam.cur_index /\ fam'.pos = fam.pos
      /\ fam'.next_free_byte = fam.next_free_byte
      /\ UNCHANGED <<files, wrote, value, clock>>
  BY <1>1 DEF DefSvars, FamFields
<1>3. Stated(Now)'
  BY <1>1, <1>2 DEF Stated, Now
<1>4. QED
  BY <1>2, <1>3, FlagsHeld

LEMMA OpenSrecHeld ==
    ASSUME DataInv, IInv', OpenSrec
    PROVE  DataKept
<1>1. DOMAIN fam = FamFields /\ Now.fam = fam /\ Stated(Now) /\ IsSeq(fam.srecs)
  BY DEF DataInv, Held, Shaped, Now
<1> DEFINE status == "open"
           s == Append(fam.srecs, status)
<1>2. /\ fam'.directory = fam.directory /\ fam'.names = fam.names /\ fam'.srecs = s
      /\ fam'.cur_index = fam.cur_index /\ fam'.pos = fam.pos
      /\ fam'.next_free_byte = fam.next_free_byte
      /\ UNCHANGED <<files, wrote, value, clock>>
  BY <1>1 DEF OpenSrec, FamFields
<1>3. status \in Statuses
  BY DEF Statuses
<1> HIDE DEF status
<1>4. \A i \in 1..Len(s) : s[i] \in Statuses
  <2>1. Len(fam.srecs) \in Nat /\ Joined(fam.srecs, <<status>>, s)
    BY <1>1, AppendJoined DEF IsSeq
  <2>2. /\ Len(s) = Len(fam.srecs) + 1
        /\ \A k \in 1..Len(fam.srecs) : s[k] = fam.srecs[k]
        /\ s[Len(fam.srecs) + 1] = status
    BY <1>1, AppendSeq
  <2> HIDE DEF s
  <2>3. QED
    BY <1>1, <1>3, <2>1, <2>2 DEF Stated
<1> HIDE DEF s
<1>5. Stated(Now)'
  BY <1>2, <1>4 DEF Stated, Now
<1>6. QED
  BY <1>2, <1>5, FlagsHeld

\* A format's status changes.
LEMMA StatusStated ==
    ASSUME NEW s, IsSeq(s), \A k \in 1..Len(s) : s[k] \in Statuses, NEW i, NEW e \in Statuses
    PROVE  LET t == [s EXCEPT ![i] = e]
           IN  \A k \in 1..Len(t) : t[k] \in Statuses
<1> DEFINE t == [s EXCEPT ![i] = e]
<1>1. DOMAIN s = 1..Len(s) /\ Len(s) \in Nat
  BY DEF IsSeq
<1>2. DOMAIN t = 1..Len(s) /\ \A k \in 1..Len(s) : t[k] = s[k] \/ t[k] = e
  BY <1>1
<1> HIDE DEF t
<1>3. Len(t) = Len(s)
  BY <1>1, <1>2
<1>4. QED
  BY <1>2, <1>3 DEF t

LEMMA DefSubrecHeld ==
    ASSUME DataInv, IInv', NEW i, DefSubrec(i)
    PROVE  DataKept
<1>1. DOMAIN fam = FamFields /\ Now.fam = fam /\ Stated(Now) /\ IsSeq(fam.srecs)
  BY DEF DataInv, Held, Shaped, Now
<1> DEFINE s == [fam.srecs EXCEPT ![i] = "filled"]
<1>2. \A k \in 1..Len(s) : s[k] \in Statuses
  <2>1. \A k \in 1..Len(fam.srecs) : fam.srecs[k] \in Statuses
    BY <1>1 DEF Stated
  <2>2. "filled" \in Statuses
    BY DEF Statuses
  <2>3. QED
    BY <1>1, <2>1, <2>2, StatusStated
<1>3. fam' = [fam EXCEPT !.srecs = s] /\ UNCHANGED <<files, wrote, value, clock>>
  BY DEF DefSubrec
<1> HIDE DEF s
<1>4. /\ fam'.directory = fam.directory /\ fam'.names = fam.names /\ fam'.srecs = s
      /\ fam'.cur_index = fam.cur_index /\ fam'.pos = fam.pos
      /\ fam'.next_free_byte = fam.next_free_byte
  BY <1>1, <1>3 DEF FamFields
<1>5. Stated(Now)'
  BY <1>2, <1>4 DEF Stated, Now
<1>6. QED
  BY <1>3, <1>4, <1>5, FlagsHeld

LEMMA CloseSrecHeld ==
    ASSUME DataInv, IInv', NEW i, CloseSrec(i)
    PROVE  DataKept
<1>1. DOMAIN fam = FamFields /\ Now.fam = fam /\ Stated(Now) /\ IsSeq(fam.srecs)
  BY DEF DataInv, Held, Shaped, Now
<1>2. \A k \in 1..Len(fam.srecs) : fam.srecs[k] \in Statuses
  BY <1>1 DEF Stated
<1>3. UNCHANGED <<files, wrote, value, clock>>
  BY DEF CloseSrec
<1>4. /\ fam'.directory = fam.directory /\ fam'.names = fam.names
      /\ fam'.cur_index = fam.cur_index /\ fam'.pos = fam.pos
      /\ fam'.next_free_byte = fam.next_free_byte
      /\ \A k \in 1..Len(fam'.srecs) : fam'.srecs[k] \in Statuses
  <2>1. CASE fam.srecs[i] \in {"open", "empty"}
    <3> DEFINE s == [fam.srecs EXCEPT ![i] = "empty"]
    <3>1. fam' = [fam EXCEPT !.srecs = s]
      BY <2>1 DEF CloseSrec
    <3>2. "empty" \in Statuses
      BY DEF Statuses
    <3>3. \A k \in 1..Len(s) : s[k] \in Statuses
      BY <1>1, <1>2, <3>2, StatusStated
    <3> HIDE DEF s
    <3>4. QED
      BY <1>1, <3>1, <3>3 DEF FamFields
  <2>2. CASE ~(fam.srecs[i] \in {"open", "empty"})
    <3> DEFINE s == [fam.srecs EXCEPT ![i] = "closed"]
               f == [fam EXCEPT !.srecs = s]
    <3>1. fam' = [f EXCEPT !.non_state_ready = TRUE]
      BY <2>2 DEF CloseSrec
    <3>2. "closed" \in Statuses
      BY DEF Statuses
    <3>3. \A k \in 1..Len(s) : s[k] \in Statuses
      BY <1>1, <1>2, <3>2, StatusStated
    <3> HIDE DEF s
    <3>4. /\ DOMAIN f = FamFields /\ f.directory = fam.directory /\ f.names = fam.names
          /\ f.cur_index = fam.cur_index /\ f.pos = fam.pos
          /\ f.next_free_byte = fam.next_free_byte /\ f.srecs = s
      BY <1>1 DEF FamFields
    <3> HIDE DEF f
    <3>5. QED
      BY <3>1, <3>3, <3>4 DEF FamFields
  <2>3. QED
    BY <2>1, <2>2
<1>5. Stated(Now)'
  BY <1>4 DEF Stated, Now
<1>6. QED
  BY <1>3, <1>4, <1>5, FlagsHeld

\* What the writer has in memory when it dies is what it would have read.
LEMMA NothingHeld ==
    ASSUME DataInv, IInv', UNCHANGED <<files, fam, wrote, value, clock>>
    PROVE  DataKept
<1>1. Stated(Now)
  BY DEF DataInv, Held
<1>2. Stated(Now)'
  BY <1>1 DEF Stated, Now
<1>3. QED
  BY <1>2, FlagsHeld

(***************************************************************************)
(* Opening the family again: the table that load_directories builds is the *)
(* one that the writer had.                                                *)
(***************************************************************************)
\* The entries of a name, as places.
LEMMA NamedIs ==
    ASSUME NEW fs, NEW dirs, IsSeq(fs), IsSeq(dirs), Len(fs) = Len(dirs),
           \A i \in 1..Len(dirs) : IsSeq(dirs[i].entries) /\ fs[i].dir = dirs[i].entries,
           NEW n
    PROVE  /\ \A p \in Named(fs, n) : IsPlace(p, dirs) /\ dirs[p.file].entries[p.entry].name = n
           /\ \A i \in 1..Len(dirs) : \A j \in 1..Len(dirs[i].entries) :
                  dirs[i].entries[j].name = n => [file |-> i, entry |-> j] \in Named(fs, n)
<1>1. DOMAIN fs = 1..Len(dirs)
  BY DEF IsSeq
<1>2. \A i \in 1..Len(dirs) : DOMAIN fs[i].dir = 1..Len(dirs[i].entries)
  BY DEF IsSeq
<1>3. ASSUME NEW p \in Named(fs, n)
      PROVE  IsPlace(p, dirs) /\ dirs[p.file].entries[p.entry].name = n
  <2>1. PICK i \in DOMAIN fs : \E j \in DOMAIN fs[i].dir :
            fs[i].dir[j].name = n /\ p = [file |-> i, entry |-> j]
    BY DEF Named
  <2>2. PICK j \in DOMAIN fs[i].dir : fs[i].dir[j].name = n /\ p = [file |-> i, entry |-> j]
    BY <2>1
  <2>3. p.file = i /\ p.entry = j
    BY <2>2
  <2>4. QED
    BY <1>1, <1>2, <2>1, <2>2, <2>3 DEF IsPlace
<1>4. ASSUME NEW i \in 1..Len(dirs), NEW j \in 1..Len(dirs[i].entries),
             dirs[i].entries[j].name = n
      PROVE  [file |-> i, entry |-> j] \in Named(fs, n)
  BY <1>1, <1>2, <1>4 DEF Named
<1>5. QED
  BY <1>3, <1>4

\* Of two places neither of which is before the other, there is only one.
LEMMA SamePlace ==
    ASSUME NEW dirs, IsSeq(dirs), \A i \in 1..Len(dirs) : IsSeq(dirs[i].entries),
           NEW p, IsPlace(p, dirs), NEW q, IsPlace(q, dirs), NotBefore(p, q), NotBefore(q, p)
    PROVE  p = q
<1>1. Len(dirs) \in Nat /\ \A i \in 1..Len(dirs) : Len(dirs[i].entries) \in Nat
  BY DEF IsSeq
<1>2. /\ p.file \in Nat /\ p.entry \in Nat /\ q.file \in Nat /\ q.entry \in Nat
      /\ p = [file |-> p.file, entry |-> p.entry]
      /\ q = [file |-> q.file, entry |-> q.entry]
  BY <1>1 DEF IsPlace
<1>3. p.file = q.file /\ p.entry = q.entry
  BY <1>2 DEF NotBefore
<1>4. QED
  BY <1>2, <1>3

\* The table that is built from the files has the last entry of each name.
LEMMA TableLoaded ==
    ASSUME NEW fs, NEW dirs, IsSeq(fs), IsSeq(dirs), Len(fs) = Len(dirs),
           \A i \in 1..Len(dirs) : IsSeq(dirs[i].entries) /\ fs[i].dir = dirs[i].entries,
           NEW names, Tabled(names, dirs)
    PROVE  ParamTable(fs) = names
<1>1. \A i \in 1..Len(dirs) : IsSeq(dirs[i].entries)
  OBVIOUS
<1>2. ASSUME NEW n \in Names
      PROVE  ParamTable(fs)[n] = names[n]
  <2> DEFINE p == names[n]
             S == Named(fs, n)
             c == CHOOSE x \in S : \A q \in S : NotBefore(x, q)
  <2>1. LastOf(p, n, dirs)
    BY DEF Tabled
  <2>2. ParamTable(fs)[n] = IF S = {} THEN Nowhere ELSE c
    BY DEF ParamTable
  <2>3. /\ \A q \in S : IsPlace(q, dirs) /\ dirs[q.file].entries[q.entry].name = n
        /\ \A i \in 1..Len(dirs) : \A j \in 1..Len(dirs[i].entries) :
               dirs[i].entries[j].name = n => [file |-> i, entry |-> j] \in S
    BY NamedIs
  <2> HIDE DEF p, S
  <2>4. CASE p = Nowhere
    <3>1. S = {}
      BY <2>1, <2>3, <2>4 DEF LastOf, IsPlace
    <3>2. QED
      BY <2>2, <2>4, <3>1 DEF p
  <2>5. CASE p # Nowhere
    <3>1. IsPlace(p, dirs) /\ dirs[p.file].entries[p.entry].name = n
      BY <2>1, <2>5 DEF LastOf
    <3>2. p \in S
      BY <2>3, <3>1 DEF IsPlace
    <3>3. ASSUME NEW q \in S
          PROVE  NotBefore(p, q)
      <4>1. q.file < p.file \/ (q.file = p.file /\ q.entry <= p.entry)
        BY <2>1, <2>3 DEF LastOf, IsPlace
      <4>2. Len(dirs) \in Nat /\ Len(dirs[p.file].entries) \in Nat
            /\ Len(dirs[q.file].entries) \in Nat
        BY <1>1, <2>3, <3>1 DEF IsPlace, IsSeq
      <4>3. p.file \in Nat /\ p.entry \in Nat /\ q.file \in Nat /\ q.entry \in Nat
        BY <2>3, <3>1, <4>2 DEF IsPlace
      <4>4. QED
        BY <4>1, <4>3 DEF NotBefore
    <3>4. c \in S /\ \A q \in S : NotBefore(c, q)
      BY <3>2, <3>3
    <3> HIDE DEF c
    <3>5. c = p
      BY <1>1, <2>3, <3>2, <3>3, <3>4, SamePlace
    <3>6. QED
      BY <2>2, <3>2, <3>5 DEF p
  <2>6. QED
    BY <2>4, <2>5
<1>3. ParamTable(fs) = [n \in Names |-> ParamTable(fs)[n]]
  BY DEF ParamTable
<1>4. names = [n \in Names |-> names[n]]
  BY DEF Tabled
<1> DEFINE t == ParamTable(fs)
<1> HIDE DEF t
<1>5. QED
  BY <1>2, <1>3, <1>4

\* load_directories, load_srec_formats and the first parameter.
LEMMA ReopenHeld ==
    ASSUME DataInv, IInv', Reopen
    PROVE  DataKept
<1> DEFINE w == Now
           v == [files |-> files, fam |-> fam', wrote |-> wrote, clock |-> clock, ok |-> TRUE]
           e == files[1].dir[1]
           n == Len(files)
           qty == Cardinality(FormatPlaces(files))
<1>1. Held(w) /\ Found(w, value) /\ Shaped(w)
  BY DataNow
<1>2. /\ fam'.directory = [i \in DOMAIN files |->
             [entries |-> files[i].dir, commit_count |-> files[i].commit_count]]
      /\ fam'.names = ParamTable(files) /\ fam'.srecs = [i \in 1..qty |-> "saved"]
      /\ fam'.cur_index = 1 /\ fam'.pos = e.offset + e.length
      /\ fam'.next_free_byte = Len(files[1].data)
      /\ UNCHANGED <<files, wrote, value, clock>>
      /\ \A i \in DOMAIN files : files[i].commit_count > 0
  BY DEF Reopen, Loadable
<1>3. Now' = v
  BY <1>2 DEF Now
<1>4. /\ w.files = files /\ w.wrote = wrote /\ w.clock = clock /\ w.fam = fam
      /\ v.files = files /\ v.wrote = wrote /\ v.clock = clock /\ v.fam = fam'
  BY DEF Now
<1> HIDE DEF w, v, e, n
<1>5. Shaped(v)
  BY <1>3 DEF IInv, Good
<1>6. /\ n \in Nat /\ n >= 1 /\ IsSeq(files) /\ DOMAIN files = 1..n
      /\ IsSeq(fam.directory) /\ Len(fam.directory) = n
      /\ \A i \in 1..n : /\ files[i].commit_count > 0
                         /\ files[i].dir = fam.directory[i].entries
                         /\ IsSeq(fam.directory[i].entries)
                         /\ Len(fam.directory[i].entries) \in Nat
  <2>1. /\ n \in Nat /\ n >= 1 /\ IsSeq(files)
        /\ IsSeq(fam.directory) /\ Len(fam.directory) = n
        /\ \A i \in 1..n : /\ files[i].commit_count > 0 => files[i].dir = EntriesOf(w, i)
                           /\ IsSeq(EntriesOf(w, i)) /\ Len(EntriesOf(w, i)) \in Nat
    BY <1>1, <1>4, WorkFacts DEF n
  <2>2. DOMAIN files = 1..n
    BY <2>1 DEF IsSeq, n
  <2>3. \A i \in 1..n : EntriesOf(w, i) = fam.directory[i].entries
    BY <1>4 DEF EntriesOf
  <2>4. QED
    BY <1>2, <2>1, <2>2, <2>3
<1>7. \A i \in 1..n : EntriesOf(v, i) = EntriesOf(w, i)
  <2>1. ASSUME NEW i \in 1..n
        PROVE  fam'.directory[i].entries = fam.directory[i].entries
    <3>1. fam'.directory[i] = [entries |-> files[i].dir, commit_count |-> files[i].commit_count]
      BY <1>2, <1>6
    <3>2. QED
      BY <1>6, <3>1
  <2>2. QED
    BY <1>4, <2>1 DEF EntriesOf
<1>8. fam'.names = fam.names
  <2>1. Tabled(fam.names, fam.directory)
    BY <1>1, <1>4 DEF Found
  <2>2. ParamTable(files) = fam.names
    BY <1>6, <2>1, TableLoaded DEF n
  <2>3. QED
    BY <1>2, <2>2
<1>9. Laid(v)
  <2>1. 1 \in 1..n
    BY <1>6
  <2>2. Laid(w)
    BY <1>1 DEF Held
  <2>3. QED
    BY <1>4, <1>7, <2>1, <2>2 DEF Laid, n
<1>10. Streamed(v)
  <2> DEFINE f == files[1]
             t == EntriesOf(w, 1)
  <2>1. Filed(f, t, wrote[1]) /\ f.commit_count > 0 /\ IsSeq(t) /\ Len(t) \in Nat /\ e = t[1]
    <3>1. 1 \in 1..n
      BY <1>6
    <3>2. Laid(w)
      BY <1>1 DEF Held
    <3>3. QED
      BY <1>4, <1>6, <3>1, <3>2 DEF Laid, n, e, EntriesOf
  <2> HIDE DEF t, f
  <2>2. 1 \in 1..Len(t)
    <3>1. Len(t) > 0
      BY <2>1, NotEmpty DEF Filed
    <3>2. QED
      BY <2>1, <3>1
  <2>3. Fits(e, Room(f)) /\ Room(f) \in Nat /\ Room(f) <= Len(f.data) /\ Len(f.data) \in Nat
    BY <2>1, <2>2 DEF Filed, Layout, IsSeq
  <2>4. e.offset \in Nat /\ e.length \in Nat /\ e.offset + e.length <= Room(f)
    BY <2>3, FitsTyped
  <2>5. fam'.pos \in 0..Len(files[1].data)
    BY <1>2, <2>3, <2>4 DEF f
  <2>6. fam'.cur_index \in 0..Len(files)
    BY <1>2, <1>6 DEF n
  <2>7. QED
    BY <1>2, <1>4, <2>5, <2>6 DEF Streamed
<1>11. Stated(v)
  <2>1. IsSeq(fam'.srecs)
    BY <1>4, <1>5, WorkFacts
  <2>2. DOMAIN fam'.srecs = 1..Len(fam'.srecs)
    BY <2>1 DEF IsSeq
  <2>3. \A k \in DOMAIN fam'.srecs : fam'.srecs[k] = "saved"
    BY <1>2
  <2>4. QED
    BY <1>4, <2>2, <2>3 DEF Stated, Statuses
<1>12. Extends(v, w, "")
  <2>1. Len(v.files) = n /\ Len(w.files) = n /\ v.files = w.files /\ v.wrote = w.wrote
    BY <1>4 DEF n
  <2>2. \A i \in 1..n : Len(EntriesOf(w, i)) \in Nat
    BY <1>4, <1>6 DEF EntriesOf
  <2>3. v.fam.names = w.fam.names
    BY <1>4, <1>8
  <2>4. \A i \in 1..n : Kept(v.files[i], w.files[i])
    BY <2>1 DEF Kept
  <2>5. Extends(v, w, Untitled)
    BY <1>6, <1>7, <2>1, <2>2, <2>3, <2>4 DEF Extends
  <2>6. QED
    BY <2>5 DEF Untitled
<1>13. Found(v, value) /\ Final(v, w)
  BY <1>1, <1>5, <1>12, FoundStays, ExtendsFinal
<1>14. Held(v)
  BY <1>5, <1>9, <1>10, <1>11 DEF Held
<1>15. Found(v, value')
  BY <1>2, <1>13
<1>16. QED
  BY <1>3, <1>13, <1>14, <1>15 DEF DataKept, w

-----------------------------------------------------------------------------
(***************************************************************************)
(* The invariant.                                                          *)
(***************************************************************************)
\* create_family's header and first parameter.
LEMMA InitData ==
    ASSUME Init
    PROVE  DataInv
<1> DEFINE kind == "param"
           name == FirstParam
           e == [kind |-> kind, name |-> name, id |-> 0, offset |-> 1, length |-> 1]
           t == <<e>>
           data == <<1, 2>>
           f == File(data)
           tok == <<Copies(2, 1)>>
           place == [file |-> 1, entry |-> 1]
<1>1. ClosedInv /\ proc \in Modes /\ Shaped(Now)
  BY InitClosed DEF ClosedInv, IInv, Good, Init, Modes
<1>2. /\ Now.files = <<f>> /\ Now.wrote = <<tok>> /\ Now.clock = 2
      /\ Now.fam = fam /\ EntriesOf(Now, 1) = t
      /\ Now.fam.directory = <<[FileDir EXCEPT !.entries = t]>>
      /\ fam.directory = <<[FileDir EXCEPT !.entries = t]>>
  BY DEF Init, Now, EntriesOf, FileDir
<1>3. /\ fam.cur_index = 1 /\ fam.pos = 2 /\ fam.next_free_byte = 2 /\ fam.srecs = Empty
      /\ fam.names = [n \in Names |-> IF n = FirstParam THEN place ELSE Nowhere]
      /\ value = [n \in Names |-> IF n = FirstParam THEN Copies(2, 1) ELSE Empty]
  BY DEF Init
<1>4. e \in Entry /\ e.offset = 1 /\ e.length = 1 /\ e.name = FirstParam
  <2>1. kind \in Kinds /\ name \in Titles /\ 0 \in Nat /\ 1 \in Nat
    BY NamesAssumption DEF Kinds, Titles, Names
  <2>2. Entry = [kind : Kinds, name : Titles, id : Nat, offset : Nat, length : Nat]
    BY DEF Entry, Kinds, Titles
  <2> HIDE DEF kind
  <2>3. QED
    BY <2>1, <2>2
<1> HIDE DEF kind, name, e
<1>5. IsSeq(t) /\ Len(t) = 1 /\ t[1] = e
  BY OneElement
<1>6. IsSeq(tok) /\ Len(tok) = 1 /\ tok[1] = Copies(2, 1)
  BY OneElement
<1>7. IsSeq(data) /\ Len(data) = 2 /\ data[2] = 2
  BY DEF IsSeq
<1>8. f.data = data /\ f.commit_count = 0
  BY DEF File
<1>9. IsSeq(<<tok>>) /\ Len(<<tok>>) = 1 /\ <<tok>>[1] = tok
      /\ Len(<<f>>) = 1 /\ <<f>>[1] = f
  BY OneElement
<1> HIDE DEF t, tok, data, f
<1>10. UnitsOf(data, e) = Copies(2, 1)
  <2> DEFINE units == Copies(2, 1)
  <2>1. IsSeq(units) /\ Len(units) = 1 /\ \A u \in 1..1 : units[u] = 2
    BY CopiesSeq
  <2> HIDE DEF units
  <2>2. \A u \in 1..e.length : data[e.offset + u] = units[u]
    BY <1>4, <1>7, <2>1
  <2>3. UnitsOf(data, e) = [u \in 1..e.length |-> data[e.offset + u]]
    <3>1. /\ e.offset \in Nat /\ e.length \in Nat /\ Len(data) \in Nat
          /\ e.offset + e.length <= Len(data)
      BY <1>4, <1>7
    <3>2. QED
      BY <3>1, UnitsHere
  <2>4. UnitsOf(data, e) = [u \in 1..e.length |-> units[u]]
    BY <2>2, <2>3
  <2>5. UnitsOf(data, e) = units
    BY <1>4, <2>1, <2>4 DEF IsSeq
  <2>6. QED
    BY <2>5 DEF units
<1>11. Laid(Now)
  <2>1. Layout(data, 2, t, tok)
    BY <1>4, <1>5, <1>6, <1>7, <1>10 DEF Layout, Fits
  <2>2. Filed(f, t, tok)
    <3>1. ~(f.commit_count > 0)
      BY <1>8
    <3>2. Room(f) = 2
      BY <1>7, <1>8, <3>1 DEF Room
    <3>3. QED
      BY <1>8, <2>1, <3>1, <3>2 DEF Filed
  <2>3. HeaderFree(data, t)
    BY <1>4, <1>5, <1>7 DEF HeaderFree
  <2>4. QED
    BY <1>2, <1>8, <1>9, <2>2, <2>3 DEF Laid
<1>12. Streamed(Now) /\ Stated(Now)
  <2>1. Now.fam.srecs = Empty /\ Len(Empty) = 0
    BY <1>2, <1>3 DEF Empty
  <2>2. Stated(Now)
    BY <2>1 DEF Stated
  <2>3. /\ Now.fam.cur_index = 1 /\ Len(Now.files) = 1 /\ Len(Now.files[1].data) = 2
        /\ Now.fam.pos = 2 /\ Now.fam.next_free_byte = 2
    BY <1>2, <1>3, <1>7, <1>8, <1>9
  <2>4. Streamed(Now)
    BY <2>3 DEF Streamed
  <2>5. QED
    BY <2>2, <2>4
<1>13. Tabled(Now.fam.names, Now.fam.directory)
  <2> DEFINE dirs == <<[FileDir EXCEPT !.entries = t]>>
  <2>1. Len(dirs) = 1 /\ dirs[1].entries = t
    BY DEF FileDir
  <2> HIDE DEF dirs
  <2>2. ASSUME NEW n \in Names, n = FirstParam
        PROVE  LastOf(place, n, dirs)
    <3>1. /\ place = [file |-> place.file, entry |-> place.entry]
          /\ place.file = 1 /\ place.entry = 1 /\ place # Nowhere
      BY DEF Nowhere, NoFile
    <3>2. dirs[1].entries[1].name = n
      BY <1>4, <1>5, <2>1, <2>2
    <3> HIDE DEF place
    <3>3. IsPlace(place, dirs)
      BY <1>5, <2>1, <3>1 DEF IsPlace
    <3>4. QED
      BY <1>5, <2>1, <3>1, <3>2, <3>3 DEF LastOf
  <2>3. ASSUME NEW n \in Names, n # FirstParam
        PROVE  LastOf(Nowhere, n, dirs)
    BY <1>4, <1>5, <2>1, <2>3 DEF LastOf
  <2> HIDE DEF place
  <2>4. \A n \in Names : LastOf(fam.names[n], n, dirs)
    BY <1>3, <2>2, <2>3
  <2>5. Tabled(fam.names, dirs)
    BY <1>3, <2>4 DEF Tabled
  <2>6. QED
    BY <1>2, <2>5 DEF dirs
<1>14. Valued(value, Now.fam.names, Now.wrote)
  <2>1. place # Nowhere /\ place.file = 1 /\ place.entry = 1
    BY DEF Nowhere, NoFile
  <2> HIDE DEF place
  <2>2. QED
    BY <1>2, <1>3, <1>6, <1>9, <2>1 DEF Valued
<1>15. QED
  BY <1>1, <1>11, <1>12, <1>13, <1>14 DEF DataInv, Held, Found

\* A call leaves the process in one of its modes.
LEMMA NextMode ==
    ASSUME proc \in Modes, [Next]_vars
    PROVE  proc' \in Modes
<1>1. ASSUME NEW w, Becomes(w, "open") \/ Becomes(w, "closed")
      PROVE  proc' \in Modes
  BY <1>1 DEF Becomes, Modes
<1>2. CASE \E n \in Scalars \cup Strings, len \in Sizes : WriteParam(n, len)
  BY <1>1, <1>2 DEF WriteParam
<1>3. CASE \E n \in Arrays, len \in Sizes : WriteArray(n, len)
  BY <1>1, <1>3 DEF WriteArray
<1>4. CASE \E n \in Names : ReadParam(n)
  BY <1>1, <1>4 DEF ReadParam
<1>5. CASE DefMesh
  BY <1>1, <1>5 DEF DefMesh
<1>6. CASE DefSvars \/ OpenSrec
  BY <1>6 DEF DefSvars, OpenSrec
<1>7. CASE \E i \in DOMAIN fam.srecs : DefSubrec(i) \/ CloseSrec(i)
  BY <1>7 DEF DefSubrec, CloseSrec
<1>8. CASE Flush
  BY <1>1, <1>8 DEF Flush
<1>9. CASE SuffixWidth
  BY <1>1, <1>9 DEF SuffixWidth
<1>10. CASE Close
  BY <1>1, <1>10 DEF Close
<1>11. CASE Crash
  BY <1>11 DEF Crash, Modes
<1>12. CASE Reopen
  BY <1>12 DEF Reopen, Modes
<1>13. CASE UNCHANGED vars
  BY <1>13 DEF vars
<1>14. QED
  BY <1>2, <1>3, <1>4, <1>5, <1>6, <1>7, <1>8, <1>9, <1>10, <1>11, <1>12, <1>13 DEF Next

(***************************************************************************)
(* An application that closes its formats and defines its variables while  *)
(* a file is being written, and does not change the suffix width while the *)
(* A-file is open.  It may die, leave a format open, or close an empty one.*)
(***************************************************************************)
PlainUse == "late_format" \notin App /\ "suffix" \notin App

\* Each of its calls keeps the data.
LEMMA NextKept ==
    ASSUME DataInv, PlainUse, [Next]_vars
    PROVE  DataKept
<1>1. IInv'
  BY NextGood DEF DataInv, ClosedInv, PlainUse
<1>2. CASE \E n \in Scalars \cup Strings, len \in Sizes : WriteParam(n, len)
  BY <1>2, WriteParamHeld DEF Names
<1>3. CASE \E n \in Arrays, len \in Sizes : WriteArray(n, len)
  BY <1>3, WriteArrayHeld DEF Names
<1>4. CASE \E n \in Names : ReadParam(n)
  BY <1>4, ReadParamHeld
<1>5. CASE DefMesh
  BY <1>5, DefMeshHeld
<1>6. CASE DefSvars
  BY <1>1, <1>6, DefSvarsHeld
<1>7. CASE OpenSrec
  BY <1>1, <1>7, OpenSrecHeld
<1>8. CASE \E i \in DOMAIN fam.srecs : DefSubrec(i) \/ CloseSrec(i)
  BY <1>1, <1>8, DefSubrecHeld, CloseSrecHeld
<1>9. CASE Flush
  BY <1>9, FlushCallHeld
<1>10. CASE SuffixWidth
  BY <1>10, SuffixWidthHeld DEF PlainUse
<1>11. CASE Close
  BY <1>11, CloseHeld
<1>12. CASE Crash
  BY <1>1, <1>12, NothingHeld DEF Crash
<1>13. CASE Reopen
  BY <1>1, <1>13, ReopenHeld
<1>14. CASE UNCHANGED vars
  BY <1>1, <1>14, NothingHeld DEF vars
<1>15. QED
  BY <1>2, <1>3, <1>4, <1>5, <1>6, <1>7, <1>8, <1>9, <1>10, <1>11, <1>12, <1>13, <1>14 DEF Next

LEMMA NextData ==
    ASSUME DataInv, PlainUse, [Next]_vars
    PROVE  DataInv'
<1>1. ClosedInv'
  BY NextClosed DEF DataInv, PlainUse
<1>2. proc' \in Modes
  BY NextMode DEF DataInv
<1>3. Held(Now)' /\ Found(Now, value)'
  BY NextKept DEF DataKept
<1>4. QED
  BY <1>1, <1>2, <1>3 DEF DataInv

\* The invariant holds throughout.
LEMMA AlwaysData == ASSUME PlainUse PROVE Spec => []DataInv
<1>1. Init => DataInv
  BY InitData
<1>2. DataInv /\ [Next]_vars => DataInv'
  BY NextData
<1>3. QED
  BY <1>1, <1>2, PTL DEF Spec

\* What the invariant says of the variables.
LEMMA DataFacts ==
    ASSUME DataInv
    PROVE  /\ Len(files) \in Nat /\ DOMAIN files = 1..Len(files)
           /\ DOMAIN fam.directory = 1..Len(files) /\ Len(fam.directory) = Len(files)
           /\ \A i \in 1..Len(files) :
                  /\ DOMAIN fam.directory[i].entries = 1..Len(fam.directory[i].entries)
                  /\ Layout(files[i].data, Room(files[i]), fam.directory[i].entries, wrote[i])
                  /\ files[i].commit_count > 0 => /\ EndsInDir(files[i])
                                                  /\ files[i].dir = fam.directory[i].entries
           /\ DOMAIN fam.srecs = 1..Len(fam.srecs)
<1>1. Held(Now) /\ Shaped(Now)
  BY DataNow
<1>2. Now.files = files /\ Now.fam = fam /\ Now.wrote = wrote
  BY DEF Now
<1>3. \A i : EntriesOf(Now, i) = fam.directory[i].entries
  BY <1>2 DEF EntriesOf
<1>4. /\ IsSeq(files) /\ IsSeq(fam.directory) /\ Len(fam.directory) = Len(files)
      /\ IsSeq(fam.srecs)
      /\ \A i \in 1..Len(files) : /\ IsSeq(fam.directory[i].entries)
                                  /\ files[i].commit_count > 0 =>
                                         files[i].dir = fam.directory[i].entries
  BY <1>1, <1>2, <1>3, WorkFacts
<1>5. \A i \in 1..Len(files) : Filed(files[i], fam.directory[i].entries, wrote[i])
  BY <1>1, <1>2, <1>3 DEF Held, Laid
<1>6. QED
  BY <1>4, <1>5 DEF IsSeq, Filed

\* A file's entries lie within it, and its units are what was written for them.
LEMMA EntryFacts ==
    ASSUME DataInv, NEW i \in DOMAIN fam.directory, NEW j \in DOMAIN fam.directory[i].entries
    PROVE  LET e == fam.directory[i].entries[j]
           IN  /\ e \in Entry /\ e.offset + e.length <= Len(files[i].data)
               /\ UnitsOf(files[i].data, e) = wrote[i][j]
<1> DEFINE e == fam.directory[i].entries[j]
           f == files[i]
<1>1. Layout(f.data, Room(f), fam.directory[i].entries, wrote[i])
      /\ j \in 1..Len(fam.directory[i].entries)
  BY DataFacts
<1>2. /\ Fits(e, Room(f)) /\ wrote[i][j] = UnitsOf(f.data, e)
      /\ Room(f) \in Nat /\ Room(f) <= Len(f.data) /\ Len(f.data) \in Nat
  BY <1>1 DEF Layout, IsSeq
<1> HIDE DEF e, f
<1>3. e.offset \in Nat /\ e.length \in Nat /\ e.offset + e.length <= Room(f) /\ e \in Entry
  BY <1>2, FitsTyped DEF Fits
<1>4. e.offset + e.length <= Len(f.data)
  BY <1>2, <1>3
<1>5. QED
  BY <1>2, <1>3, <1>4 DEF e, f

\* A known name's place is an entry of a file.
LEMMA PlaceFacts ==
    ASSUME DataInv, NEW n \in Names
    PROVE  IF Known(n)
           THEN /\ Place(n).file \in DOMAIN fam.directory
                /\ Place(n).entry \in DOMAIN fam.directory[Place(n).file].entries
                /\ value[n] = wrote[Place(n).file][Place(n).entry]
           ELSE value[n] = Empty
<1> DEFINE p == fam.names[n]
<1>1. LastOf(p, n, fam.directory)
      /\ value[n] = IF p = Nowhere THEN Empty ELSE wrote[p.file][p.entry]
  BY DEF DataInv, Found, Tabled, Valued, Now
<1> HIDE DEF p
<1>2. CASE p # Nowhere
  <2>1. p.file \in 1..Len(fam.directory) /\ p.entry \in 1..Len(fam.directory[p.file].entries)
    BY <1>1, <1>2 DEF LastOf, IsPlace
  <2>2. p.file \in DOMAIN fam.directory /\ p.entry \in DOMAIN fam.directory[p.file].entries
    BY <2>1, DataFacts
  <2>3. QED
    BY <1>1, <1>2, <2>2 DEF Known, Place, p
<1>3. CASE p = Nowhere
  BY <1>1, <1>3 DEF Known, p
<1>4. QED
  BY <1>2, <1>3

(***************************************************************************)
(* Types and ranges: the table names entries, entries lie within their     *)
(* files, and the open file's stream does not stand behind its end.        *)
(***************************************************************************)
THEOREM TypeCorrect == PlainUse => (Spec => []TypeOK)
<1> SUFFICES ASSUME PlainUse
             PROVE  Spec => []TypeOK
  OBVIOUS
<1>1. DataInv => TypeOK
  <2> SUFFICES ASSUME DataInv
               PROVE  TypeOK
    OBVIOUS
  <2>1. proc \in {"open", "closed", "dead", "overflow"}
    BY DEF DataInv, Modes
  <2>2. DOMAIN files = DOMAIN fam.directory
    BY DataFacts
  <2>3. Streamed(Now) /\ Stated(Now) /\ Now.files = files /\ Now.fam = fam
    BY DEF DataInv, Held, Now
  <2>4. fam.cur_index \in {NoFile} \cup DOMAIN files
    BY <2>3, DataFacts DEF Streamed, NoFile
  <2>5. fam.cur_index # NoFile => fam.pos \in 0..Len(files[fam.cur_index].data)
    BY <2>3 DEF Streamed
  <2>6. \A i \in DOMAIN fam.srecs :
            fam.srecs[i] \in {"open", "filled", "closed", "empty", "saved"}
    BY <2>3, DataFacts DEF Stated, Statuses
  <2>7. PlacesTyped
    BY PlaceFacts DEF PlacesTyped
  <2>8. EntriesTyped
    BY EntryFacts DEF EntriesTyped
  <2>9. QED
    BY <2>1, <2>2, <2>4, <2>5, <2>6, <2>7, <2>8 DEF TypeOK
<1>2. QED
  BY <1>1, AlwaysData, PTL

(***************************************************************************)
(* Every directory entry names the data that was last written for it, and  *)
(* a read of a parameter finds the value last given to its name, in the    *)
(* session that wrote it and in those that open the family again: whatever *)
(* is written between, and whichever file is closed or opened for it.      *)
(***************************************************************************)
THEOREM LastValueFound == PlainUse => (Spec => []LastValueRead)
<1> SUFFICES ASSUME PlainUse
             PROVE  Spec => []LastValueRead
  OBVIOUS
<1>1. DataInv => LastValueRead
  <2> SUFFICES ASSUME DataInv
               PROVE  LastValueRead
    OBVIOUS
  <2>1. EntriesHoldData
    BY EntryFacts DEF EntriesHoldData
  <2>2. ASSUME NEW n \in Names
        PROVE  IF Known(n) THEN UnitsOf(files[Place(n).file].data, EntryOf(n)) = value[n]
                           ELSE value[n] = Empty
    BY PlaceFacts, EntryFacts DEF EntryOf
  <2>3. QED
    BY <2>1, <2>2 DEF LastValueRead
<1>2. QED
  BY <1>1, AlwaysData, PTL

(***************************************************************************)
(* A family that mc_close has closed can be opened: each of its files was  *)
(* committed, ends in its directory, which is the one in memory, and no    *)
(* variable is in memory only.                                             *)
(***************************************************************************)
THEOREM ClosedLoads == PlainUse => (Spec => []ClosedIsLoadable)
<1> SUFFICES ASSUME PlainUse
             PROVE  Spec => []ClosedIsLoadable
  OBVIOUS
<1>1. DataInv => ClosedIsLoadable
  <2> SUFFICES ASSUME DataInv, proc = "closed"
               PROVE  ClosedIsLoadable
    BY DEF ClosedIsLoadable
  <2>1. ~fam.svars_fresh /\ \A i \in DOMAIN files : files[i].commit_count > 0
    BY CommittedWhenClosed DEF DataInv, ClosedIsCommitted
  <2>2. \A i \in DOMAIN files :
            Loadable(files[i]) /\ files[i].dir = fam.directory[i].entries
    BY <2>1, DataFacts DEF Loadable, EndsInDir
  <2>3. QED
    BY <2>1, <2>2 DEF ClosedIsLoadable
<1>2. QED
  BY <1>1, AlwaysData, PTL

\* What a step leaves of the committed files.
CommittedKept ==
    \A i \in DOMAIN files : files[i].commit_count > 0 =>
        /\ i \in DOMAIN files'
        /\ files'[i].dir = files[i].dir
        /\ files'[i].commit_count = files[i].commit_count
        /\ Len(files'[i].data) = Len(files[i].data)

(***************************************************************************)
(* A committed file keeps its directory and its length: what any later     *)
(* call adds to the family goes to another file, and a value rewritten in  *)
(* place stays within its entry.                                           *)
(***************************************************************************)
THEOREM CommittedStays == PlainUse => (Spec => CommittedIsFinal)
<1> SUFFICES ASSUME PlainUse
             PROVE  Spec => CommittedIsFinal
  OBVIOUS
<1>1. Spec => []DataInv
  BY AlwaysData
<1>2. DataInv /\ DataInv' /\ [Next]_vars => [CommittedKept]_vars
  <2> SUFFICES ASSUME DataInv, DataInv', [Next]_vars
               PROVE  CommittedKept
    OBVIOUS
  <2>1. Final(Now', Now)
    BY NextKept DEF DataKept
  <2>2. Now.files = files /\ Now'.files = files'
    BY DEF Now
  <2>3. Len(files) \in Nat /\ DOMAIN files = 1..Len(files)
    BY DataFacts
  <2>4. IsSeq(files')
    BY DEF DataInv, ClosedInv, IInv, Good, Shaped, FilesMatch, Now
  <2>5. DOMAIN files' = 1..Len(files')
    BY <2>4 DEF IsSeq
  <2>6. QED
    BY <2>1, <2>2, <2>3, <2>5 DEF Final, Kept, CommittedKept
<1>3. [][CommittedKept]_vars => CommittedIsFinal
  BY PTL DEF CommittedKept, CommittedIsFinal
<1>4. QED
  BY <1>1, <1>2, <1>3, PTL DEF Spec

=============================================================================
