--------------------------- MODULE NonStateProofs ---------------------------
(***************************************************************************)
(* Proofs about NonState: committing and closing end, for an application   *)
(* that closes its formats, and defines its variables, while an            *)
(* uncommitted file is open ("late_format" is not in App); then a family   *)
(* that was closed has every directory in its files; and if it closes each *)
(* format, not empty, before its next call, every format in them.          *)
(*                                                                         *)
(* The lemmas follow the steps of a call from the inside out: what a step  *)
(* leaves alone (Like), what an entry adds (Busy), what a commit does      *)
(* (Settled), then one lemma per action.  A record is compared through its *)
(* domain and fields, so no type is needed for the data.                   *)
(***************************************************************************)
EXTENDS NonState, SequenceTheorems, FiniteSetTheorems, TLAPS

\* A sequence, of whatever elements.
IsSeq(s) == Len(s) \in Nat /\ s = [k \in 1..Len(s) |-> s[k]]

(***************************************************************************)
(* A workspace whose directories, in memory and on disk, are what the      *)
(* calls take them for.  Nothing is said of the data: neither committing   *)
(* nor closing depends on it.                                              *)
(***************************************************************************)
DirFields  == {"entries", "commit_count"}
FileFields == {"data", "dir", "commit_count"}
FamFields  == {"directory", "names", "srecs", "commit_max", "svars_fresh", "non_state_ready",
               "commit_count", "char_header", "cur_index", "pos", "next_free_byte"}
WorkFields == {"files", "fam", "wrote", "clock", "ok"}

DirsShaped(dirs) ==
    /\ IsSeq(dirs) /\ Len(dirs) \in Nat /\ Len(dirs) >= 1
    /\ \A i \in 1..Len(dirs) : /\ DOMAIN dirs[i] = DirFields
                               /\ dirs[i].commit_count \in Nat
                               /\ IsSeq(dirs[i].entries)

\* A committed file ends in the directory that memory has for it.
FilesMatch(fs, dirs) ==
    /\ IsSeq(fs) /\ Len(fs) = Len(dirs)
    /\ \A i \in 1..Len(dirs) :
           /\ DOMAIN fs[i] = FileFields
           /\ fs[i].commit_count = dirs[i].commit_count
           /\ dirs[i].commit_count > 0 => fs[i].dir = dirs[i].entries

\* Every file but the last is committed, none later than the last, none after now.
InOrder(dirs, now) ==
    /\ now \in Nat
    /\ \A i \in 1..Len(dirs) : /\ dirs[i].commit_count <= now
                               /\ i < Len(dirs) => dirs[i].commit_count > 0
    /\ dirs[Len(dirs)].commit_count > 0 =>
           \A i \in 1..Len(dirs) : dirs[i].commit_count <= dirs[Len(dirs)].commit_count

Shaped(w) ==
    /\ DOMAIN w = WorkFields /\ DOMAIN w.fam = FamFields
    /\ w.ok = TRUE
    /\ DirsShaped(w.fam.directory)
    /\ FilesMatch(w.files, w.fam.directory)
    /\ InOrder(w.fam.directory, w.fam.commit_count)
    /\ IsSeq(w.fam.srecs) /\ w.fam.commit_max \in Nat

\* Between calls either the last file is at work and has something in its
\* directory, or every file is committed and nothing waits in memory.
Busy(w)    == AtWork(w) /\ LastDir(w).entries # Empty
Settled(w) == ~Uncommitted(w) /\ ~w.fam.non_state_ready /\ ~w.fam.svars_fresh
Good(w)    == Shaped(w) /\ (Busy(w) \/ Settled(w))

IInv == proc # "overflow" /\ Good(Now)

-----------------------------------------------------------------------------
(***************************************************************************)
(* Sequences.                                                              *)
(***************************************************************************)
\* A member of a Seq is a sequence in the sense of IsSeq.
LEMMA SeqIsSeq == \A S : \A s \in Seq(S) : IsSeq(s)
<1> SUFFICES ASSUME NEW S, NEW s \in Seq(S) PROVE IsSeq(s)
  OBVIOUS
<1>1. Len(s) \in Nat /\ s \in [1..Len(s) -> S]
  OBVIOUS
<1>2. QED
  BY <1>1 DEF IsSeq

\* Append makes a sequence one longer and leaves the rest of it.
LEMMA AppendSeq ==
    ASSUME NEW s, IsSeq(s), NEW e
    PROVE  /\ IsSeq(Append(s, e)) /\ Len(Append(s, e)) = Len(s) + 1
           /\ \A k \in 1..Len(s) : Append(s, e)[k] = s[k]
           /\ Append(s, e)[Len(s) + 1] = e
           /\ Append(s, e) # Empty
<1> DEFINE S == {s[k] : k \in 1..Len(s)} \cup {e}
<1>1. s \in Seq(S)
  BY DEF IsSeq
<1>2. e \in S
  OBVIOUS
<1> HIDE DEF S
<1>3. QED
  <2>1. /\ Append(s, e) \in Seq(S) /\ Append(s, e) # << >> /\ Len(Append(s, e)) = Len(s) + 1
        /\ \A k \in 1..Len(s) : Append(s, e)[k] = s[k]
        /\ Append(s, e)[Len(s) + 1] = e
    BY <1>1, <1>2, AppendProperties
  <2>2. IsSeq(Append(s, e))
    BY <2>1, SeqIsSeq
  <2>3. QED
    BY <2>1, <2>2 DEF Empty

\* A concatenation is as long as its parts.
LEMMA ConcatSeq ==
    ASSUME NEW s, IsSeq(s), NEW t, IsSeq(t)
    PROVE  IsSeq(s \o t) /\ Len(s \o t) = Len(s) + Len(t)
<1> DEFINE S == {s[k] : k \in 1..Len(s)} \cup {t[k] : k \in 1..Len(t)}
<1>1. s \in Seq(S) /\ t \in Seq(S)
  BY DEF IsSeq
<1> HIDE DEF S
<1>2. QED
  <2>1. s \o t \in Seq(S) /\ Len(s \o t) = Len(s) + Len(t)
    BY <1>1, ConcatProperties
  <2>2. QED
    BY <2>1, SeqIsSeq

\* A function on 1..n is a sequence of length n.
LEMMA FunctionSeq ==
    ASSUME NEW n \in Nat, NEW f, f = [k \in 1..n |-> f[k]]
    PROVE  IsSeq(f) /\ Len(f) = n
<1> DEFINE S == {f[k] : k \in 1..n}
<1>1. f \in Seq(S) /\ Len(f) = n
  <2>1. f \in [1..n -> S]
    OBVIOUS
  <2> HIDE DEF S
  <2>2. QED
    BY <2>1
<1>2. QED
  BY <1>1 DEF IsSeq

\* A sequence with an element replaced.
LEMMA ReplaceInSeq ==
    ASSUME NEW s, IsSeq(s), NEW t, DOMAIN t = 1..Len(s), t = [k \in DOMAIN t |-> t[k]]
    PROVE  IsSeq(t) /\ Len(t) = Len(s)
  BY FunctionSeq DEF IsSeq

\* A sequence that is not empty has a length.
LEMMA NotEmpty == ASSUME NEW s, IsSeq(s), s # Empty PROVE Len(s) > 0
<1> DEFINE S == {s[k] : k \in 1..Len(s)}
<1>1. s \in Seq(S)
  BY DEF IsSeq
<1> HIDE DEF S
<1>2. Len(s) \in Nat /\ Len(s) # 0
  BY <1>1, EmptySeq DEF Empty
<1>3. QED
  BY <1>2

\* The empty sequence.
LEMMA NoElements == ASSUME NEW s, s = Empty PROVE IsSeq(s) /\ Len(s) = 0
<1>1. s \in Seq({}) /\ Len(s) = 0
  BY DEF Empty
<1>2. QED
  BY <1>1, SeqIsSeq

\* A sequence and what was added to it.
Joined(s, t, st) ==
    /\ IsSeq(st) /\ Len(st) = Len(s) + Len(t)
    /\ \A k \in 1..Len(s) : st[k] = s[k]
    /\ \A k \in 1..Len(t) : st[Len(s) + k] = t[k]

\* A concatenation is what it says.
LEMMA ConcatJoined ==
    ASSUME NEW s, IsSeq(s), NEW t, IsSeq(t)
    PROVE  Joined(s, t, s \o t)
<1> DEFINE S == {s[k] : k \in 1..Len(s)} \cup {t[k] : k \in 1..Len(t)}
<1>1. s \in Seq(S) /\ t \in Seq(S)
  BY DEF IsSeq
<1>2. Len(s) \in Nat /\ Len(t) \in Nat
  BY DEF IsSeq
<1> HIDE DEF S
<1>3. \A i \in 1..Len(s) + Len(t) : (s \o t)[i] = IF i <= Len(s) THEN s[i] ELSE t[i - Len(s)]
  BY <1>1, ConcatProperties
<1>4. \A k \in 1..Len(s) : (s \o t)[k] = s[k]
  BY <1>2, <1>3
<1>5. \A k \in 1..Len(t) : (s \o t)[Len(s) + k] = t[k]
  <2>1. TAKE k \in 1..Len(t)
  <2>2. Len(s) + k \in 1..Len(s) + Len(t) /\ ~(Len(s) + k <= Len(s)) /\ (Len(s) + k) - Len(s) = k
    BY <1>2
  <2>3. QED
    BY <1>3, <2>2
<1>6. IsSeq(s \o t) /\ Len(s \o t) = Len(s) + Len(t)
  BY ConcatSeq
<1>7. QED
  BY <1>4, <1>5, <1>6 DEF Joined

-----------------------------------------------------------------------------
(***************************************************************************)
(* Steps that leave the directories alone.                                 *)
(***************************************************************************)
\* Files with the same directories.
SameDirs(fs, gs) ==
    /\ IsSeq(fs) /\ Len(fs) = Len(gs)
    /\ \A i \in 1..Len(gs) : /\ DOMAIN fs[i] = DOMAIN gs[i]
                             /\ fs[i].commit_count = gs[i].commit_count
                             /\ fs[i].dir = gs[i].dir

\* Workspaces whose formats are in the same state.
SameFormats(v, w) ==
    /\ v.fam.srecs = w.fam.srecs /\ v.fam.commit_max = w.fam.commit_max
    /\ v.fam.non_state_ready = w.fam.non_state_ready

\* Workspaces that differ in data, stream and history at most.
Like(v, w) ==
    /\ DOMAIN v = DOMAIN w /\ DOMAIN v.fam = DOMAIN w.fam
    /\ v.ok = w.ok
    /\ SameDirs(v.files, w.files)
    /\ v.fam.directory = w.fam.directory
    /\ v.fam.srecs = w.fam.srecs /\ v.fam.commit_max = w.fam.commit_max
    /\ v.fam.svars_fresh = w.fam.svars_fresh
    /\ v.fam.non_state_ready = w.fam.non_state_ready
    /\ v.fam.commit_count = w.fam.commit_count

\* A workspace keeps its shape when only data, stream and history change...
LEMMA LikeIsShaped ==
    ASSUME NEW w, NEW v, Shaped(w), Like(v, w)
    PROVE  Shaped(v)
  BY DEF Shaped, Like, SameDirs, DirsShaped, FilesMatch, InOrder

\* ... and stays good if the same file is open.
LEMMA LikeIsGood ==
    ASSUME NEW w, NEW v, Good(w), Like(v, w), v.fam.cur_index = w.fam.cur_index
    PROVE  Good(v)
<1>1. Shaped(v)
  BY LikeIsShaped DEF Good
<1>2. /\ Busy(w) => Busy(v)
      /\ Settled(w) => Settled(v)
  BY DEF Like, Busy, Settled, AtWork, Uncommitted, LastDir, file_count
<1>3. QED
  BY <1>1, <1>2 DEF Good

\* In a settled workspace any file may be open, or none.
LEMMA LikeIsSettled ==
    ASSUME NEW w, NEW v, Shaped(w), Settled(w), Like(v, w)
    PROVE  Shaped(v) /\ Settled(v) /\ Good(v)
<1>1. Shaped(v)
  BY LikeIsShaped
<1>2. Settled(v)
  BY DEF Like, Settled, Uncommitted, LastDir, file_count
<1>3. QED
  BY <1>1, <1>2 DEF Good

\* A workspace is like itself.
LEMMA SelfLike ==
    ASSUME NEW w, Shaped(w)
    PROVE  Like(w, w)
  BY DEF Shaped, Like, SameDirs, FilesMatch

\* fwrite changes the data of the open file.
LEMMA WriteLike ==
    ASSUME NEW w, Shaped(w), NEW units
    PROVE  Like(Write(w, units), w) /\ Write(w, units).fam.cur_index = w.fam.cur_index
<1> DEFINE v == Write(w, units)
           c == w.fam.cur_index
           f == [w.files[c] EXCEPT !.data = Put(@, w.fam.pos, units)]
<1>1. /\ DOMAIN w = WorkFields /\ DOMAIN w.fam = FamFields
      /\ IsSeq(w.files)
      /\ \A i \in 1..Len(w.files) : DOMAIN w.files[i] = FileFields
  BY DEF Shaped, FilesMatch
<1>2. /\ DOMAIN v = DOMAIN w /\ v.ok = w.ok
      /\ v.fam = [w.fam EXCEPT !.pos = @ + Len(units)]
      /\ v.files = [w.files EXCEPT ![c] = f]
  BY <1>1 DEF Write, WorkFields
<1>3. /\ IsSeq(v.files) /\ Len(v.files) = Len(w.files)
      /\ \A k \in 1..Len(w.files) : v.files[k] = IF k = c THEN f ELSE w.files[k]
  <2> DEFINE s == w.files
             t == v.files
  <2>1. IsSeq(s) /\ DOMAIN s = 1..Len(s) /\ t = [s EXCEPT ![c] = f]
    BY <1>1, <1>2 DEF IsSeq
  <2> HIDE DEF v, f, c, s, t
  <2>2. /\ DOMAIN t = 1..Len(s) /\ t = [k \in DOMAIN t |-> t[k]]
        /\ \A k \in 1..Len(s) : t[k] = IF k = c THEN f ELSE s[k]
    BY <2>1
  <2>3. IsSeq(t) /\ Len(t) = Len(s)
    BY <2>1, <2>2, ReplaceInSeq
  <2>4. QED
    BY <2>2, <2>3 DEF s, t
<1>4. \A k \in 1..Len(w.files) :
          k = c => /\ DOMAIN f = DOMAIN w.files[k]
                   /\ f.commit_count = w.files[k].commit_count
                   /\ f.dir = w.files[k].dir
  BY <1>1 DEF FileFields
<1> HIDE DEF v, f
<1>5. SameDirs(v.files, w.files)
  BY <1>3, <1>4 DEF SameDirs
<1>6. QED
  <2>1. Like(v, w) /\ v.fam.cur_index = w.fam.cur_index
    BY <1>1, <1>2, <1>5 DEF Like, FamFields
  <2>2. QED
    BY <2>1 DEF v

\* fseek, and an fopen whose file is known.
LEMMA SeekEndLike ==
    ASSUME NEW w, Shaped(w)
    PROVE  Like(SeekEnd(w), w) /\ SeekEnd(w).fam.cur_index = w.fam.cur_index
<1>1. Like(w, w)
  BY SelfLike
<1>2. DOMAIN w = WorkFields /\ DOMAIN w.fam = FamFields
  BY DEF Shaped
<1>3. QED
  BY <1>1, <1>2 DEF SeekEnd, Like, WorkFields, FamFields

-----------------------------------------------------------------------------
(***************************************************************************)
(* Steps that write something new.                                         *)
(***************************************************************************)
\* A file opened behind settled ones is at work.
LEMMA NewFileAtWork ==
    ASSUME NEW w, Shaped(w), Settled(w)
    PROVE  LET v == NewFile(w)
           IN  /\ Shaped(v) /\ AtWork(v)
               /\ v.files = Append(w.files, File(Empty))
               /\ v.fam.directory = Append(w.fam.directory, FileDir)
               /\ SameFormats(v, w)
<1> DEFINE v == NewFile(w)
           n == Len(w.fam.directory)
           dirs == Append(w.fam.directory, FileDir)
           fs == Append(w.files, File(Empty))
<1>1. /\ DOMAIN w = WorkFields /\ DOMAIN w.fam = FamFields /\ w.ok = TRUE
      /\ IsSeq(w.files) /\ IsSeq(w.fam.directory) /\ n \in Nat /\ n >= 1
      /\ Len(w.files) = n
  BY DEF Shaped, FilesMatch, DirsShaped, IsSeq
<1>2. /\ DOMAIN v = WorkFields /\ v.ok = TRUE /\ v.files = fs
      /\ DOMAIN v.fam = FamFields /\ v.fam.directory = dirs
      /\ v.fam.cur_index = n + 1
      /\ v.fam.srecs = w.fam.srecs /\ v.fam.commit_max = w.fam.commit_max
      /\ v.fam.non_state_ready = w.fam.non_state_ready
      /\ v.fam.commit_count = w.fam.commit_count
  BY <1>1 DEF NewFile, WorkFields, FamFields, file_count
<1>3. /\ IsSeq(dirs) /\ Len(dirs) = n + 1
      /\ \A k \in 1..n : dirs[k] = w.fam.directory[k]
      /\ dirs[n + 1] = FileDir
  BY <1>1, AppendSeq
<1>4. /\ IsSeq(fs) /\ Len(fs) = n + 1
      /\ \A k \in 1..n : fs[k] = w.files[k]
      /\ fs[n + 1] = File(Empty)
  BY <1>1, AppendSeq
<1>5. /\ DOMAIN FileDir = DirFields /\ FileDir.commit_count = 0 /\ FileDir.entries = Empty
      /\ DOMAIN File(Empty) = FileFields /\ File(Empty).commit_count = 0
      /\ IsSeq(Empty)
  BY NoElements DEF FileDir, File, DirFields, FileFields
<1> DEFINE old == w.fam.directory
<1>o. DirsShaped(old) /\ FilesMatch(w.files, old) /\ InOrder(old, w.fam.commit_count)
  BY DEF Shaped
<1>8. old[n].commit_count > 0
  BY <1>1, <1>o DEF Settled, Uncommitted, LastDir, file_count, DirsShaped
<1> DEFINE now == w.fam.commit_count
           was == w.files
<1> HIDE DEF v, n, dirs, fs
<1>p. /\ n = Len(old)
      /\ \A k \in 1..n : dirs[k] = old[k] /\ fs[k] = was[k]
  BY <1>3, <1>4 DEF n
<1> HIDE DEF old, now, was
<1>6. DirsShaped(dirs)
  BY <1>1, <1>3, <1>5, <1>o, <1>p DEF DirsShaped
<1>7. FilesMatch(fs, dirs)
  BY <1>1, <1>3, <1>4, <1>5, <1>o, <1>p DEF FilesMatch
<1>9. InOrder(dirs, w.fam.commit_count)
  BY <1>1, <1>3, <1>5, <1>8, <1>o, <1>p DEF InOrder, now
<1>10. Shaped(v)
  BY <1>1, <1>2, <1>6, <1>7, <1>9 DEF Shaped
<1>11. AtWork(v)
  BY <1>1, <1>2, <1>3, <1>5 DEF AtWork, Uncommitted, LastDir, file_count
<1>12. SameFormats(v, w)
  BY <1>2 DEF SameFormats
<1>13. QED
  BY <1>2, <1>10, <1>11, <1>12 DEF v, fs, dirs

\* Directories E are directories D but for the entries of the last one.
WithEntries(E, D, s) ==
    /\ IsSeq(E) /\ Len(E) = Len(D) /\ Len(D) \in Nat
    /\ \A i \in 1..Len(D) : /\ DOMAIN E[i] = DirFields
                            /\ E[i].commit_count = D[i].commit_count
                            /\ i # Len(D) => E[i].entries = D[i].entries
    /\ E[Len(D)].entries = s

\* EXCEPT on the entries of the last directory replaces just these.
LEMMA NewEntries ==
    ASSUME NEW D, DirsShaped(D), NEW s, NEW E, E = [D EXCEPT ![Len(D)].entries = s]
    PROVE  WithEntries(E, D, s)
<1>1. /\ IsSeq(D) /\ DOMAIN D = 1..Len(D) /\ Len(D) \in Nat /\ Len(D) >= 1
      /\ \A i \in 1..Len(D) : DOMAIN D[i] = DirFields
  BY DEF DirsShaped, IsSeq
<1> DEFINE n == Len(D)
           last == [D[n] EXCEPT !.entries = s]
<1>2. E = [D EXCEPT ![n] = last]
  OBVIOUS
<1>3. n \in 1..n
  BY <1>1
<1> HIDE DEF last, n
<1>4. /\ DOMAIN E = 1..Len(D) /\ E = [k \in DOMAIN E |-> E[k]]
      /\ \A k \in 1..Len(D) : E[k] = IF k = n THEN last ELSE D[k]
  BY <1>1, <1>2
<1>5. IsSeq(E) /\ Len(E) = Len(D)
  BY <1>1, <1>4, ReplaceInSeq
<1>6. /\ DOMAIN last = DirFields /\ last.commit_count = D[n].commit_count
      /\ last.entries = s
  BY <1>1, <1>3 DEF last, n, DirFields
<1>7. QED
  BY <1>1, <1>3, <1>4, <1>5, <1>6 DEF WithEntries, n

\* Directories stay directories when the last one gets other entries...
LEMMA WithEntriesShaped ==
    ASSUME NEW D, DirsShaped(D), NEW s, IsSeq(s), NEW E, WithEntries(E, D, s)
    PROVE  DirsShaped(E)
<1>1. IsSeq(E) /\ Len(E) >= 1
  BY DEF DirsShaped, WithEntries
<1>2. \A i \in 1..Len(D) : DOMAIN E[i] = DirFields /\ E[i].commit_count \in Nat
  BY DEF DirsShaped, WithEntries
<1>3. \A i \in 1..Len(D) : IsSeq(E[i].entries)
  <2>1. TAKE i \in 1..Len(D)
  <2>2. CASE i = Len(D)
    BY <2>2 DEF WithEntries
  <2>3. CASE i # Len(D)
    BY <2>3 DEF DirsShaped, WithEntries
  <2>4. QED
    BY <2>2, <2>3
<1>4. Len(E) = Len(D)
  BY DEF WithEntries
<1>5. QED
  BY <1>1, <1>2, <1>3, <1>4 DEF DirsShaped

\* What is committed stays as it is while the last file is not.
LEMMA WithEntriesMatches ==
    ASSUME NEW D, DirsShaped(D), D[Len(D)].commit_count = 0, NEW s, NEW E, WithEntries(E, D, s),
           NEW F, NEW G, SameDirs(F, G), FilesMatch(G, D)
    PROVE  FilesMatch(F, E)
<1>1. IsSeq(F) /\ Len(F) = Len(E) /\ Len(E) = Len(D) /\ Len(G) = Len(D)
  BY DEF SameDirs, FilesMatch, WithEntries
<1>2. \A i \in 1..Len(D) : DOMAIN F[i] = FileFields /\ F[i].commit_count = E[i].commit_count
  BY <1>1 DEF SameDirs, FilesMatch, WithEntries
<1>3. ASSUME NEW i \in 1..Len(D), E[i].commit_count > 0
      PROVE  F[i].dir = E[i].entries
  <2>1. D[i].commit_count > 0 /\ i # Len(D)
    BY <1>3 DEF WithEntries
  <2>2. F[i].dir = G[i].dir
    BY <1>1 DEF SameDirs
  <2>3. G[i].dir = D[i].entries
    BY <2>1 DEF FilesMatch
  <2>4. E[i].entries = D[i].entries
    BY <2>1 DEF WithEntries
  <2>5. QED
    BY <2>2, <2>3, <2>4
<1>4. QED
  BY <1>1, <1>2, <1>3 DEF FilesMatch

\* ... and the order of their commits stays.
LEMMA WithEntriesInOrder ==
    ASSUME NEW D, DirsShaped(D), NEW s, NEW E, WithEntries(E, D, s), NEW now, InOrder(D, now)
    PROVE  InOrder(E, now)
<1>1. /\ Len(E) = Len(D) /\ Len(D) \in 1..Len(D)
      /\ \A i \in 1..Len(D) : E[i].commit_count = D[i].commit_count
  BY DEF WithEntries, DirsShaped, IsSeq
<1>2. QED
  BY <1>1 DEF InOrder

\* w, at work, with entries s in the directory of its last file.
LEMMA EnteredIsBusy ==
    ASSUME NEW w, Shaped(w), AtWork(w), NEW s, IsSeq(s), s # Empty,
           NEW v, DOMAIN v = WorkFields, DOMAIN v.fam = FamFields, v.ok = TRUE,
           SameDirs(v.files, w.files), WithEntries(v.fam.directory, w.fam.directory, s),
           v.fam.cur_index = w.fam.cur_index, v.fam.commit_count = w.fam.commit_count,
           IsSeq(v.fam.srecs), v.fam.commit_max \in Nat
    PROVE  Shaped(v) /\ Busy(v)
<1> DEFINE D == w.fam.directory
           E == v.fam.directory
<1>1. DirsShaped(D) /\ FilesMatch(w.files, D) /\ InOrder(D, w.fam.commit_count)
  BY DEF Shaped
<1>2. D[Len(D)].commit_count = 0 /\ w.fam.cur_index = Len(D)
  BY DEF AtWork, Uncommitted, LastDir, file_count
<1>3. DirsShaped(E)
  BY <1>1, WithEntriesShaped
<1>4. FilesMatch(v.files, E)
  BY <1>1, <1>2, WithEntriesMatches
<1>5. InOrder(E, v.fam.commit_count)
  BY <1>1, WithEntriesInOrder
<1>6. Shaped(v)
  BY <1>3, <1>4, <1>5 DEF Shaped
<1>7. Len(E) = Len(D) /\ E[Len(D)].commit_count = 0 /\ E[Len(D)].entries = s
  BY <1>1, <1>2 DEF WithEntries, DirsShaped
<1>8. Busy(v)
  BY <1>2, <1>7 DEF Busy, AtWork, Uncommitted, LastDir, file_count
<1>9. QED
  BY <1>6, <1>8

\* add_dir_entry and the write behind it
LEMMA AddEntryBusy ==
    ASSUME NEW w, Shaped(w), AtWork(w), NEW kind, NEW name, NEW len
    PROVE  LET v == AddEntry(w, kind, name, len)
           IN  /\ Shaped(v) /\ Busy(v) /\ v.fam.svars_fresh = w.fam.svars_fresh
               /\ SameDirs(v.files, w.files) /\ SameFormats(v, w)
               /\ \E e : /\ e.kind = kind
                         /\ WithEntries(v.fam.directory, w.fam.directory,
                                        Append(LastDir(w).entries, e))
<1> DEFINE n == Len(w.fam.directory)
           c == w.clock + 1
           x == Write(w, Copies(c, len))
           e == [kind |-> kind, name |-> name, id |-> 0,
                 offset |-> w.fam.next_free_byte, length |-> len]
           s == Append(w.fam.directory[n].entries, e)
           v == AddEntry(w, kind, name, len)
<1>1. Like(x, w) /\ x.fam.cur_index = w.fam.cur_index
  BY WriteLike
<1>2. DOMAIN w = WorkFields /\ DOMAIN w.fam = FamFields /\ w.ok = TRUE /\ DirsShaped(w.fam.directory)
  BY DEF Shaped
<1>3. IsSeq(s) /\ s # Empty
  <2>1. IsSeq(w.fam.directory[n].entries)
    BY <1>2 DEF DirsShaped
  <2> HIDE DEF e, n
  <2>2. QED
    BY <2>1, AppendSeq
<1>4. v = [x EXCEPT !.fam.directory[n].entries = Append(@, e), !.fam.next_free_byte = @ + len,
                    !.wrote[n] = Append(@, Copies(c, len)), !.clock = c]
  BY DEF AddEntry, file_count
<1>5. x.fam.directory = w.fam.directory
  BY <1>1 DEF Like
<1>e. e.kind = kind
  OBVIOUS
<1> HIDE DEF x, v, e, c
<1>6. /\ DOMAIN v = WorkFields /\ DOMAIN v.fam = FamFields /\ v.ok = TRUE
      /\ v.files = x.files
      /\ v.fam.directory = [w.fam.directory EXCEPT ![n].entries = s]
      /\ v.fam.cur_index = w.fam.cur_index /\ v.fam.commit_count = w.fam.commit_count
      /\ v.fam.srecs = w.fam.srecs /\ v.fam.commit_max = w.fam.commit_max
      /\ v.fam.non_state_ready = w.fam.non_state_ready
      /\ v.fam.svars_fresh = w.fam.svars_fresh
  BY <1>1, <1>2, <1>4, <1>5 DEF Like, WorkFields, FamFields
<1> HIDE DEF s
<1>7. WithEntries(v.fam.directory, w.fam.directory, s)
  BY <1>2, <1>6, NewEntries
<1>8. SameDirs(v.files, w.files)
  BY <1>1, <1>6 DEF Like
<1>9. Shaped(v) /\ Busy(v)
  BY <1>3, <1>6, <1>7, <1>8, EnteredIsBusy DEF Shaped
<1>10. SameFormats(v, w)
  BY <1>6 DEF SameFormats
<1>11. WithEntries(v.fam.directory, w.fam.directory, Append(LastDir(w).entries, e))
  BY <1>7 DEF s, n, LastDir, file_count
<1>12. QED
  BY <1>6, <1>8, <1>9, <1>10, <1>11, <1>e DEF v

\* commit_svars leaves a file at work, and no variable in memory.
LEMMA CommitSvarsBusy ==
    ASSUME NEW w, Shaped(w), Busy(w)
    PROVE  LET v == CommitSvars(w)
           IN  Shaped(v) /\ Busy(v) /\ ~v.fam.svars_fresh
<1>1. CASE w.fam.svars_fresh
  <2> DEFINE x == AddEntry(w, "svars", "", 1)
             v == [x EXCEPT !.fam.svars_fresh = FALSE]
  <2>0. AtWork(w)
    BY DEF Busy
  <2>1. Shaped(x) /\ Busy(x)
    BY <2>0, AddEntryBusy
  <2> HIDE DEF x
  <2>2. DOMAIN x = WorkFields /\ DOMAIN x.fam = FamFields
    BY <2>1 DEF Shaped
  <2>3. /\ DOMAIN v = WorkFields /\ DOMAIN v.fam = FamFields /\ v.ok = x.ok
        /\ v.files = x.files /\ v.fam = [x.fam EXCEPT !.svars_fresh = FALSE]
    BY <2>2 DEF WorkFields, FamFields
  <2> HIDE DEF v
  <2>4. /\ v.fam.directory = x.fam.directory /\ v.fam.cur_index = x.fam.cur_index
        /\ v.fam.commit_count = x.fam.commit_count /\ v.fam.srecs = x.fam.srecs
        /\ v.fam.commit_max = x.fam.commit_max /\ v.fam.svars_fresh = FALSE
    BY <2>2, <2>3 DEF FamFields
  <2>5. Shaped(v)
    BY <2>1, <2>3, <2>4 DEF Shaped
  <2>6. Busy(v)
    BY <2>1, <2>4 DEF Busy, AtWork, Uncommitted, LastDir, file_count
  <2>7. CommitSvars(w) = v
    BY <1>1 DEF CommitSvars, v, x
  <2>8. QED
    BY <2>4, <2>5, <2>6, <2>7
<1>2. CASE ~w.fam.svars_fresh
  BY <1>2 DEF CommitSvars
<1>3. QED
  BY <1>1, <1>2

\* The formats that wait in memory can be counted.
LEMMA FreshFinite ==
    ASSUME NEW w, Shaped(w)
    PROVE  Cardinality(FreshFormats(w)) \in Nat
<1>1. w.fam.commit_max + 1 \in Int /\ Len(w.fam.srecs) \in Int
  BY DEF Shaped, IsSeq
<1>2. IsFiniteSet(w.fam.commit_max + 1 .. Len(w.fam.srecs))
  BY <1>1, FS_Interval
<1>3. FreshFormats(w) \subseteq w.fam.commit_max + 1 .. Len(w.fam.srecs)
  BY DEF FreshFormats
<1>4. QED
  BY <1>2, <1>3, FS_Subset, FS_CardinalityType

\* commit_srecs leaves a file at work, and the variables alone.
LEMMA CommitSrecsBusy ==
    ASSUME NEW w, Shaped(w), Busy(w)
    PROVE  LET v == CommitSrecs(w)
               fresh == FreshFormats(w)
               new   == [k \in 1..Cardinality(fresh) |->
                            [kind |-> "srec", name |-> "", id |-> Nth(fresh, k),
                             offset |-> w.fam.next_free_byte + k - 1, length |-> 1]]
           IN  /\ Shaped(v) /\ Busy(v) /\ v.fam.svars_fresh = w.fam.svars_fresh
               /\ SameDirs(v.files, w.files)
               /\ WithEntries(v.fam.directory, w.fam.directory, LastDir(w).entries \o new)
               /\ v.fam.srecs = [i \in DOMAIN w.fam.srecs |->
                                    IF i \in fresh THEN "saved" ELSE w.fam.srecs[i]]
               /\ v.fam.commit_max = Len(w.fam.srecs)
<1> DEFINE n == Len(w.fam.directory)
           fresh == FreshFormats(w)
           qty == Cardinality(fresh)
           x == Write(w, [k \in 1..qty |-> w.clock + k])
           entry(k) == [kind |-> "srec", name |-> "", id |-> Nth(fresh, k),
                        offset |-> w.fam.next_free_byte + k - 1, length |-> 1]
           new == [k \in 1..qty |-> entry(k)]
           tokens == [k \in 1..qty |-> <<w.clock + k>>]
           s == w.fam.directory[n].entries \o new
           v == CommitSrecs(w)
<1>1. Like(x, w) /\ x.fam.cur_index = w.fam.cur_index
  <2> HIDE DEF qty
  <2>1. QED
    BY WriteLike
<1>2. /\ DOMAIN w = WorkFields /\ DOMAIN w.fam = FamFields /\ w.ok = TRUE
      /\ DirsShaped(w.fam.directory) /\ IsSeq(w.fam.srecs)
  BY DEF Shaped
<1>3. IsSeq(s) /\ s # Empty
  <2>1. IsSeq(w.fam.directory[n].entries) /\ w.fam.directory[n].entries # Empty
    BY <1>2 DEF DirsShaped, Busy, LastDir, file_count
  <2>2. qty \in Nat
    BY FreshFinite
  <2>3. IsSeq(new)
    <3> HIDE DEF qty, fresh
    <3>1. new = [k \in 1..qty |-> new[k]]
      OBVIOUS
    <3> HIDE DEF new
    <3>2. QED
      BY <2>2, <3>1, FunctionSeq
  <2> DEFINE old == w.fam.directory[n].entries
  <2> HIDE DEF new, qty, old
  <2>4. IsSeq(old \o new) /\ Len(old \o new) = Len(old) + Len(new)
    BY <2>1, <2>3, ConcatSeq DEF old
  <2>5. Len(old) > 0 /\ Len(new) \in Nat /\ Len(old) \in Nat
    BY <2>1, <2>3, NotEmpty DEF old, IsSeq
  <2>6. old \o new # Empty
    BY <2>4, <2>5, NoElements
  <2>7. QED
    BY <2>4, <2>6 DEF old
<1>4. v = [x EXCEPT !.fam.directory[n].entries = @ \o new,
                    !.fam.next_free_byte = @ + qty,
                    !.fam.srecs = [i \in DOMAIN @ |-> IF i \in fresh THEN "saved" ELSE @[i]],
                    !.fam.commit_max = Len(w.fam.srecs),
                    !.wrote[n] = @ \o tokens,
                    !.clock = @ + qty]
  BY DEF CommitSrecs, file_count
<1>5. x.fam.directory = w.fam.directory /\ x.fam.srecs = w.fam.srecs
  BY <1>1 DEF Like
<1> HIDE DEF x, v, new, tokens, fresh, qty
<1>6. /\ DOMAIN v = WorkFields /\ DOMAIN v.fam = FamFields /\ v.ok = TRUE
      /\ v.files = x.files
      /\ v.fam.directory = [w.fam.directory EXCEPT ![n].entries = s]
      /\ v.fam.cur_index = w.fam.cur_index /\ v.fam.commit_count = w.fam.commit_count
      /\ v.fam.commit_max = Len(w.fam.srecs)
      /\ v.fam.svars_fresh = w.fam.svars_fresh
  <2>1. /\ DOMAIN x = WorkFields /\ DOMAIN x.fam = FamFields /\ x.ok = TRUE
        /\ x.fam.svars_fresh = w.fam.svars_fresh /\ x.fam.commit_count = w.fam.commit_count
    BY <1>1, <1>2 DEF Like
  <2>2. DOMAIN v = WorkFields /\ v.ok = x.ok /\ v.files = x.files
    BY <1>4, <2>1 DEF WorkFields
  <2>3. DOMAIN v.fam = FamFields
    BY <1>4, <2>1 DEF WorkFields
  <2>f. v.fam = [x.fam EXCEPT !.directory[n].entries = @ \o new,
                              !.next_free_byte = @ + qty,
                              !.srecs = [i \in DOMAIN @ |-> IF i \in fresh THEN "saved" ELSE @[i]],
                              !.commit_max = Len(w.fam.srecs)]
    BY <1>4, <2>1 DEF WorkFields
  <2>4. v.fam.directory = [x.fam.directory EXCEPT ![n].entries = @ \o new]
    BY <2>1, <2>f DEF FamFields
  <2>5. /\ v.fam.cur_index = x.fam.cur_index /\ v.fam.commit_count = x.fam.commit_count
        /\ v.fam.commit_max = Len(w.fam.srecs) /\ v.fam.svars_fresh = x.fam.svars_fresh
    BY <2>1, <2>f DEF FamFields
  <2>6. v.fam.directory = [w.fam.directory EXCEPT ![n].entries = s]
    BY <1>5, <2>4
  <2>7. QED
    BY <1>1, <2>1, <2>2, <2>3, <2>5, <2>6
<1>7. /\ v.fam.srecs = [i \in DOMAIN w.fam.srecs |->
                            IF i \in fresh THEN "saved" ELSE w.fam.srecs[i]]
      /\ DOMAIN v.fam.srecs = DOMAIN w.fam.srecs
      /\ v.fam.srecs = [k \in DOMAIN v.fam.srecs |-> v.fam.srecs[k]]
  <2> DEFINE z == x.fam.srecs
  <2>1. "fam" \in DOMAIN x /\ "srecs" \in DOMAIN x.fam
    BY <1>1, <1>2 DEF Like, WorkFields, FamFields
  <2>2. v.fam.srecs = [i \in DOMAIN z |-> IF i \in fresh THEN "saved" ELSE z[i]]
    BY <1>4, <2>1
  <2> HIDE DEF z
  <2>3. /\ DOMAIN v.fam.srecs = DOMAIN z
        /\ v.fam.srecs = [k \in DOMAIN v.fam.srecs |-> v.fam.srecs[k]]
    BY <2>2
  <2>4. QED
    BY <1>5, <2>2, <2>3 DEF z
<1>8. IsSeq(v.fam.srecs)
  <2>1. DOMAIN w.fam.srecs = 1..Len(w.fam.srecs)
    BY <1>2 DEF IsSeq
  <2>2. QED
    BY <1>2, <1>7, <2>1, ReplaceInSeq
<1> HIDE DEF s
<1>9. WithEntries(v.fam.directory, w.fam.directory, s)
  BY <1>2, <1>6, NewEntries
<1>10. SameDirs(v.files, w.files)
  BY <1>1, <1>6 DEF Like
<1>11. AtWork(w) /\ v.fam.commit_max \in Nat
  BY <1>2, <1>6 DEF Busy, IsSeq
<1>12. Shaped(v) /\ Busy(v)
  BY <1>3, <1>6, <1>8, <1>9, <1>10, <1>11, EnteredIsBusy
<1>13. WithEntries(v.fam.directory, w.fam.directory, LastDir(w).entries \o new)
  BY <1>9 DEF s, n, LastDir, file_count
<1>14. QED
  BY <1>6, <1>7, <1>10, <1>12, <1>13 DEF v, new, fresh, qty

\* commit_dir: the last file is committed, later than any other.
LEMMA CommitDirCommits ==
    ASSUME NEW w, Shaped(w), Busy(w)
    PROVE  LET v == [CommitDir(w) EXCEPT !.fam.commit_count = @ + 1,
                                         !.fam.non_state_ready = FALSE]
           IN  /\ Shaped(v) /\ ~Uncommitted(v) /\ v.fam.non_state_ready = FALSE
               /\ v.fam.svars_fresh = w.fam.svars_fresh
               /\ v.fam.srecs = w.fam.srecs /\ v.fam.commit_max = w.fam.commit_max
               /\ Len(v.files) = file_count(w)
               /\ \A i \in 1..file_count(w) :
                      v.files[i].dir = IF i = file_count(w) THEN LastDir(w).entries
                                                           ELSE w.files[i].dir
<1> DEFINE v == [CommitDir(w) EXCEPT !.fam.commit_count = @ + 1,
                                     !.fam.non_state_ready = FALSE]
           D == w.fam.directory
           E == v.fam.directory
           n == Len(D)
           c == w.fam.commit_count + 1
           d == D[n].entries
           x == Write(w, <<DIR>>)
           y == CommitDir(w)
           F == x.files
           G == y.files
<1>1. Like(x, w) /\ x.fam.cur_index = w.fam.cur_index
  BY WriteLike
<1>2. /\ DOMAIN w = WorkFields /\ DOMAIN w.fam = FamFields /\ w.ok = TRUE
      /\ DirsShaped(D) /\ FilesMatch(w.files, D) /\ InOrder(D, w.fam.commit_count)
      /\ IsSeq(w.fam.srecs) /\ w.fam.commit_max \in Nat
  BY DEF Shaped
<1>3. d # Empty /\ D[n].commit_count = 0
  BY DEF Busy, AtWork, Uncommitted, LastDir, file_count
<1>4. y = [x EXCEPT !.files[n].dir = d, !.files[n].commit_count = c,
                    !.fam.directory[n].commit_count = c, !.fam.next_free_byte = @ + 1]
  BY <1>3 DEF CommitDir, LastDir, file_count
<1> HIDE DEF x, y, d, c, v
<1>5. /\ DOMAIN y = WorkFields /\ DOMAIN y.fam = FamFields /\ y.ok = TRUE
      /\ y.files = [x.files EXCEPT ![n].dir = d, ![n].commit_count = c]
      /\ y.fam.directory = [D EXCEPT ![n].commit_count = c]
      /\ y.fam.cur_index = w.fam.cur_index /\ y.fam.commit_count = w.fam.commit_count
      /\ y.fam.srecs = w.fam.srecs /\ y.fam.commit_max = w.fam.commit_max
      /\ y.fam.svars_fresh = w.fam.svars_fresh
  BY <1>1, <1>2, <1>4 DEF Like, WorkFields, FamFields
<1>6. v = [y EXCEPT !.fam.commit_count = @ + 1, !.fam.non_state_ready = FALSE]
  BY DEF y, v
<1>7. /\ DOMAIN v = WorkFields /\ DOMAIN v.fam = FamFields /\ v.ok = TRUE
      /\ v.files = G
      /\ E = [D EXCEPT ![n].commit_count = c]
      /\ v.fam.commit_count = c /\ v.fam.non_state_ready = FALSE
      /\ v.fam.srecs = w.fam.srecs /\ v.fam.commit_max = w.fam.commit_max
      /\ v.fam.svars_fresh = w.fam.svars_fresh
  <2>1. DOMAIN y = WorkFields /\ DOMAIN y.fam = FamFields /\ y.fam.commit_count + 1 = c
    BY <1>5 DEF c
  <2>2. /\ DOMAIN v = DOMAIN y /\ v.ok = y.ok /\ v.files = y.files
        /\ v.fam = [y.fam EXCEPT !.commit_count = c, !.non_state_ready = FALSE]
    BY <1>6, <2>1 DEF WorkFields
  <2> DEFINE f == [y.fam EXCEPT !.commit_count = c]
  <2>3. /\ DOMAIN f = FamFields /\ f.commit_count = c
        /\ f.directory = y.fam.directory /\ f.srecs = y.fam.srecs
        /\ f.commit_max = y.fam.commit_max /\ f.svars_fresh = y.fam.svars_fresh
    BY <2>1 DEF FamFields
  <2>4. v.fam = [f EXCEPT !.non_state_ready = FALSE]
    BY <2>2
  <2> HIDE DEF f
  <2>5. /\ DOMAIN v.fam = FamFields /\ v.fam.commit_count = f.commit_count
        /\ v.fam.directory = f.directory /\ v.fam.srecs = f.srecs
        /\ v.fam.commit_max = f.commit_max /\ v.fam.svars_fresh = f.svars_fresh
        /\ v.fam.non_state_ready = FALSE
    BY <2>3, <2>4 DEF FamFields
  <2>6. QED
    BY <1>5, <2>1, <2>2, <2>3, <2>5
<1>8. n \in Nat /\ n >= 1 /\ c \in Nat /\ c > 0
  BY <1>2 DEF DirsShaped, InOrder, c
<1>9. /\ IsSeq(F) /\ Len(F) = n
      /\ \A i \in 1..n : /\ DOMAIN F[i] = FileFields
                         /\ F[i].commit_count = D[i].commit_count
                         /\ D[i].commit_count > 0 => F[i].dir = D[i].entries
  BY <1>1, <1>2, <1>8 DEF Like, SameDirs, FilesMatch
<1> HIDE DEF D, E, F, G, n
<1>10. IsSeq(D) /\ DOMAIN D = 1..n /\ \A i \in 1..n : DOMAIN D[i] = DirFields
  BY <1>2 DEF DirsShaped, IsSeq, n
<1> DEFINE lastdir == [D[n] EXCEPT !.commit_count = c]
           lastfile == [F[n] EXCEPT !.dir = d, !.commit_count = c]
<1>11. /\ DOMAIN lastdir = DirFields /\ lastdir.commit_count = c /\ lastdir.entries = d
       /\ DOMAIN lastfile = FileFields /\ lastfile.commit_count = c /\ lastfile.dir = d
  BY <1>8, <1>9, <1>10 DEF DirFields, FileFields, d
<1>12. E = [D EXCEPT ![n] = lastdir]
  BY <1>7
<1>13. G = [F EXCEPT ![n] = lastfile]
  <2> DEFINE H == [F EXCEPT ![n].dir = d]
  <2>1. n \in DOMAIN F /\ DOMAIN F[n] = FileFields
    BY <1>8, <1>9 DEF IsSeq
  <2>2. G = [H EXCEPT ![n].commit_count = c]
    BY <1>5 DEF F, G
  <2>3. H = [F EXCEPT ![n] = [F[n] EXCEPT !.dir = d]] /\ H[n] = [F[n] EXCEPT !.dir = d]
    BY <2>1
  <2>4. n \in DOMAIN H /\ lastfile = [H[n] EXCEPT !.commit_count = c]
    BY <2>1, <2>3
  <2>5. G = [H EXCEPT ![n] = lastfile]
    BY <2>2, <2>4
  <2> HIDE DEF lastfile
  <2>6. QED
    BY <2>3, <2>5
<1> HIDE DEF lastdir, lastfile
<1>14. /\ IsSeq(E) /\ Len(E) = n
       /\ \A i \in 1..n : E[i] = IF i = n THEN lastdir ELSE D[i]
  <2>1. /\ DOMAIN E = 1..n /\ E = [k \in DOMAIN E |-> E[k]]
        /\ \A i \in 1..n : E[i] = IF i = n THEN lastdir ELSE D[i]
    BY <1>10, <1>12
  <2>2. QED
    BY <1>10, <2>1, ReplaceInSeq DEF n
<1>15. /\ IsSeq(G) /\ Len(G) = n
       /\ \A i \in 1..n : G[i] = IF i = n THEN lastfile ELSE F[i]
  <2>1. DOMAIN F = 1..n
    BY <1>9 DEF IsSeq
  <2>2. /\ DOMAIN G = 1..n /\ G = [k \in DOMAIN G |-> G[k]]
        /\ \A i \in 1..n : G[i] = IF i = n THEN lastfile ELSE F[i]
    BY <1>13, <2>1
  <2>3. QED
    BY <1>9, <2>2, ReplaceInSeq
<1>16. IsSeq(d) /\ n = Len(D)
  BY <1>2, <1>8 DEF DirsShaped, d, n
<1>17. DirsShaped(E)
  BY <1>2, <1>8, <1>11, <1>14, <1>16 DEF DirsShaped
<1>18. FilesMatch(G, E)
  BY <1>8, <1>9, <1>11, <1>14, <1>15 DEF FilesMatch
<1>19. InOrder(E, c)
  <2>1. \A i \in 1..n : D[i].commit_count \in Nat /\ D[i].commit_count < c
    BY <1>2, <1>8, <1>16 DEF InOrder, DirsShaped, c
  <2>2. QED
    BY <1>2, <1>8, <1>11, <1>14, <1>16, <2>1 DEF InOrder
<1>20. Shaped(v)
  BY <1>2, <1>7, <1>17, <1>18, <1>19 DEF Shaped, E
<1>21. ~Uncommitted(v)
  BY <1>8, <1>11, <1>14 DEF Uncommitted, LastDir, file_count, E
<1>22. \A i \in 1..n : F[i].dir = w.files[i].dir
  BY <1>1, <1>2, <1>16 DEF Like, SameDirs, FilesMatch, F, D
<1>23. \A i \in 1..n : v.files[i].dir = IF i = n THEN d ELSE w.files[i].dir
  BY <1>7, <1>11, <1>15, <1>22
<1>24. n = file_count(w) /\ d = LastDir(w).entries
  BY DEF n, D, d, LastDir, file_count
<1>25. QED
  BY <1>7, <1>15, <1>20, <1>21, <1>23, <1>24 DEF v

-----------------------------------------------------------------------------
(***************************************************************************)
(* Committing and closing.                                                 *)
(***************************************************************************)
LEMMA LikeIsBusy ==
    ASSUME NEW w, NEW v, Shaped(w), Busy(w), Like(v, w), v.fam.cur_index = w.fam.cur_index
    PROVE  Shaped(v) /\ Busy(v)
<1>1. Shaped(v)
  BY LikeIsShaped
<1>2. Busy(v)
  BY DEF Like, Busy, AtWork, Uncommitted, LastDir, file_count
<1>3. QED
  BY <1>1, <1>2

\* What is to be committed is at work; so a commit does not call itself.
LEMMA CommitMeansBusy ==
    ASSUME NEW w, Good(w), COMMIT_NS(w)
    PROVE  Busy(w)
  BY DEF Good, Settled, COMMIT_NS

\* A file at work is open.
LEMMA BusyIsOpen ==
    ASSUME NEW w, Shaped(w), Busy(w)
    PROVE  w.fam.cur_index # NoFile /\ AtWork(w)
  BY DEF Shaped, DirsShaped, Busy, AtWork, file_count, NoFile

\* commit_non_state on a file at work commits it; nothing waits in memory then.
LEMMA CommitSettles ==
    ASSUME NEW w, Shaped(w), Busy(w)
    PROVE  Shaped(CommitNonState(w)) /\ Settled(CommitNonState(w))
<1> DEFINE a == SeekEnd(w)
           b == CommitSvars(a)
           c == CommitSrecs(b)
           v == [CommitDir(c) EXCEPT !.fam.commit_count = @ + 1, !.fam.non_state_ready = FALSE]
<1>1. CommitNonState(w) = v
  BY BusyIsOpen DEF CommitNonState
<1>2. Shaped(a) /\ Busy(a)
  BY SeekEndLike, LikeIsBusy
<1> HIDE DEF a
<1>3. Shaped(b) /\ Busy(b) /\ ~b.fam.svars_fresh
  BY <1>2, CommitSvarsBusy
<1> HIDE DEF b
<1>4. Shaped(c) /\ Busy(c) /\ ~c.fam.svars_fresh
  BY <1>3, CommitSrecsBusy
<1> HIDE DEF c
<1>5. /\ Shaped(v) /\ ~Uncommitted(v) /\ v.fam.non_state_ready = FALSE
      /\ v.fam.svars_fresh = c.fam.svars_fresh
  BY <1>4, CommitDirCommits
<1> HIDE DEF v
<1>6. Settled(v)
  BY <1>4, <1>5 DEF Settled
<1>7. QED
  BY <1>1, <1>5, <1>6

\* Whatever was open, and at whatever place.
LEMMA StreamLike ==
    ASSUME NEW w, Shaped(w), NEW i, NEW p, NEW b
    PROVE  /\ Like([w EXCEPT !.fam.cur_index = i], w)
           /\ Like([w EXCEPT !.fam.cur_index = i, !.fam.pos = p, !.fam.next_free_byte = b], w)
<1>1. Like(w, w)
  BY SelfLike
<1>2. DOMAIN w = WorkFields /\ DOMAIN w.fam = FamFields
  BY DEF Shaped
<1>3. QED
  BY <1>1, <1>2 DEF Like, WorkFields, FamFields

\* non_state_file_close commits what is open: every file is committed then.
LEMMA FileCloseSettles ==
    ASSUME NEW w, Good(w)
    PROVE  Shaped(FileClose(w)) /\ Settled(FileClose(w)) /\ Good(FileClose(w))
<1>1. CASE w.fam.cur_index = NoFile
  <2>1. FileClose(w) = w
    BY <1>1 DEF FileClose
  <2>2. Shaped(w) /\ Settled(w)
    BY <1>1, BusyIsOpen DEF Good
  <2>3. QED
    BY <2>1, <2>2
<1>2. CASE w.fam.cur_index # NoFile
  <2> DEFINE v == IF COMMIT_NS(w) THEN CommitNonState(w) ELSE w
  <2>1. Shaped(v) /\ Settled(v)
    <3>1. CASE COMMIT_NS(w)
      BY <3>1, CommitMeansBusy, CommitSettles DEF Good
    <3>2. CASE ~COMMIT_NS(w)
      BY <3>2 DEF COMMIT_NS, Good, Busy, AtWork
    <3>3. QED
      BY <3>1, <3>2
  <2> HIDE DEF v
  <2>2. Like([v EXCEPT !.fam.cur_index = NoFile], v)
    BY <2>1, StreamLike
  <2>3. FileClose(w) = [v EXCEPT !.fam.cur_index = NoFile]
    BY <1>2 DEF FileClose, v
  <2>4. QED
    BY <2>1, <2>2, <2>3, LikeIsSettled
<1>3. QED
  BY <1>1, <1>2

\* non_state_file_open closes the open file and opens another.
LEMMA FileOpenGood ==
    ASSUME NEW w, Good(w), NEW i
    PROVE  Good(FileOpen(w, i))
<1>1. CASE w.fam.cur_index = i
  BY <1>1 DEF FileOpen
<1>2. CASE w.fam.cur_index # i
  <2> DEFINE v == FileClose(w)
             u == [v EXCEPT !.fam.cur_index = i, !.fam.pos = 0, !.fam.next_free_byte = Size(v, i)]
  <2>1. Shaped(v) /\ Settled(v)
    BY FileCloseSettles
  <2>2. FileOpen(w, i) = u
    BY <1>2 DEF FileOpen
  <2> HIDE DEF v
  <2>3. Like(u, v)
    BY <2>1, StreamLike
  <2> HIDE DEF u
  <2>4. QED
    BY <2>1, <2>2, <2>3, LikeIsSettled
<1>3. QED
  BY <1>1, <1>2

\* After prep_for_new_data the last file is open and uncommitted.
LEMMA PrepAtWork ==
    ASSUME NEW w, Good(w)
    PROVE  Shaped(PrepForNewData(w)) /\ AtWork(PrepForNewData(w))
<1>1. CASE AtWork(w)
  <2>1. Shaped(w) /\ Busy(w)
    BY <1>1 DEF Good, AtWork, Settled
  <2>2. Shaped(SeekEnd(w)) /\ Busy(SeekEnd(w))
    BY <2>1, SeekEndLike, LikeIsBusy
  <2>3. QED
    BY <1>1, <2>2 DEF PrepForNewData, Busy
<1>2. CASE ~AtWork(w)
  BY <1>2, FileCloseSettles, NewFileAtWork DEF PrepForNewData
<1>3. QED
  BY <1>1, <1>2

\* A new entry, in a file that is at work by then.
LEMMA NewEntryGood ==
    ASSUME NEW w, Good(w), NEW kind, NEW name, NEW len
    PROVE  Good(AddEntry(PrepForNewData(w), kind, name, len))
  BY PrepAtWork, AddEntryBusy DEF Good

\* What only the parameter table, the header or the history sees.
LEMMA TableLike ==
    ASSUME NEW w, Shaped(w), NEW names
    PROVE  LET v == [w EXCEPT !.fam.names = names]
           IN  Like(v, w) /\ v.fam.cur_index = w.fam.cur_index
<1>1. Like(w, w)
  BY SelfLike
<1>2. DOMAIN w = WorkFields /\ DOMAIN w.fam = FamFields
  BY DEF Shaped
<1>3. QED
  BY <1>1, <1>2 DEF Like, WorkFields, FamFields

\* A new parameter leaves a file at work.
LEMMA WriteNewGood ==
    ASSUME NEW w, Good(w), NEW n, NEW len
    PROVE  Good(WriteNew(w, n, len))
<1> DEFINE a == AddEntry(PrepForNewData(w), "param", n, len)
           t == [a.fam.names EXCEPT ![n] =
                    [file |-> a.fam.cur_index, entry |-> Len(LastDir(a).entries)]]
           v == [a EXCEPT !.fam.names = t]
<1>1. Good(a)
  BY NewEntryGood
<1> HIDE DEF a
<1>2. WriteNew(w, n, len) = v
  <2>1. DOMAIN a = WorkFields /\ DOMAIN a.fam = FamFields
    BY <1>1 DEF Good, Shaped
  <2>2. Enter(a, n) = v
    BY <2>1 DEF Enter, WorkFields, FamFields
  <2>3. QED
    BY <2>2 DEF WriteNew, a
<1> HIDE DEF t
<1>3. Like(v, a) /\ v.fam.cur_index = a.fam.cur_index
  BY <1>1, TableLike DEF Good
<1> HIDE DEF v
<1>4. QED
  BY <1>1, <1>2, <1>3, LikeIsGood

\* fseek moves the stream only.
LEMMA SeekGood ==
    ASSUME NEW w, Good(w), NEW p
    PROVE  Good(FileSeek(w, p))
<1>1. Like(w, w) /\ DOMAIN w = WorkFields /\ DOMAIN w.fam = FamFields
  BY SelfLike DEF Good, Shaped
<1>2. Like(FileSeek(w, p), w) /\ FileSeek(w, p).fam.cur_index = w.fam.cur_index
  BY <1>1 DEF FileSeek, Like, WorkFields, FamFields
<1>3. QED
  BY <1>2, LikeIsGood

\* fwrite does not touch a directory.
LEMMA WriteGood ==
    ASSUME NEW w, Good(w), NEW units
    PROVE  Good(Write(w, units))
  BY WriteLike, LikeIsGood DEF Good

\* Neither does what the history remembers.
LEMMA HistoryGood ==
    ASSUME NEW w, Good(w), NEW f, NEW e, NEW x, NEW c
    PROVE  Good([w EXCEPT !.wrote[f][e] = x, !.clock = c])
<1> DEFINE v == [w EXCEPT !.wrote[f][e] = x, !.clock = c]
<1>1. Like(w, w) /\ DOMAIN w = WorkFields /\ DOMAIN w.fam = FamFields
  BY SelfLike DEF Good, Shaped
<1>2. Like(v, w) /\ v.fam.cur_index = w.fam.cur_index
  BY <1>1 DEF Like, WorkFields
<1> HIDE DEF v
<1>3. Good(v)
  BY <1>2, LikeIsGood
<1>4. QED
  BY <1>3 DEF v

\* A known parameter: open its file, seek, write, close it if another was open.
LEMMA RewriteGood ==
    ASSUME NEW w, Good(w), NEW n, NEW len
    PROVE  Good(Rewrite(w, n, len))
<1> DEFINE p == w.fam.names[n]
           e == w.fam.directory[p.file].entries[p.entry]
           o == FileOpen(w, p.file)
           c == o.clock + 1
           s == FileSeek(o, e.offset)
           v == Write(s, Copies(c, len))
           u == [v EXCEPT !.wrote[p.file][p.entry] = Put(@, 0, Copies(c, len)), !.clock = c]
<1>1. Good(o)
  BY FileOpenGood
<1> HIDE DEF o
<1>2. Good(s)
  BY <1>1, SeekGood
<1> HIDE DEF s
<1>3. Good(v)
  BY <1>2, WriteGood
<1> HIDE DEF v, c
<1>4. Good(u)
  <2> DEFINE x == Put(v.wrote[p.file][p.entry], 0, Copies(c, len))
             u2 == [v EXCEPT !.wrote[p.file][p.entry] = x, !.clock = c]
  <2>1. u = u2
    OBVIOUS
  <2> HIDE DEF x, p, u, u2
  <2>2. Good([v EXCEPT !.wrote[p.file][p.entry] = x, !.clock = c])
    BY <1>3, HistoryGood
  <2>3. QED
    BY <2>1, <2>2 DEF u2
<1> HIDE DEF u
<1>5. Good(SeekEnd(u)) /\ Good(FileClose(u))
  BY <1>4, SeekEndLike, LikeIsGood, FileCloseSettles DEF Good
<1>6. Rewrite(w, n, len) = IF ~CanSeek(o, e.offset) THEN o
                           ELSE IF w.fam.cur_index = p.file THEN SeekEnd(u) ELSE FileClose(u)
  BY DEF Rewrite, o, s, v, u, c
<1>7. QED
  BY <1>1, <1>5, <1>6

-----------------------------------------------------------------------------
(***************************************************************************)
(* The calls.                                                              *)
(***************************************************************************)
\* A call that ends in a good workspace ends.
LEMMA BecomesGood ==
    ASSUME NEW w, Good(w), NEW p, p # "overflow", Becomes(w, p)
    PROVE  IInv'
<1>1. /\ files' = w.files /\ fam' = w.fam /\ wrote' = w.wrote /\ clock' = w.clock
      /\ proc' = p
  BY DEF Good, Shaped, Becomes
<1> DEFINE v == [files |-> w.files, fam |-> w.fam, wrote |-> w.wrote,
                 clock |-> w.clock, ok |-> TRUE]
<1>2. Good(v)
  <2>1. Shaped(v)
    BY DEF Good, Shaped, WorkFields
  <2>2. /\ Busy(w) => Busy(v)
        /\ Settled(w) => Settled(v)
    BY DEF Busy, Settled, AtWork, Uncommitted, LastDir, file_count
  <2>3. QED
    BY <2>1, <2>2 DEF Good
<1>3. Now' = v
  BY <1>1 DEF Now
<1> HIDE DEF v
<1>4. Good(Now)' 
  BY <1>2, <1>3
<1>5. QED
  BY <1>1, <1>4 DEF IInv

\* A scalar or string, new or known, leaves the workspace good.
LEMMA WriteParamGood ==
    ASSUME IInv, NEW n, NEW len, WriteParam(n, len)
    PROVE  IInv'
<1> DEFINE w == IF Known(n) THEN Rewrite(Now, n, len) ELSE WriteNew(Now, n, len)
<1>1. Good(Now)
  BY DEF IInv
<1>2. Good(w)
  BY <1>1, RewriteGood, WriteNewGood
<1>3. Becomes(w, "open")
  BY DEF WriteParam
<1> HIDE DEF w
<1>4. QED
  BY <1>2, <1>3, BecomesGood

\* So does an array.
LEMMA WriteArrayGood ==
    ASSUME IInv, NEW n, NEW len, WriteArray(n, len)
    PROVE  IInv'
  BY WriteNewGood, BecomesGood DEF WriteArray, IInv

\* A read opens the file of its parameter, which closes the one at work.
LEMMA ReadParamGood ==
    ASSUME IInv, NEW n, ReadParam(n)
    PROVE  IInv'
<1> DEFINE e == EntryOf(n)
           o == FileOpen(Now, Place(n).file)
           w == IF CanSeek(o, e.offset) THEN FileSeek(o, e.offset + e.length) ELSE o
<1>1. Good(o)
  BY FileOpenGood DEF IInv
<1>2. Becomes(w, "open")
  BY DEF ReadParam
<1> HIDE DEF o
<1>3. Good(w)
  BY <1>1, SeekGood
<1> HIDE DEF w
<1>4. QED
  BY <1>2, <1>3, BecomesGood

\* A definition of a mesh is a new entry.
LEMMA DefMeshGood ==
    ASSUME IInv, DefMesh
    PROVE  IInv'
  BY NewEntryGood, BecomesGood DEF DefMesh, IInv

\* mc_flush and mc_close commit only what is at work.
LEMMA FlushGood ==
    ASSUME NEW w, Good(w), COMMIT_NS(w)
    PROVE  Good(FileClose(CommitNonState(w)))
<1>1. Shaped(w) /\ Busy(w)
  BY CommitMeansBusy DEF Good
<1>2. Good(CommitNonState(w))
  BY <1>1, CommitSettles DEF Good
<1>3. QED
  BY <1>2, FileCloseSettles

\* mc_flush commits and closes.
LEMMA FlushCallGood ==
    ASSUME IInv, Flush
    PROVE  IInv'
  BY FlushGood, BecomesGood DEF Flush, IInv

\* mc_close does so too, or has nothing to close.
LEMMA CloseGood ==
    ASSUME IInv, Close
    PROVE  IInv'
<1> DEFINE v == IF COMMIT_NS(Now) THEN FileClose(CommitNonState(Now)) ELSE Now
           w == IF fam.cur_index = NoFile THEN Now ELSE FileClose(v)
<1>1. Good(Now)
  BY DEF IInv
<1>2. Good(v)
  BY <1>1, FlushGood
<1> HIDE DEF v
<1>3. Good(w)
  BY <1>1, <1>2, FileCloseSettles
<1>4. Becomes(w, "closed")
  BY DEF Close, v
<1> HIDE DEF w
<1>5. QED
  BY <1>3, <1>4, BecomesGood

\* The character header is data: writing it leaves the directories alone.
LEMMA SuffixWidthGood ==
    ASSUME IInv, SuffixWidth
    PROVE  IInv'
<1> DEFINE o == FileOpen(Now, 1)
           c == o.clock + 1
           v == Write(o, <<c>>)
           u == [v EXCEPT !.fam.char_header = c, !.clock = c]
<1>1. Good(o)
  BY FileOpenGood DEF IInv
<1>2. Becomes(FileClose(u), "open")
  BY DEF SuffixWidth
<1> HIDE DEF o
<1>3. Good(v)
  BY <1>1, WriteGood
<1> HIDE DEF v, c
<1>4. Like(v, v) /\ DOMAIN v = WorkFields /\ DOMAIN v.fam = FamFields
  BY <1>3, SelfLike DEF Good, Shaped
<1>5. Like(u, v) /\ u.fam.cur_index = v.fam.cur_index
  BY <1>4 DEF Like, WorkFields, FamFields
<1> HIDE DEF u
<1>6. Good(FileClose(u))
  BY <1>3, <1>5, LikeIsGood, FileCloseSettles
<1>7. QED
  BY <1>2, <1>6, BecomesGood

\* A call that changes only the formats and flags in memory.
LEMMA FlagsGood ==
    ASSUME IInv, UNCHANGED files, proc' # "overflow", DOMAIN fam' = FamFields,
           fam'.directory = fam.directory, fam'.cur_index = fam.cur_index,
           fam'.commit_count = fam.commit_count, fam'.commit_max = fam.commit_max,
           IsSeq(fam'.srecs),
           \/ AtWork(Now)
           \/ /\ fam'.non_state_ready = fam.non_state_ready
              /\ fam'.svars_fresh = fam.svars_fresh
    PROVE  IInv'
<1> DEFINE w == Now
           v == [files |-> files, fam |-> fam', wrote |-> wrote', clock |-> clock', ok |-> TRUE]
<1>1. Good(w)
  BY DEF IInv
<1>2. v.files = w.files /\ v.fam = fam' /\ w.fam = fam /\ DOMAIN v = WorkFields /\ v.ok = TRUE
  BY DEF Now, WorkFields
<1>3. Now' = v
  BY DEF Now
<1>4. AtWork(w) \/ /\ v.fam.non_state_ready = w.fam.non_state_ready
                   /\ v.fam.svars_fresh = w.fam.svars_fresh
  BY <1>2
<1> HIDE DEF v, w
<1>5. Shaped(v)
  BY <1>1, <1>2 DEF Good, Shaped
<1>6. Busy(w) => Busy(v)
  BY <1>2 DEF Busy, AtWork, Uncommitted, LastDir, file_count
<1>7. AtWork(w) => Busy(w)
  BY <1>1 DEF Good, Settled, AtWork
<1>8. Settled(w) /\ ~AtWork(w) => Settled(v)
  BY <1>2, <1>4 DEF Settled, Uncommitted, LastDir, file_count
<1>9. Good(v)
  BY <1>1, <1>5, <1>6, <1>7, <1>8 DEF Good
<1>10. QED
  BY <1>3, <1>9 DEF IInv

\* Variables are defined while a file is at work, which will take them.
LEMMA DefSvarsGood ==
    ASSUME IInv, "late_format" \notin App, DefSvars
    PROVE  IInv'
<1>1. DOMAIN fam = FamFields /\ IsSeq(fam.srecs)
  BY DEF IInv, Good, Shaped, Now
<1>2. /\ DOMAIN fam' = FamFields /\ fam'.directory = fam.directory
      /\ fam'.cur_index = fam.cur_index /\ fam'.commit_count = fam.commit_count
      /\ fam'.commit_max = fam.commit_max /\ fam'.srecs = fam.srecs
  BY <1>1 DEF DefSvars, FamFields
<1>3. AtWork(Now) /\ UNCHANGED <<files, proc>>
  BY DEF DefSvars, Timely
<1>4. QED
  BY <1>1, <1>2, <1>3, FlagsGood DEF IInv

\* A format that is opened is not ready to be written.
LEMMA OpenSrecGood ==
    ASSUME IInv, OpenSrec
    PROVE  IInv'
<1>1. DOMAIN fam = FamFields /\ IsSeq(fam.srecs)
  BY DEF IInv, Good, Shaped, Now
<1>2. /\ DOMAIN fam' = FamFields /\ fam'.directory = fam.directory
      /\ fam'.cur_index = fam.cur_index /\ fam'.commit_count = fam.commit_count
      /\ fam'.commit_max = fam.commit_max /\ fam'.srecs = Append(fam.srecs, "open")
      /\ fam'.non_state_ready = fam.non_state_ready /\ fam'.svars_fresh = fam.svars_fresh
  BY <1>1 DEF OpenSrec, FamFields
<1>3. IsSeq(fam'.srecs)
  BY <1>1, <1>2, AppendSeq
<1>4. UNCHANGED <<files, proc>>
  BY DEF OpenSrec
<1>5. QED
  BY <1>2, <1>3, <1>4, FlagsGood DEF IInv

\* A format's status is one element of the formats.
LEMMA StatusSeq ==
    ASSUME NEW s, IsSeq(s), NEW i, NEW e
    PROVE  IsSeq([s EXCEPT ![i] = e])
<1> DEFINE t == [s EXCEPT ![i] = e]
<1>1. DOMAIN s = 1..Len(s)
  BY DEF IsSeq
<1>2. DOMAIN t = 1..Len(s) /\ t = [k \in DOMAIN t |-> t[k]]
  BY <1>1
<1> HIDE DEF t
<1>3. IsSeq(t)
  BY <1>2, ReplaceInSeq
<1>4. QED
  BY <1>3 DEF t

\* Filling a format does not make it ready either.
LEMMA DefSubrecGood ==
    ASSUME IInv, NEW i, DefSubrec(i)
    PROVE  IInv'
<1>1. DOMAIN fam = FamFields /\ IsSeq(fam.srecs)
  BY DEF IInv, Good, Shaped, Now
<1> DEFINE s == [fam.srecs EXCEPT ![i] = "filled"]
<1>2. fam' = [fam EXCEPT !.srecs = s]
  BY DEF DefSubrec
<1>3. IsSeq(s)
  BY <1>1, StatusSeq
<1> HIDE DEF s
<1>4. /\ DOMAIN fam' = FamFields /\ fam'.directory = fam.directory
      /\ fam'.cur_index = fam.cur_index /\ fam'.commit_count = fam.commit_count
      /\ fam'.commit_max = fam.commit_max /\ fam'.srecs = s
      /\ fam'.non_state_ready = fam.non_state_ready /\ fam'.svars_fresh = fam.svars_fresh
  BY <1>1, <1>2 DEF FamFields
<1>5. UNCHANGED <<files, proc>>
  BY DEF DefSubrec
<1>6. QED
  BY <1>3, <1>4, <1>5, FlagsGood DEF IInv

\* A format is closed while a file is at work, which will take it.
LEMMA CloseSrecGood ==
    ASSUME IInv, "late_format" \notin App, NEW i, CloseSrec(i)
    PROVE  IInv'
<1>1. DOMAIN fam = FamFields /\ IsSeq(fam.srecs)
  BY DEF IInv, Good, Shaped, Now
<1>2. AtWork(Now) /\ UNCHANGED <<files, proc>>
  BY DEF CloseSrec, Timely
<1>3. /\ DOMAIN fam' = FamFields /\ fam'.directory = fam.directory
      /\ fam'.cur_index = fam.cur_index /\ fam'.commit_count = fam.commit_count
      /\ fam'.commit_max = fam.commit_max
      /\ IsSeq(fam'.srecs)
  <2>1. CASE fam.srecs[i] \in {"open", "empty"}
    <3> DEFINE s == [fam.srecs EXCEPT ![i] = "empty"]
    <3>1. fam' = [fam EXCEPT !.srecs = s]
      BY <2>1 DEF CloseSrec
    <3>2. IsSeq(s)
      BY <1>1, StatusSeq
    <3> HIDE DEF s
    <3>3. QED
      BY <1>1, <3>1, <3>2 DEF FamFields
  <2>2. CASE ~(fam.srecs[i] \in {"open", "empty"})
    <3> DEFINE s == [fam.srecs EXCEPT ![i] = "closed"]
               f == [fam EXCEPT !.srecs = s]
    <3>1. fam' = [f EXCEPT !.non_state_ready = TRUE]
      BY <2>2 DEF CloseSrec
    <3>2. IsSeq(s)
      BY <1>1, StatusSeq
    <3> HIDE DEF s
    <3>3. /\ DOMAIN f = FamFields /\ f.directory = fam.directory
          /\ f.cur_index = fam.cur_index /\ f.commit_count = fam.commit_count
          /\ f.commit_max = fam.commit_max /\ f.srecs = s
      BY <1>1 DEF FamFields
    <3> HIDE DEF f
    <3>4. QED
      BY <3>1, <3>2, <3>3 DEF FamFields
  <2>3. QED
    BY <2>1, <2>2
<1>4. QED
  BY <1>2, <1>3, FlagsGood DEF IInv

\* A crash leaves memory and disk; memory is rebuilt when the family is opened.
LEMMA CrashGood ==
    ASSUME IInv, Crash
    PROVE  IInv'
  BY DEF Crash, IInv, Now

-----------------------------------------------------------------------------
(***************************************************************************)
(* Opening a family again.                                                 *)
(***************************************************************************)
\* The formats in the files can be counted.
LEMMA FormatsFinite ==
    ASSUME NEW fs, IsSeq(fs), \A i \in 1..Len(fs) : IsSeq(fs[i].dir)
    PROVE  Cardinality(FormatPlaces(fs)) \in Nat
<1> DEFINE P(i) == {<<i, j>> : j \in {k \in DOMAIN fs[i].dir : fs[i].dir[k].kind = "srec"}}
           T == {P(i) : i \in DOMAIN fs}
<1>1. DOMAIN fs = 1..Len(fs) /\ Len(fs) \in Nat
  BY DEF IsSeq
<1>2. ASSUME NEW i \in DOMAIN fs
      PROVE  IsFiniteSet(P(i))
  <2> DEFINE K == {k \in DOMAIN fs[i].dir : fs[i].dir[k].kind = "srec"}
             g == [j \in K |-> <<i, j>>]
  <2>1. DOMAIN fs[i].dir = 1..Len(fs[i].dir) /\ Len(fs[i].dir) \in Nat
    BY <1>1 DEF IsSeq
  <2>2. IsFiniteSet(1..Len(fs[i].dir))
    <3> DEFINE m == Len(fs[i].dir)
    <3>1. m \in Int /\ 1 \in Int
      BY <2>1
    <3> HIDE DEF m
    <3>2. IsFiniteSet(1..m)
      BY <3>1, FS_Interval
    <3>3. QED
      BY <3>2 DEF m
  <2>3. IsFiniteSet(K)
    BY <2>1, <2>2, FS_Subset
  <2>4. g \in Surjection(K, P(i))
    BY DEF Surjection
  <2> HIDE DEF K, g, P
  <2>5. QED
    BY <2>3, <2>4, FS_Surjection
<1>3. IsFiniteSet(T)
  <2> DEFINE h == [i \in 1..Len(fs) |-> P(i)]
  <2> HIDE DEF P
  <2>1. h \in Surjection(1..Len(fs), T)
    BY <1>1 DEF Surjection
  <2>2. IsFiniteSet(1..Len(fs))
    BY <1>1, FS_Interval
  <2> HIDE DEF h, T
  <2>3. QED
    BY <2>1, <2>2, FS_Surjection
<1>4. IsFiniteSet(UNION T)
  <2>1. \A S \in T : IsFiniteSet(S)
    BY <1>2
  <2> HIDE DEF T
  <2>2. QED
    BY <1>3, <2>1, FS_UNION
<1>5. FormatPlaces(fs) = UNION T
  BY DEF FormatPlaces
<1>6. QED
  BY <1>4, <1>5, FS_CardinalityType

\* load_directories and load_srec_formats rebuild memory from committed files.
LEMMA ReopenGood ==
    ASSUME IInv, Reopen
    PROVE  IInv'
<1> DEFINE D == fam.directory
           E == [i \in DOMAIN files |->
                    [entries |-> files[i].dir, commit_count |-> files[i].commit_count]]
           n == Len(D)
           S == {files[i].commit_count : i \in DOMAIN files}
           now == Max(S)
           qty == Cardinality(FormatPlaces(files))
           saved == [i \in 1..qty |-> "saved"]
<1>1. /\ DirsShaped(D) /\ FilesMatch(files, D) /\ InOrder(D, fam.commit_count)
      /\ \A i \in DOMAIN files : files[i].commit_count > 0
  BY DEF IInv, Good, Shaped, Now, Reopen, Loadable
<1>2. /\ fam'.directory = E /\ fam'.commit_count = now
      /\ fam'.srecs = saved /\ fam'.commit_max = qty
      /\ fam'.svars_fresh = FALSE /\ fam'.non_state_ready = FALSE
      /\ DOMAIN fam' = FamFields
      /\ proc' = "open" /\ files' = files
  BY DEF Reopen, FamFields
<1> HIDE DEF D, S
<1>3. n \in Nat /\ n >= 1 /\ Len(files) = n /\ DOMAIN files = 1..n /\ IsSeq(files)
  BY <1>1 DEF DirsShaped, FilesMatch, IsSeq
<1>4. /\ \A i \in 1..n : /\ D[i].commit_count \in Nat /\ D[i].commit_count > 0
                         /\ D[i].commit_count <= D[n].commit_count
                         /\ DOMAIN files[i] = FileFields
                         /\ files[i].commit_count = D[i].commit_count
                         /\ files[i].dir = D[i].entries
                         /\ IsSeq(files[i].dir)
  BY <1>1, <1>3 DEF DirsShaped, FilesMatch, InOrder
<1>5. qty \in Nat
  BY <1>3, <1>4, FormatsFinite
<1>6. IsSeq(saved)
  <2> HIDE DEF qty
  <2>1. saved = [k \in 1..qty |-> saved[k]]
    OBVIOUS
  <2> HIDE DEF saved
  <2>2. QED
    BY <1>5, <2>1, FunctionSeq
<1> HIDE DEF qty, saved
<1>7. now \in Nat /\ \A i \in 1..n : D[i].commit_count <= now
  <2>1. D[n].commit_count \in S /\ \A y \in S : D[n].commit_count >= y
    BY <1>3, <1>4 DEF S
  <2>2. now \in S /\ \A y \in S : now >= y
    BY <2>1 DEF Max
  <2> HIDE DEF now
  <2>3. \A i \in 1..n : D[i].commit_count \in S
    BY <1>3, <1>4 DEF S
  <2>4. now \in Nat
    BY <1>3, <1>4, <2>2 DEF S
  <2>5. QED
    BY <1>4, <2>2, <2>3, <2>4
<1> HIDE DEF now
<1>8. /\ IsSeq(E) /\ Len(E) = n
      /\ \A i \in 1..n : /\ DOMAIN E[i] = DirFields
                         /\ E[i].entries = files[i].dir
                         /\ E[i].commit_count = D[i].commit_count
  <2>1. DOMAIN E = 1..n /\ E = [k \in 1..n |-> E[k]]
    BY <1>3
  <2>2. \A i \in 1..n : /\ DOMAIN E[i] = DirFields
                        /\ E[i].entries = files[i].dir
                        /\ E[i].commit_count = D[i].commit_count
    BY <1>3, <1>4 DEF DirFields
  <2> HIDE DEF E, n
  <2>3. IsSeq(E) /\ Len(E) = n
    BY <1>3, <2>1, FunctionSeq
  <2>4. QED
    BY <2>2, <2>3
<1> HIDE DEF E, n
<1>9. DirsShaped(E)
  BY <1>3, <1>4, <1>8 DEF DirsShaped
<1>10. FilesMatch(files, E)
  BY <1>3, <1>4, <1>8 DEF FilesMatch
<1>11. InOrder(E, now)
  BY <1>3, <1>4, <1>7, <1>8 DEF InOrder
<1>12. Shaped(Now')
  BY <1>2, <1>5, <1>6, <1>9, <1>10, <1>11 DEF Shaped, Now, WorkFields
<1>13. Settled(Now')
  <2>1. E[Len(E)].commit_count # 0
    BY <1>3, <1>4, <1>8
  <2>2. Now'.fam = fam'
    BY DEF Now
  <2>3. QED
    BY <1>2, <2>1, <2>2 DEF Settled, Uncommitted, LastDir, file_count
<1>14. QED
  BY <1>2, <1>12, <1>13 DEF IInv, Good

-----------------------------------------------------------------------------
(***************************************************************************)
(* The invariant.                                                          *)
(***************************************************************************)
\* create_family leaves the A-file at work, with its first parameter.
LEMMA InitGood ==
    ASSUME Init
    PROVE  IInv
<1> DEFINE e == [kind |-> "param", name |-> FirstParam, id |-> 0, offset |-> 1, length |-> 1]
           t == <<e>>
           d == [FileDir EXCEPT !.entries = t]
           f == File(<<1, 2>>)
<1>1. fam.directory = <<d>> /\ files = <<f>>
  BY DEF Init
<1>2. /\ fam.srecs = Empty /\ fam.commit_max = 0 /\ fam.commit_count = 0
      /\ fam.cur_index = 1 /\ DOMAIN fam = FamFields /\ proc = "open"
  BY DEF Init, FamFields
<1>3. IsSeq(t) /\ t # Empty
  BY DEF IsSeq, Empty
<1> HIDE DEF e, t
<1>4. DOMAIN d = DirFields /\ d.commit_count = 0 /\ d.entries = t
  BY DEF FileDir, DirFields
<1>5. DOMAIN f = FileFields /\ f.commit_count = 0
  BY DEF File, FileFields
<1> HIDE DEF d, f
<1>6. IsSeq(<<d>>) /\ IsSeq(<<f>>) /\ IsSeq(Empty) /\ Len(<<d>>) = 1 /\ Len(<<f>>) = 1
  BY DEF IsSeq, Empty
<1>7. DirsShaped(<<d>>)
  BY <1>3, <1>4, <1>6 DEF DirsShaped
<1>8. FilesMatch(<<f>>, <<d>>)
  BY <1>4, <1>5, <1>6 DEF FilesMatch
<1>9. InOrder(<<d>>, 0)
  BY <1>4, <1>6 DEF InOrder
<1>10. Shaped(Now)
  BY <1>1, <1>2, <1>6, <1>7, <1>8, <1>9 DEF Shaped, Now, WorkFields
<1>11. Busy(Now)
  <2>1. Now.fam.directory = <<d>> /\ Now.fam.cur_index = 1
    BY <1>1, <1>2 DEF Now
  <2>2. QED
    BY <2>1, <1>3, <1>4, <1>6 DEF Busy, AtWork, Uncommitted, LastDir, file_count
<1>12. QED
  BY <1>2, <1>10, <1>11 DEF IInv, Good

\* Each call that is made in a good workspace ends in one.
LEMMA NextGood ==
    ASSUME IInv, "late_format" \notin App, [Next]_vars
    PROVE  IInv'
<1>1. CASE \E n \in Scalars \cup Strings, len \in Sizes : WriteParam(n, len)
  BY <1>1, WriteParamGood
<1>2. CASE \E n \in Arrays, len \in Sizes : WriteArray(n, len)
  BY <1>2, WriteArrayGood
<1>3. CASE \E n \in Names : ReadParam(n)
  BY <1>3, ReadParamGood
<1>4. CASE DefMesh
  BY <1>4, DefMeshGood
<1>5. CASE DefSvars
  BY <1>5, DefSvarsGood
<1>6. CASE OpenSrec
  BY <1>6, OpenSrecGood
<1>7. CASE \E i \in DOMAIN fam.srecs : DefSubrec(i) \/ CloseSrec(i)
  BY <1>7, DefSubrecGood, CloseSrecGood
<1>8. CASE Flush
  BY <1>8, FlushCallGood
<1>9. CASE SuffixWidth
  BY <1>9, SuffixWidthGood
<1>10. CASE Close
  BY <1>10, CloseGood
<1>11. CASE Crash
  BY <1>11, CrashGood
<1>12. CASE Reopen
  BY <1>12, ReopenGood
<1>13. CASE UNCHANGED vars
  BY <1>13 DEF vars, IInv, Now
<1>14. QED
  BY <1>1, <1>2, <1>3, <1>4, <1>5, <1>6, <1>7, <1>8, <1>9, <1>10, <1>11, <1>12, <1>13
     DEF Next

(***************************************************************************)
(* Committing and closing end.  commit_non_state calls                     *)
(* non_state_file_close to finish a file that it had to start for what was *)
(* still in memory, and that calls commit_non_state for a directory that   *)
(* is not committed: each time one of the two conditions must have gone.   *)
(* They have, for an application that closes its formats and defines its   *)
(* variables while a file is being written.                                *)
(***************************************************************************)
THEOREM CommitsReturn == "late_format" \notin App => (Spec => []CommitReturns)
<1> SUFFICES ASSUME "late_format" \notin App
             PROVE  Spec => []CommitReturns
  OBVIOUS
<1>1. Init => IInv
  BY InitGood
<1>2. IInv /\ [Next]_vars => IInv'
  BY NextGood
<1>3. IInv => CommitReturns
  BY DEF IInv, CommitReturns
<1>4. QED
  BY <1>1, <1>2, <1>3, PTL DEF Spec

-----------------------------------------------------------------------------
(***************************************************************************)
(* A family that was closed.                                               *)
(***************************************************************************)
ClosedInv == IInv /\ (proc = "closed" => Settled(Now))

\* mc_close commits what there is to commit.
LEMMA CloseSettles ==
    ASSUME IInv, Close
    PROVE  Settled(Now)'
<1> DEFINE v == IF COMMIT_NS(Now) THEN FileClose(CommitNonState(Now)) ELSE Now
           w == IF fam.cur_index = NoFile THEN Now ELSE FileClose(v)
<1>1. Good(Now)
  BY DEF IInv
<1>2. Good(v)
  BY <1>1, FlushGood
<1> HIDE DEF v
<1>3. Good(w) /\ Settled(w)
  <2>1. CASE fam.cur_index = NoFile
    <3>1. Now.fam.cur_index = 0 /\ Len(Now.fam.directory) >= 1
      BY <1>1, <2>1 DEF Good, Shaped, DirsShaped, Now, NoFile
    <3>2. ~Busy(Now)
      BY <1>1, <3>1 DEF Busy, AtWork, file_count, Good, Shaped, DirsShaped
    <3>3. QED
      BY <1>1, <2>1, <3>2 DEF Good
  <2>2. CASE fam.cur_index # NoFile
    BY <1>2, <2>2, FileCloseSettles
  <2>3. QED
    BY <2>1, <2>2
<1>4. Becomes(w, "closed")
  BY DEF Close, v
<1> HIDE DEF w
<1>5. files' = w.files /\ fam' = w.fam
  BY <1>3, <1>4 DEF Good, Shaped, Becomes
<1>6. Now'.files = w.files /\ Now'.fam = w.fam
  BY <1>5 DEF Now
<1>7. QED
  BY <1>3, <1>6 DEF Settled, Uncommitted, LastDir, file_count

\* No other call closes the family.
LEMMA OnlyCloseCloses ==
    ASSUME Next, ~Close
    PROVE  proc' # "closed"
<1>1. ASSUME NEW w, Becomes(w, "open")
      PROVE  proc' # "closed"
  BY <1>1 DEF Becomes
<1>2. CASE \E n \in Scalars \cup Strings, len \in Sizes : WriteParam(n, len)
  BY <1>1, <1>2 DEF WriteParam
<1>3. CASE \E n \in Arrays, len \in Sizes : WriteArray(n, len)
  BY <1>1, <1>3 DEF WriteArray
<1>4. CASE \E n \in Names : ReadParam(n)
  BY <1>1, <1>4 DEF ReadParam
<1>5. CASE DefMesh
  BY <1>1, <1>5 DEF DefMesh
<1>6. CASE DefSvars \/ OpenSrec
  BY <1>6 DEF DefSvars, OpenSrec, Running
<1>7. CASE \E i \in DOMAIN fam.srecs : DefSubrec(i) \/ CloseSrec(i)
  BY <1>7 DEF DefSubrec, CloseSrec
<1>8. CASE Flush
  BY <1>1, <1>8 DEF Flush
<1>9. CASE SuffixWidth
  BY <1>1, <1>9 DEF SuffixWidth
<1>10. CASE Crash
  BY <1>10 DEF Crash
<1>11. CASE Reopen
  BY <1>11 DEF Reopen
<1>12. QED
  BY <1>2, <1>3, <1>4, <1>5, <1>6, <1>7, <1>8, <1>9, <1>10, <1>11 DEF Next

\* Each call keeps that.
LEMMA NextClosed ==
    ASSUME ClosedInv, "late_format" \notin App, [Next]_vars
    PROVE  ClosedInv'
<1>1. IInv'
  BY NextGood DEF ClosedInv
<1>2. CASE Close
  BY <1>1, <1>2, CloseSettles DEF ClosedInv
<1>3. CASE Next /\ ~Close
  BY <1>1, <1>3, OnlyCloseCloses DEF ClosedInv
<1>4. CASE UNCHANGED vars
  BY <1>1, <1>4 DEF ClosedInv, vars, Now, Settled, Uncommitted, LastDir, file_count
<1>5. QED
  BY <1>2, <1>3, <1>4

\* And so it begins.
LEMMA InitClosed ==
    ASSUME Init
    PROVE  ClosedInv
<1>1. proc = "open"
  BY DEF Init
<1>2. QED
  BY <1>1, InitGood DEF ClosedInv

(***************************************************************************)
(* What mc_close leaves: each file was committed and holds the directory   *)
(* that memory has for it, and no variable is in memory only.  (That the   *)
(* directory is what the file's bytes end with, the rest of                *)
(* ClosedIsLoadable, depends on the data: NonStateDataProofs.)             *)
(***************************************************************************)
ClosedIsCommitted ==
    proc = "closed" =>
        /\ ~fam.svars_fresh
        /\ \A i \in DOMAIN files :
               files[i].commit_count > 0 /\ files[i].dir = fam.directory[i].entries

\* A closed family is committed.
LEMMA CommittedWhenClosed ==
    ASSUME ClosedInv
    PROVE  ClosedIsCommitted
<1> SUFFICES ASSUME IInv, Settled(Now), proc = "closed"
             PROVE  ClosedIsCommitted
  BY DEF ClosedInv, ClosedIsCommitted
<1> DEFINE D == fam.directory
<1>1. /\ DirsShaped(D) /\ FilesMatch(files, D) /\ InOrder(D, fam.commit_count)
      /\ D[Len(D)].commit_count # 0 /\ ~fam.svars_fresh
  BY DEF IInv, Good, Shaped, Now, Settled, Uncommitted, LastDir, file_count
<1> HIDE DEF D
<1>2. \A i \in 1..Len(D) : D[i].commit_count > 0
  BY <1>1 DEF DirsShaped, InOrder
<1>3. DOMAIN files = 1..Len(D)
  BY <1>1 DEF FilesMatch, IsSeq
<1>4. \A i \in DOMAIN files : files[i].commit_count > 0 /\ files[i].dir = D[i].entries
  BY <1>1, <1>2, <1>3 DEF FilesMatch
<1>5. QED
  BY <1>1, <1>4 DEF ClosedIsCommitted, D

\* After mc_close every directory is in its file, for an application that
\* closes its formats and defines its variables while a file is being written.
THEOREM ClosedCommits == "late_format" \notin App => (Spec => []ClosedIsCommitted)
<1> SUFFICES ASSUME "late_format" \notin App
             PROVE  Spec => []ClosedIsCommitted
  OBVIOUS
<1>1. Init => ClosedInv
  BY InitClosed
<1>2. ClosedInv /\ [Next]_vars => ClosedInv'
  BY NextClosed
<1>3. ClosedInv => ClosedIsCommitted
  BY CommittedWhenClosed
<1>4. QED
  BY <1>1, <1>2, <1>3, PTL DEF Spec

-----------------------------------------------------------------------------
(***************************************************************************)
(* Record formats: what waits in memory, and what is in the files, is      *)
(* numbered as the files will be loaded.  No more than one format is at    *)
(* stake in any step but a commit, which writes what was closed since the  *)
(* one before; so the numbers in the files are 1..commit_max throughout.   *)
(***************************************************************************)
\* The formats of a directory.
Srecs(dir) == {j \in DOMAIN dir : dir[j].kind = "srec"}

\* The formats in files fs are 1..m, each once, in the order of their entries.
FormatsNumbered(fs, m) ==
    /\ \A i \in DOMAIN fs : \A j \in Srecs(fs[i].dir) : fs[i].dir[j].id \in 1..m
    /\ \A k \in 1..m : \E i \in DOMAIN fs : \E j \in Srecs(fs[i].dir) : fs[i].dir[j].id = k
    /\ \A i, h \in DOMAIN fs : \A j \in Srecs(fs[i].dir), l \in Srecs(fs[h].dir) :
           i < h \/ (i = h /\ j < l) => fs[i].dir[j].id < fs[h].dir[l].id

\* Formats up to m are in the files; one behind them that is closed will be written.
FormatStatuses(s, m, ready) ==
    /\ m \in 0..Len(s)
    /\ \A i \in 1..Len(s) :
           IF i <= m THEN s[i] \in {"saved", "closed"}
                     ELSE s[i] \in {"open", "filled", "closed"} /\ (s[i] = "closed" => ready)

\* A file at work has no format yet: formats come with its directory.
NoneYet(w) == Uncommitted(w) => /\ w.files[file_count(w)].dir = Empty
                                /\ Srecs(LastDir(w).entries) = {}

Formatted(w) == /\ FormatsNumbered(w.files, w.fam.commit_max)
                /\ FormatStatuses(w.fam.srecs, w.fam.commit_max, w.fam.non_state_ready)
                /\ NoneYet(w)

\* No format is open, as between the calls of an application that may write.
NoneOpen(w) == \A i \in 1..Len(w.fam.srecs) : w.fam.srecs[i] \notin {"open", "filled"}

\* Formats of files with the same directories have the same numbers.
LEMMA SameNumbered ==
    ASSUME NEW fs, NEW gs, IsSeq(gs), SameDirs(fs, gs), NEW m, FormatsNumbered(gs, m)
    PROVE  FormatsNumbered(fs, m)
<1>1. DOMAIN fs = DOMAIN gs
  BY DEF SameDirs, IsSeq
<1>2. \A i \in DOMAIN gs : fs[i].dir = gs[i].dir
  BY DEF SameDirs, IsSeq
<1>3. QED
  BY <1>1, <1>2 DEF FormatsNumbered

\* What does not see a directory does not see a format.
LEMMA LikeFormatted ==
    ASSUME NEW w, Shaped(w), Formatted(w), NEW v, Like(v, w)
    PROVE  Formatted(v) /\ (NoneOpen(w) => NoneOpen(v))
<1>1. IsSeq(w.files) /\ Len(w.files) = Len(w.fam.directory) /\ Len(w.fam.directory) \in Nat
      /\ Len(w.fam.directory) >= 1
  BY DEF Shaped, FilesMatch, DirsShaped
<1>2. FormatsNumbered(v.files, w.fam.commit_max)
  BY <1>1, SameNumbered DEF Like, Formatted
<1>3. v.files[Len(w.fam.directory)].dir = w.files[Len(w.fam.directory)].dir
  BY <1>1 DEF Like, SameDirs
<1>4. NoneYet(v)
  BY <1>3 DEF Like, Formatted, NoneYet, Uncommitted, LastDir, file_count
<1>5. QED
  BY <1>2, <1>4 DEF Like, Formatted, NoneOpen

\* A directory without entries has no formats.
LEMMA NoSrecs == Srecs(Empty) = {}
  BY DEF Srecs, Empty

\* A new file has no formats, and waits for none.
LEMMA NewFileFormatted ==
    ASSUME NEW w, Shaped(w), Settled(w), Formatted(w)
    PROVE  Formatted(NewFile(w)) /\ (NoneOpen(w) => NoneOpen(NewFile(w)))
<1> DEFINE v == NewFile(w)
           gs == w.files
           fs == v.files
           E == v.fam.directory
           n == Len(w.fam.directory)
           m == w.fam.commit_max
<1>1. /\ fs = Append(gs, File(Empty)) /\ E = Append(w.fam.directory, FileDir)
      /\ SameFormats(v, w)
  BY NewFileAtWork
<1>2. IsSeq(gs) /\ IsSeq(w.fam.directory) /\ Len(gs) = n /\ n \in Nat
  BY DEF Shaped, FilesMatch, DirsShaped
<1>3. FormatsNumbered(gs, m)
  BY DEF Formatted
<1> HIDE DEF v, fs, gs, E, n, m
<1>4. /\ IsSeq(fs) /\ Len(fs) = n + 1
      /\ \A k \in 1..n : fs[k] = gs[k]
      /\ fs[n + 1] = File(Empty)
  BY <1>1, <1>2, AppendSeq
<1>5. Len(E) = n + 1 /\ E[n + 1] = FileDir
  BY <1>1, <1>2, AppendSeq DEF n
<1>6. File(Empty).dir = Empty /\ FileDir.entries = Empty
  BY DEF File, FileDir
<1>7. DOMAIN fs = 1..(n + 1) /\ DOMAIN gs = 1..n /\ Srecs(fs[n + 1].dir) = {}
  BY <1>2, <1>4, <1>6, NoSrecs DEF IsSeq
<1>8. \A i \in 1..(n + 1) : \A j \in Srecs(fs[i].dir) : i \in 1..n
  BY <1>2, <1>7
<1>9. FormatsNumbered(fs, m)
  <2>1. \A i \in DOMAIN fs : \A j \in Srecs(fs[i].dir) : i \in DOMAIN gs /\ fs[i] = gs[i]
    BY <1>4, <1>7, <1>8
  <2>2. \A i \in DOMAIN gs : i \in DOMAIN fs /\ fs[i] = gs[i]
    BY <1>2, <1>4, <1>7
  <2>3. \A i \in DOMAIN fs : \A j \in Srecs(fs[i].dir) : fs[i].dir[j].id \in 1..m
    BY <1>3, <2>1 DEF FormatsNumbered
  <2>4. \A k \in 1..m : \E i \in DOMAIN fs : \E j \in Srecs(fs[i].dir) : fs[i].dir[j].id = k
    BY <1>3, <2>2 DEF FormatsNumbered
  <2>5. \A i, h \in DOMAIN fs : \A j \in Srecs(fs[i].dir), l \in Srecs(fs[h].dir) :
            i < h \/ (i = h /\ j < l) => fs[i].dir[j].id < fs[h].dir[l].id
    BY <1>3, <2>1 DEF FormatsNumbered
  <2>6. QED
    BY <2>3, <2>4, <2>5 DEF FormatsNumbered
<1>10. NoneYet(v)
  BY <1>4, <1>5, <1>6, NoSrecs DEF NoneYet, LastDir, file_count, E, fs
<1>11. QED
  BY <1>1, <1>9, <1>10 DEF SameFormats, Formatted, NoneOpen, v, fs, m

\* Directories with other entries in the last one: no format there, none added.
LEMMA EnteredNoneYet ==
    ASSUME NEW w, Shaped(w), Formatted(w), AtWork(w),
           NEW s, IsSeq(s), Srecs(s) = {},
           NEW v, SameDirs(v.files, w.files), WithEntries(v.fam.directory, w.fam.directory, s),
           SameFormats(v, w)
    PROVE  Formatted(v) /\ (NoneOpen(w) => NoneOpen(v))
<1> DEFINE n == Len(w.fam.directory)
<1>1. IsSeq(w.files) /\ Len(w.files) = n /\ n \in Nat /\ n >= 1
  BY DEF Shaped, FilesMatch, DirsShaped
<1>2. FormatsNumbered(v.files, w.fam.commit_max)
  BY <1>1, SameNumbered DEF Formatted
<1>3. v.files[n].dir = Empty
  <2>1. w.files[n].dir = Empty
    BY DEF Formatted, NoneYet, AtWork, file_count
  <2>2. QED
    BY <1>1, <2>1 DEF SameDirs
<1>4. file_count(v) = n /\ LastDir(v).entries = s
  BY DEF WithEntries, LastDir, file_count
<1>5. NoneYet(v)
  BY <1>3, <1>4 DEF NoneYet
<1>6. QED
  BY <1>2, <1>5 DEF Formatted, SameFormats, NoneOpen

\* An entry that is not a format.
LEMMA AddEntryFormatted ==
    ASSUME NEW w, Shaped(w), AtWork(w), Formatted(w),
           NEW kind, kind # "srec", NEW name, NEW len
    PROVE  LET v == AddEntry(w, kind, name, len)
           IN  Formatted(v) /\ (NoneOpen(w) => NoneOpen(v))
<1> DEFINE v == AddEntry(w, kind, name, len)
           old == LastDir(w).entries
<1>1. SameDirs(v.files, w.files) /\ SameFormats(v, w)
  BY AddEntryBusy
<1>2. PICK e : e.kind = kind /\ WithEntries(v.fam.directory, w.fam.directory, Append(old, e))
  BY AddEntryBusy
<1>3. IsSeq(old) /\ Srecs(old) = {}
  BY DEF Shaped, DirsShaped, LastDir, file_count, Formatted, NoneYet, AtWork
<1> HIDE DEF v, old
<1> DEFINE s == Append(old, e)
<1>4. /\ IsSeq(s) /\ Len(s) = Len(old) + 1 /\ Len(old) \in Nat
      /\ \A k \in 1..Len(old) : s[k] = old[k]
      /\ s[Len(old) + 1] = e
  BY <1>3, AppendSeq DEF IsSeq
<1> HIDE DEF s
<1>5. Srecs(s) = {}
  <2>1. DOMAIN s = 1..(Len(old) + 1) /\ DOMAIN old = 1..Len(old)
    BY <1>3, <1>4 DEF IsSeq
  <2>2. \A j \in DOMAIN s : s[j].kind # "srec"
    <3>1. TAKE j \in DOMAIN s
    <3>2. CASE j = Len(old) + 1
      BY <1>2, <1>4, <3>2
    <3>3. CASE j # Len(old) + 1
      <4>1. j \in 1..Len(old)
        BY <1>4, <2>1, <3>3
      <4>2. j \notin Srecs(old)
        BY <1>3
      <4>3. QED
        BY <1>4, <2>1, <4>1, <4>2 DEF Srecs
    <3>4. QED
      BY <3>2, <3>3
  <2>3. QED
    BY <2>2 DEF Srecs
<1>6. Formatted(v) /\ (NoneOpen(w) => NoneOpen(v))
  BY <1>1, <1>2, <1>4, <1>5, EnteredNoneYet DEF s
<1>7. QED
  BY <1>6 DEF v

\* commit_svars adds variables only.
LEMMA CommitSvarsFormatted ==
    ASSUME NEW w, Shaped(w), AtWork(w), Formatted(w)
    PROVE  LET v == CommitSvars(w)
           IN  Formatted(v) /\ (NoneOpen(w) => NoneOpen(v))
<1>1. CASE w.fam.svars_fresh
  <2> DEFINE x == AddEntry(w, "svars", "", 1)
             v == [x EXCEPT !.fam.svars_fresh = FALSE]
  <2>1. Shaped(x) /\ Formatted(x) /\ (NoneOpen(w) => NoneOpen(x))
    BY AddEntryBusy, AddEntryFormatted
  <2> HIDE DEF x
  <2>2. DOMAIN x = WorkFields /\ DOMAIN x.fam = FamFields
    BY <2>1 DEF Shaped
  <2>3. v.files = x.files /\ v.fam = [x.fam EXCEPT !.svars_fresh = FALSE]
    BY <2>2 DEF WorkFields, FamFields
  <2>4. /\ v.fam.directory = x.fam.directory /\ v.fam.srecs = x.fam.srecs
        /\ v.fam.commit_max = x.fam.commit_max
        /\ v.fam.non_state_ready = x.fam.non_state_ready
    BY <2>2, <2>3 DEF FamFields
  <2> HIDE DEF v
  <2>5. Formatted(v) /\ (NoneOpen(x) => NoneOpen(v))
    BY <2>1, <2>3, <2>4
       DEF Formatted, NoneYet, Uncommitted, LastDir, file_count, NoneOpen
  <2>6. CommitSvars(w) = v
    BY <1>1 DEF CommitSvars, v, x
  <2>7. QED
    BY <2>1, <2>5, <2>6
<1>2. CASE ~w.fam.svars_fresh
  BY <1>2 DEF CommitSvars
<1>3. QED
  BY <1>1, <1>2

\* Between calls what waits is all there is behind commit_max, so its numbers go on.
LEMMA FreshFrom ==
    ASSUME NEW w, Shaped(w), Formatted(w), NoneOpen(w)
    PROVE  LET m   == w.fam.commit_max
               qty == Len(w.fam.srecs) - m
           IN  /\ m \in Nat /\ qty \in Nat
               /\ Cardinality(FreshFormats(w)) = qty
               /\ FreshFormats(w) = m + 1 .. m + qty
               /\ \A k \in 1..qty : Nth(FreshFormats(w), k) = m + k
<1> DEFINE s == w.fam.srecs
           m == w.fam.commit_max
           qty == Len(s) - m
           fresh == FreshFormats(w)
<1>1. FormatStatuses(s, m, w.fam.non_state_ready) /\ Len(s) \in Nat
  BY DEF Formatted, Shaped, IsSeq
<1>2. m \in Nat /\ qty \in Nat /\ m + qty = Len(s)
  BY <1>1 DEF FormatStatuses
<1>3. \A i \in 1..Len(s) : s[i] \notin {"open", "filled"}
  BY DEF NoneOpen
<1>4. fresh = {i \in m + 1 .. Len(s) : s[i] = "closed"}
  BY DEF FreshFormats
<1> HIDE DEF s, m, qty, fresh
<1>5. \A i \in m + 1 .. Len(s) : s[i] = "closed"
  BY <1>1, <1>2, <1>3 DEF FormatStatuses
<1>6. fresh = m + 1 .. m + qty
  BY <1>2, <1>4, <1>5
<1>7. Cardinality(fresh) = qty
  <2>1. Cardinality(m + 1 .. m + qty) = IF m + 1 > m + qty THEN 0 ELSE (m + qty) - (m + 1) + 1
    BY <1>2, FS_Interval
  <2>2. QED
    BY <1>2, <1>6, <2>1
<1>8. ASSUME NEW k \in 1..qty
      PROVE  Nth(fresh, k) = m + k
  <2>1. ASSUME NEW i \in fresh
        PROVE  Cardinality({j \in fresh : j <= i}) = i - m
    <3>1. {j \in fresh : j <= i} = m + 1 .. i
      BY <1>2, <1>6
    <3>2. i \in Int /\ m + 1 \in Int /\ ~(m + 1 > i)
      BY <1>2, <1>6
    <3>3. Cardinality(m + 1 .. i) = IF m + 1 > i THEN 0 ELSE i - (m + 1) + 1
      BY <3>2, FS_Interval
    <3>4. Cardinality(m + 1 .. i) = i - m
      BY <1>2, <3>2, <3>3
    <3>5. QED
      BY <3>1, <3>4
  <2>2. m + k \in fresh /\ \A i \in fresh : i - m = k <=> i = m + k
    BY <1>2, <1>6
  <2>3. \E i \in fresh : Cardinality({j \in fresh : j <= i}) = k
    <3>1. Cardinality({j \in fresh : j <= m + k}) = (m + k) - m
      BY <2>1, <2>2
    <3>2. (m + k) - m = k
      BY <1>2
    <3>3. QED
      BY <2>2, <3>1, <3>2
  <2>4. Nth(fresh, k) \in fresh /\ Cardinality({j \in fresh : j <= Nth(fresh, k)}) = k
    BY <2>3 DEF Nth
  <2>5. QED
    BY <2>1, <2>2, <2>4
<1>9. QED
  BY <1>2, <1>6, <1>7, <1>8 DEF s, m, qty, fresh

\* Behind the formats up to m, entries s have those up to top and no other.
Continues(s, m, top) ==
    \E len \in Nat :
        /\ Len(s) = len + (top - m)
        /\ \A j \in 1..len : s[j].kind # "srec"
        /\ \A k \in 1..(top - m) : s[len + k].kind = "srec" /\ s[len + k].id = m + k

\* The commit of a file that has its formats in memory yet, all of them.
Pending(w, m) ==
    /\ m \in Nat /\ FormatsNumbered(w.files, m)
    /\ w.fam.commit_max = Len(w.fam.srecs) /\ m <= w.fam.commit_max
    /\ \A i \in 1..Len(w.fam.srecs) : w.fam.srecs[i] \in {"saved", "closed"}
    /\ w.files[file_count(w)].dir = Empty
    /\ Continues(LastDir(w).entries, m, w.fam.commit_max)

\* commit_srecs numbers what it writes from commit_max on.
LEMMA CommitSrecsPending ==
    ASSUME NEW w, Shaped(w), Busy(w), Formatted(w), NoneOpen(w)
    PROVE  Pending(CommitSrecs(w), w.fam.commit_max)
<1> DEFINE v == CommitSrecs(w)
           m == w.fam.commit_max
           old == LastDir(w).entries
           fresh == FreshFormats(w)
           qty == Cardinality(fresh)
           new == [k \in 1..qty |-> [kind |-> "srec", name |-> "", id |-> Nth(fresh, k),
                                     offset |-> w.fam.next_free_byte + k - 1, length |-> 1]]
           n == Len(w.fam.directory)
<1>1. /\ SameDirs(v.files, w.files)
      /\ WithEntries(v.fam.directory, w.fam.directory, old \o new)
      /\ v.fam.srecs = [i \in DOMAIN w.fam.srecs |->
                           IF i \in fresh THEN "saved" ELSE w.fam.srecs[i]]
      /\ v.fam.commit_max = Len(w.fam.srecs)
      /\ Shaped(v)
  BY CommitSrecsBusy
<1>2. /\ m \in Nat /\ qty \in Nat /\ Len(w.fam.srecs) = m + qty
      /\ fresh = m + 1 .. m + qty
      /\ \A k \in 1..qty : Nth(fresh, k) = m + k
  <2>1. Len(w.fam.srecs) \in Nat
    BY DEF Shaped, IsSeq
  <2>2. QED
    BY <2>1, FreshFrom
<1>3. /\ IsSeq(w.files) /\ Len(w.files) = n /\ n \in Nat /\ n >= 1
      /\ IsSeq(old) /\ Srecs(old) = {} /\ w.files[n].dir = Empty
  BY DEF Shaped, FilesMatch, DirsShaped, LastDir, file_count, Formatted, NoneYet, Busy, AtWork
<1>4. \A k \in 1..qty : new[k].kind = "srec" /\ new[k].id = m + k
  BY <1>2
<1>5. IsSeq(new) /\ Len(new) = qty
  <2> HIDE DEF qty, fresh
  <2>1. new = [k \in 1..qty |-> new[k]]
    OBVIOUS
  <2> HIDE DEF new
  <2>2. QED
    BY <1>2, <2>1, FunctionSeq
<1>6. /\ FormatStatuses(w.fam.srecs, m, w.fam.non_state_ready)
      /\ FormatsNumbered(w.files, m) /\ IsSeq(w.fam.srecs)
  BY DEF Formatted, Shaped
<1> HIDE DEF v, m, old, fresh, qty, new, n
<1>7. FormatsNumbered(v.files, m)
  BY <1>1, <1>3, <1>6, SameNumbered
<1>8. /\ Len(v.fam.srecs) = m + qty
      /\ \A i \in 1..(m + qty) : v.fam.srecs[i] \in {"saved", "closed"}
  <2>1. DOMAIN w.fam.srecs = 1..(m + qty)
    BY <1>2, <1>6 DEF IsSeq
  <2>2. IsSeq(v.fam.srecs)
    BY <1>1 DEF Shaped
  <2>3. DOMAIN v.fam.srecs = 1..(m + qty) /\ DOMAIN v.fam.srecs = 1..Len(v.fam.srecs)
        /\ Len(v.fam.srecs) \in Nat
    BY <1>1, <2>1, <2>2 DEF IsSeq
  <2>4. Len(v.fam.srecs) = m + qty
    BY <1>2, <2>3
  <2>5. ASSUME NEW i \in 1..(m + qty)
        PROVE  v.fam.srecs[i] \in {"saved", "closed"}
    <3>1. CASE i \in fresh
      BY <1>1, <2>1, <3>1
    <3>2. CASE i \notin fresh
      <4>1. i <= m
        BY <1>2, <3>2
      <4>2. QED
        BY <1>1, <1>2, <1>6, <2>1, <3>2, <4>1 DEF FormatStatuses
    <3>3. QED
      BY <3>1, <3>2
  <2>6. QED
    BY <2>4, <2>5
<1>9. file_count(v) = n /\ LastDir(v).entries = old \o new
  BY <1>1 DEF WithEntries, LastDir, file_count, n
<1>10. v.files[n].dir = Empty
  BY <1>1, <1>3 DEF SameDirs
<1>11. Continues(old \o new, m, m + qty)
  <2>1. /\ Len(old \o new) = Len(old) + qty /\ Len(old) \in Nat
        /\ \A j \in 1..Len(old) : (old \o new)[j] = old[j]
        /\ \A k \in 1..qty : (old \o new)[Len(old) + k] = new[k]
    <3>1. Joined(old, new, old \o new)
      BY <1>3, <1>5, ConcatJoined
    <3>2. Len(old) \in Nat
      BY <1>3 DEF IsSeq
    <3>3. QED
      BY <1>5, <3>1, <3>2 DEF Joined
  <2>2. \A j \in 1..Len(old) : old[j].kind # "srec"
    BY <1>3 DEF Srecs, IsSeq
  <2> DEFINE s == old \o new
  <2>3. /\ Len(s) = Len(old) + qty
        /\ \A j \in 1..Len(old) : s[j].kind # "srec"
        /\ \A k \in 1..qty : s[Len(old) + k].kind = "srec" /\ s[Len(old) + k].id = m + k
    BY <1>4, <2>1, <2>2
  <2> HIDE DEF s
  <2>4. (m + qty) - m = qty
    BY <1>2
  <2>5. Continues(s, m, m + qty)
    BY <2>1, <2>3, <2>4 DEF Continues
  <2>6. QED
    BY <2>5 DEF s
<1>12. v.fam.commit_max = m + qty
  BY <1>1, <1>2
<1>13. Pending(v, m)
  BY <1>2, <1>7, <1>8, <1>9, <1>10, <1>11, <1>12 DEF Pending
<1>14. QED
  BY <1>13 DEF v, m

\* A file gets formats m + 1 .. top behind files that have 1..m.
LEMMA NumberedOn ==
    ASSUME NEW m \in Nat, NEW top \in Nat, m <= top, NEW n \in Nat,
           NEW gs, DOMAIN gs = 1..n, FormatsNumbered(gs, m), gs[n].dir = Empty,
           NEW s, IsSeq(s), Continues(s, m, top),
           NEW fs, DOMAIN fs = 1..n, n >= 1,
           \A i \in 1..n : fs[i].dir = IF i = n THEN s ELSE gs[i].dir
    PROVE  FormatsNumbered(fs, top)
<1>1. PICK len \in Nat :
          /\ Len(s) = len + (top - m)
          /\ \A j \in 1..len : s[j].kind # "srec"
          /\ \A k \in 1..(top - m) : s[len + k].kind = "srec" /\ s[len + k].id = m + k
  BY DEF Continues
<1>2. \A j \in Srecs(s) : j - len \in 1..(top - m) /\ s[j].id = m + (j - len) /\ j \in Nat
  <2>1. ASSUME NEW j \in Srecs(s)
        PROVE  j - len \in 1..(top - m) /\ s[j].id = m + (j - len) /\ j \in Nat
    <3>1. j \in 1..Len(s) /\ s[j].kind = "srec"
      BY DEF Srecs, IsSeq
    <3>2. j \in Nat /\ j - len \in 1..(top - m) /\ len + (j - len) = j
      BY <1>1, <3>1
    <3>3. s[len + (j - len)].id = m + (j - len)
      BY <1>1, <3>2
    <3>4. QED
      BY <3>2, <3>3
  <2>2. QED
    BY <2>1
<1>3. \A k \in 1..(top - m) : len + k \in Srecs(s)
  <2>1. TAKE k \in 1..(top - m)
  <2>2. len + k \in 1..Len(s)
    BY <1>1
  <2>3. QED
    BY <1>1, <2>2 DEF Srecs, IsSeq
<1>4. \A i \in 1..n : \A j \in Srecs(gs[i].dir) : i < n
  BY NoSrecs
<1>5. \A i \in 1..n : i < n => fs[i].dir = gs[i].dir
  OBVIOUS
<1>6. fs[n].dir = s
  OBVIOUS
<1>7. ASSUME NEW i \in 1..n, NEW j \in Srecs(fs[i].dir)
      PROVE  /\ fs[i].dir[j].id \in 1..top
             /\ i < n => /\ j \in Srecs(gs[i].dir) /\ fs[i].dir[j].id = gs[i].dir[j].id
                         /\ fs[i].dir[j].id \in 1..m
             /\ i = n => /\ j \in Srecs(s) /\ fs[i].dir[j].id = m + (j - len) /\ j \in Nat
                         /\ j - len \in 1..(top - m)
  <2>1. CASE i < n
    <3>1. j \in Srecs(gs[i].dir) /\ fs[i].dir = gs[i].dir
      BY <1>5, <2>1
    <3>2. fs[i].dir[j].id \in 1..m
      BY <3>1 DEF FormatsNumbered
    <3>3. QED
      BY <2>1, <3>1, <3>2
  <2>2. CASE i = n
    BY <1>2, <1>6, <2>2
  <2>3. QED
    BY <2>1, <2>2
<1>8. ASSUME NEW k \in 1..top
      PROVE  \E i \in 1..n : \E j \in Srecs(fs[i].dir) : fs[i].dir[j].id = k
  <2>1. CASE k <= m
    <3>1. PICK i \in 1..n : \E j \in Srecs(gs[i].dir) : gs[i].dir[j].id = k
      BY <2>1 DEF FormatsNumbered
    <3>2. i < n /\ fs[i].dir = gs[i].dir
      BY <1>4, <1>5, <3>1
    <3>3. QED
      BY <3>1, <3>2
  <2>2. CASE k > m
    <3>1. k - m \in 1..(top - m) /\ m + (k - m) = k
      BY <2>2
    <3>2. len + (k - m) \in Srecs(fs[n].dir) /\ fs[n].dir[len + (k - m)].id = m + (k - m)
      BY <1>1, <1>3, <1>6, <3>1
    <3>3. QED
      BY <3>1, <3>2
  <2>3. QED
    BY <2>1, <2>2
<1>9. ASSUME NEW i \in 1..n, NEW h \in 1..n,
             NEW j \in Srecs(fs[i].dir), NEW l \in Srecs(fs[h].dir),
             i < h \/ (i = h /\ j < l)
      PROVE  fs[i].dir[j].id < fs[h].dir[l].id
  <2>1. CASE h < n
    <3>1. i < n
      BY <1>9, <2>1
    <3>2. gs[i].dir[j].id < gs[h].dir[l].id
      BY <1>7, <1>9, <2>1, <3>1 DEF FormatsNumbered
    <3>3. QED
      BY <1>7, <2>1, <3>1, <3>2
  <2>2. CASE i < n /\ h = n
    <3>1. fs[i].dir[j].id \in 1..m
      BY <1>7, <2>2
    <3>2. fs[h].dir[l].id = m + (l - len) /\ l - len \in 1..(top - m)
      BY <1>7, <2>2
    <3>3. QED
      BY <3>1, <3>2
  <2>3. CASE i = n /\ h = n
    <3>1. /\ fs[i].dir[j].id = m + (j - len) /\ fs[h].dir[l].id = m + (l - len)
          /\ j \in Nat /\ l \in Nat
      BY <1>7, <2>3
    <3>2. j < l
      BY <1>9, <2>3
    <3>3. QED
      BY <3>1, <3>2
  <2>4. QED
    BY <2>1, <2>2, <2>3
<1>10. QED
  BY <1>7, <1>8, <1>9 DEF FormatsNumbered

\* commit_dir: the formats are in the files with the directory.
LEMMA CommitDirFormatted ==
    ASSUME NEW w, Shaped(w), Busy(w), NEW m, Pending(w, m)
    PROVE  LET v == [CommitDir(w) EXCEPT !.fam.commit_count = @ + 1,
                                         !.fam.non_state_ready = FALSE]
           IN  Formatted(v) /\ NoneOpen(v)
<1> DEFINE v == [CommitDir(w) EXCEPT !.fam.commit_count = @ + 1,
                                     !.fam.non_state_ready = FALSE]
           n == file_count(w)
           s == LastDir(w).entries
           top == w.fam.commit_max
<1>1. /\ Shaped(v) /\ ~Uncommitted(v) /\ Len(v.files) = n
      /\ v.fam.srecs = w.fam.srecs /\ v.fam.commit_max = top
      /\ \A i \in 1..n : v.files[i].dir = IF i = n THEN s ELSE w.files[i].dir
  BY CommitDirCommits
<1>2. /\ IsSeq(w.files) /\ Len(w.files) = n /\ n \in Nat /\ n >= 1 /\ IsSeq(s)
      /\ top \in Nat
  BY DEF Shaped, FilesMatch, DirsShaped, LastDir, file_count
<1>3. /\ m \in Nat /\ m <= top /\ FormatsNumbered(w.files, m) /\ w.files[n].dir = Empty
      /\ Continues(s, m, top)
      /\ top = Len(w.fam.srecs)
      /\ \A i \in 1..Len(w.fam.srecs) : w.fam.srecs[i] \in {"saved", "closed"}
  BY DEF Pending
<1> HIDE DEF v, n, s, top
<1>4. DOMAIN v.files = 1..n /\ DOMAIN w.files = 1..n
  BY <1>1, <1>2 DEF Shaped, FilesMatch, IsSeq
<1>5. FormatsNumbered(v.files, top)
  BY <1>1, <1>2, <1>3, <1>4, NumberedOn
<1>6. FormatStatuses(v.fam.srecs, top, v.fam.non_state_ready)
  BY <1>1, <1>2, <1>3 DEF FormatStatuses
<1>7. NoneYet(v) /\ NoneOpen(v)
  BY <1>1, <1>3 DEF NoneYet, NoneOpen
<1>8. QED
  BY <1>1, <1>5, <1>6, <1>7 DEF Formatted, v

\* A commit writes what was closed, and numbers it on.
LEMMA CommitFormatted ==
    ASSUME NEW w, Shaped(w), Busy(w), Formatted(w), NoneOpen(w)
    PROVE  Formatted(CommitNonState(w)) /\ NoneOpen(CommitNonState(w))
<1> DEFINE a == SeekEnd(w)
           b == CommitSvars(a)
           c == CommitSrecs(b)
           v == [CommitDir(c) EXCEPT !.fam.commit_count = @ + 1, !.fam.non_state_ready = FALSE]
<1>1. CommitNonState(w) = v
  BY BusyIsOpen DEF CommitNonState
<1>2. Shaped(a) /\ Busy(a) /\ Formatted(a) /\ NoneOpen(a)
  BY SeekEndLike, LikeIsBusy, LikeFormatted
<1> HIDE DEF a
<1>3. Shaped(b) /\ Busy(b) /\ Formatted(b) /\ NoneOpen(b)
  BY <1>2, CommitSvarsBusy, CommitSvarsFormatted DEF Busy
<1> HIDE DEF b
<1>4. Shaped(c) /\ Busy(c) /\ Pending(c, b.fam.commit_max)
  BY <1>3, CommitSrecsBusy, CommitSrecsPending
<1> HIDE DEF c
<1>5. Formatted(v) /\ NoneOpen(v)
  BY <1>4, CommitDirFormatted
<1>6. QED
  BY <1>1, <1>5

\* A workspace between the calls of an application that may write.
Ordered(w) == Good(w) /\ Formatted(w) /\ NoneOpen(w)

\* What sees no directory leaves that so, if the same file is open.
LEMMA LikeOrdered ==
    ASSUME NEW w, Ordered(w), NEW v, Like(v, w), v.fam.cur_index = w.fam.cur_index
    PROVE  Ordered(v)
  BY LikeIsGood, LikeFormatted DEF Ordered, Good

\* non_state_file_close
LEMMA FileCloseOrdered ==
    ASSUME NEW w, Ordered(w)
    PROVE  Ordered(FileClose(w)) /\ Settled(FileClose(w))
<1>1. Good(FileClose(w)) /\ Settled(FileClose(w))
  BY FileCloseSettles DEF Ordered
<1>2. CASE w.fam.cur_index = NoFile
  BY <1>1, <1>2 DEF FileClose
<1>3. CASE w.fam.cur_index # NoFile
  <2> DEFINE v == IF COMMIT_NS(w) THEN CommitNonState(w) ELSE w
  <2>1. Shaped(v) /\ Formatted(v) /\ NoneOpen(v)
    <3>1. CASE COMMIT_NS(w)
      BY <3>1, CommitMeansBusy, CommitSettles, CommitFormatted DEF Ordered, Good
    <3>2. CASE ~COMMIT_NS(w)
      BY <3>2 DEF Ordered, Good
    <3>3. QED
      BY <3>1, <3>2
  <2> HIDE DEF v
  <2>2. Like([v EXCEPT !.fam.cur_index = NoFile], v)
    BY <2>1, StreamLike
  <2>3. FileClose(w) = [v EXCEPT !.fam.cur_index = NoFile]
    BY <1>3 DEF FileClose, v
  <2>4. Formatted(FileClose(w)) /\ NoneOpen(FileClose(w))
    BY <2>1, <2>2, <2>3, LikeFormatted
  <2>5. QED
    BY <1>1, <2>4 DEF Ordered
<1>4. QED
  BY <1>2, <1>3

\* non_state_file_open
LEMMA FileOpenOrdered ==
    ASSUME NEW w, Ordered(w), NEW i
    PROVE  Ordered(FileOpen(w, i))
<1>1. CASE w.fam.cur_index = i
  BY <1>1 DEF FileOpen
<1>2. CASE w.fam.cur_index # i
  <2> DEFINE v == FileClose(w)
             u == [v EXCEPT !.fam.cur_index = i, !.fam.pos = 0, !.fam.next_free_byte = Size(v, i)]
  <2>1. Shaped(v) /\ Ordered(v)
    BY FileCloseOrdered DEF Ordered, Good
  <2>2. FileOpen(w, i) = u
    BY <1>2 DEF FileOpen
  <2> HIDE DEF v
  <2>3. Like(u, v)
    BY <2>1, StreamLike
  <2> HIDE DEF u
  <2>4. Formatted(u) /\ NoneOpen(u)
    BY <2>1, <2>3, LikeFormatted DEF Ordered
  <2>5. Good(u)
    BY <2>2, FileOpenGood DEF Ordered
  <2>6. QED
    BY <2>2, <2>4, <2>5 DEF Ordered
<1>3. QED
  BY <1>1, <1>2

\* A new entry that is not a format, where prep_for_new_data puts it.
LEMMA NewEntryOrdered ==
    ASSUME NEW w, Ordered(w), NEW kind, kind # "srec", NEW name, NEW len
    PROVE  Ordered(AddEntry(PrepForNewData(w), kind, name, len))
<1> DEFINE p == PrepForNewData(w)
<1>1. Shaped(p) /\ AtWork(p)
  BY PrepAtWork DEF Ordered
<1>2. Formatted(p) /\ NoneOpen(p)
  <2>1. CASE AtWork(w)
    <3>1. Like(SeekEnd(w), w)
      BY SeekEndLike DEF Ordered, Good
    <3>2. Formatted(SeekEnd(w)) /\ NoneOpen(SeekEnd(w))
      BY <3>1, LikeFormatted DEF Ordered, Good
    <3>3. QED
      BY <2>1, <3>2 DEF PrepForNewData
  <2>2. CASE ~AtWork(w)
    <3>1. Ordered(FileClose(w)) /\ Settled(FileClose(w))
      BY FileCloseOrdered
    <3>2. Formatted(NewFile(FileClose(w))) /\ NoneOpen(NewFile(FileClose(w)))
      BY <3>1, NewFileFormatted DEF Ordered, Good
    <3>3. QED
      BY <2>2, <3>2 DEF PrepForNewData
  <2>3. QED
    BY <2>1, <2>2
<1>3. Good(AddEntry(p, kind, name, len))
  BY NewEntryGood DEF Ordered
<1> HIDE DEF p
<1>4. Ordered(AddEntry(p, kind, name, len))
  BY <1>1, <1>2, <1>3, AddEntryFormatted DEF Ordered
<1>5. QED
  BY <1>4 DEF p

\* A new parameter.
LEMMA WriteNewOrdered ==
    ASSUME NEW w, Ordered(w), NEW n, NEW len
    PROVE  Ordered(WriteNew(w, n, len))
<1> DEFINE a == AddEntry(PrepForNewData(w), "param", n, len)
           t == [a.fam.names EXCEPT ![n] =
                    [file |-> a.fam.cur_index, entry |-> Len(LastDir(a).entries)]]
           v == [a EXCEPT !.fam.names = t]
<1>1. Ordered(a)
  BY NewEntryOrdered
<1> HIDE DEF a
<1>2. WriteNew(w, n, len) = v
  <2>1. DOMAIN a = WorkFields /\ DOMAIN a.fam = FamFields
    BY <1>1 DEF Ordered, Good, Shaped
  <2>2. Enter(a, n) = v
    BY <2>1 DEF Enter, WorkFields, FamFields
  <2>3. QED
    BY <2>2 DEF WriteNew, a
<1> HIDE DEF t
<1>3. Like(v, a) /\ v.fam.cur_index = a.fam.cur_index
  BY <1>1, TableLike DEF Ordered, Good
<1> HIDE DEF v
<1>4. QED
  BY <1>1, <1>2, <1>3, LikeOrdered

\* Stream, data and history have no formats.
LEMMA DataOrdered ==
    ASSUME NEW w, Ordered(w), NEW p, NEW units, NEW f, NEW e, NEW x, NEW h, NEW c
    PROVE  /\ Ordered(FileSeek(w, p)) /\ Ordered(Write(w, units)) /\ Ordered(SeekEnd(w))
           /\ Ordered([w EXCEPT !.wrote[f][e] = x, !.clock = c])
           /\ Ordered([w EXCEPT !.fam.char_header = h, !.clock = c])
<1>1. Shaped(w) /\ Like(w, w) /\ DOMAIN w = WorkFields /\ DOMAIN w.fam = FamFields
  BY SelfLike DEF Ordered, Good, Shaped
<1>2. Like(FileSeek(w, p), w) /\ FileSeek(w, p).fam.cur_index = w.fam.cur_index
  BY <1>1 DEF FileSeek, Like, WorkFields, FamFields
<1>3. /\ Like(Write(w, units), w) /\ Write(w, units).fam.cur_index = w.fam.cur_index
      /\ Like(SeekEnd(w), w) /\ SeekEnd(w).fam.cur_index = w.fam.cur_index
  BY <1>1, WriteLike, SeekEndLike
<1> DEFINE v == [w EXCEPT !.wrote[f][e] = x, !.clock = c]
           u == [w EXCEPT !.fam.char_header = h, !.clock = c]
<1>4. Like(v, w) /\ v.fam.cur_index = w.fam.cur_index
  BY <1>1 DEF Like, WorkFields
<1>5. Like(u, w) /\ u.fam.cur_index = w.fam.cur_index
  BY <1>1 DEF Like, WorkFields, FamFields
<1> HIDE DEF v, u
<1>6. Ordered(v) /\ Ordered(u)
  BY <1>4, <1>5, LikeOrdered
<1>7. QED
  BY <1>2, <1>3, <1>6, LikeOrdered DEF v, u

\* A known parameter.
LEMMA RewriteOrdered ==
    ASSUME NEW w, Ordered(w), NEW n, NEW len
    PROVE  Ordered(Rewrite(w, n, len))
<1> DEFINE p == w.fam.names[n]
           e == w.fam.directory[p.file].entries[p.entry]
           o == FileOpen(w, p.file)
           c == o.clock + 1
           s == FileSeek(o, e.offset)
           v == Write(s, Copies(c, len))
           x == Put(v.wrote[p.file][p.entry], 0, Copies(c, len))
           u == [v EXCEPT !.wrote[p.file][p.entry] = x, !.clock = c]
<1>1. Ordered(o)
  BY FileOpenOrdered
<1> HIDE DEF o
<1>2. Ordered(s)
  BY <1>1, DataOrdered
<1> HIDE DEF s
<1>3. Ordered(v)
  BY <1>2, DataOrdered
<1>4. Rewrite(w, n, len) = IF ~CanSeek(o, e.offset) THEN o
                           ELSE IF w.fam.cur_index = p.file THEN SeekEnd(u) ELSE FileClose(u)
  BY DEF Rewrite, o, s
<1> HIDE DEF v, c, x, p, e
<1>5. Ordered(u)
  BY <1>3, DataOrdered
<1> HIDE DEF u
<1>6. Ordered(SeekEnd(u)) /\ Ordered(FileClose(u))
  BY <1>5, DataOrdered, FileCloseOrdered
<1>7. QED
  BY <1>1, <1>4, <1>6

\* mc_flush
LEMMA FlushOrdered ==
    ASSUME NEW w, Ordered(w), COMMIT_NS(w)
    PROVE  Ordered(FileClose(CommitNonState(w)))
<1>1. Shaped(w) /\ Busy(w)
  BY CommitMeansBusy DEF Ordered, Good
<1>2. Ordered(CommitNonState(w))
  BY <1>1, CommitSettles, CommitFormatted DEF Ordered, Good
<1>3. QED
  BY <1>2, FileCloseOrdered

-----------------------------------------------------------------------------
(***************************************************************************)
(* The formats between the calls.                                          *)
(***************************************************************************)
\* An application that closes each format it opens, with something in it,
\* before it makes another call, and while an uncommitted file is open.
TimelyUse == App \cap {"late_format", "open_format", "empty_format"} = {}

\* Once the family is closed there is no format that its files do not have.
AllWritten == \A i \in DOMAIN fam.srecs : i <= fam.commit_max

FormatInv == IInv /\ Formatted(Now) /\ (proc = "closed" => AllWritten)

\* What a call may start from.
LEMMA RunningOrdered ==
    ASSUME TimelyUse, FormatInv, Running
    PROVE  Ordered(Now) /\ proc = "open"
<1>1. \A i \in DOMAIN fam.srecs : fam.srecs[i] \notin {"open", "filled"}
  BY DEF TimelyUse, Running, FormatOpen
<1>2. DOMAIN fam.srecs = 1..Len(fam.srecs)
  BY DEF FormatInv, IInv, Good, Shaped, Now, IsSeq
<1>3. NoneOpen(Now)
  BY <1>1, <1>2 DEF NoneOpen, Now
<1>4. QED
  BY <1>3 DEF FormatInv, IInv, Ordered, Running

\* A call that ends so keeps the invariant.
LEMMA BecomesOrdered ==
    ASSUME NEW w, Ordered(w), NEW p, p # "overflow", Becomes(w, p), p = "closed" => Settled(w)
    PROVE  FormatInv'
<1>1. IInv'
  BY BecomesGood DEF Ordered
<1>2. files' = w.files /\ fam' = w.fam /\ proc' = p
  BY DEF Ordered, Good, Shaped, Becomes
<1>3. Now'.files = w.files /\ Now'.fam = w.fam
  BY <1>2 DEF Now
<1>4. Formatted(Now')
  BY <1>3 DEF Ordered, Formatted, NoneYet, Uncommitted, LastDir, file_count
<1>5. ASSUME p = "closed"
      PROVE  AllWritten'
  <2>1. /\ FormatStatuses(w.fam.srecs, w.fam.commit_max, w.fam.non_state_ready)
        /\ ~w.fam.non_state_ready
        /\ \A i \in 1..Len(w.fam.srecs) : w.fam.srecs[i] \notin {"open", "filled"}
        /\ DOMAIN w.fam.srecs = 1..Len(w.fam.srecs)
    BY <1>5 DEF Ordered, Good, Shaped, IsSeq, Formatted, NoneOpen, Settled
  <2>2. \A i \in DOMAIN w.fam.srecs : i <= w.fam.commit_max
    BY <2>1 DEF FormatStatuses
  <2>3. QED
    BY <1>2, <2>2 DEF AllWritten
<1>6. QED
  BY <1>1, <1>2, <1>4, <1>5 DEF FormatInv

\* The calls that may write, and those that read.
LEMMA WritesOrdered ==
    ASSUME TimelyUse, FormatInv,
           \/ \E n \in Scalars \cup Strings, len \in Sizes : WriteParam(n, len)
           \/ \E n \in Arrays, len \in Sizes : WriteArray(n, len)
           \/ \E n \in Names : ReadParam(n)
           \/ DefMesh \/ Flush \/ SuffixWidth \/ Close
    PROVE  FormatInv'
<1> DEFINE Ends(p) == \E w : Ordered(w) /\ Becomes(w, p) /\ (p = "closed" => Settled(w))
<1>1. Ordered(Now)
  BY RunningOrdered
     DEF WriteParam, WriteArray, ReadParam, DefMesh, Flush, SuffixWidth, Close, MayWrite
<1> SUFFICES Ends("open") \/ Ends("closed")
  BY BecomesOrdered
<1>2. ASSUME NEW n, NEW len, WriteParam(n, len)
      PROVE  Ends("open")
  <2> DEFINE w == IF Known(n) THEN Rewrite(Now, n, len) ELSE WriteNew(Now, n, len)
  <2>1. Ordered(w)
    BY <1>1, RewriteOrdered, WriteNewOrdered
  <2>2. Becomes(w, "open")
    BY <1>2 DEF WriteParam
  <2> HIDE DEF w
  <2>3. QED
    BY <2>1, <2>2
<1>3. ASSUME NEW n, NEW len, WriteArray(n, len)
      PROVE  Ends("open")
  <2>1. Ordered(WriteNew(Now, n, len))
    BY <1>1, WriteNewOrdered
  <2>2. Becomes(WriteNew(Now, n, len), "open")
    BY <1>3 DEF WriteArray
  <2>3. QED
    BY <2>1, <2>2
<1>4. ASSUME NEW n, ReadParam(n)
      PROVE  Ends("open")
  <2> DEFINE e == EntryOf(n)
             o == FileOpen(Now, Place(n).file)
             w == IF CanSeek(o, e.offset) THEN FileSeek(o, e.offset + e.length) ELSE o
  <2>1. Ordered(o)
    BY <1>1, FileOpenOrdered
  <2>2. Becomes(w, "open")
    BY <1>4 DEF ReadParam
  <2> HIDE DEF o, e
  <2>3. Ordered(w)
    BY <2>1, DataOrdered
  <2> HIDE DEF w
  <2>4. QED
    BY <2>2, <2>3
<1>5. CASE DefMesh
  <2>1. Ordered(AddEntry(PrepForNewData(Now), "mesh", "", 1))
    BY <1>1, NewEntryOrdered
  <2>2. Becomes(AddEntry(PrepForNewData(Now), "mesh", "", 1), "open")
    BY <1>5 DEF DefMesh
  <2>3. QED
    BY <2>1, <2>2
<1>6. CASE Flush
  <2>1. Ordered(FileClose(CommitNonState(Now)))
    BY <1>1, <1>6, FlushOrdered DEF Flush
  <2>2. Becomes(FileClose(CommitNonState(Now)), "open")
    BY <1>6 DEF Flush
  <2>3. QED
    BY <2>1, <2>2
<1>7. CASE SuffixWidth
  <2> DEFINE o == FileOpen(Now, 1)
             c == o.clock + 1
             v == Write(o, <<c>>)
             u == [v EXCEPT !.fam.char_header = c, !.clock = c]
  <2>1. Ordered(o)
    BY <1>1, FileOpenOrdered
  <2>2. Becomes(FileClose(u), "open")
    BY <1>7 DEF SuffixWidth
  <2> HIDE DEF o
  <2>3. Ordered(v)
    BY <2>1, DataOrdered
  <2> HIDE DEF v, c
  <2>4. Ordered(u)
    BY <2>3, DataOrdered
  <2> HIDE DEF u
  <2>5. Ordered(FileClose(u))
    BY <2>4, FileCloseOrdered
  <2>6. QED
    BY <2>2, <2>5
<1>8. CASE Close
  <2> DEFINE v == IF COMMIT_NS(Now) THEN FileClose(CommitNonState(Now)) ELSE Now
             w == IF fam.cur_index = NoFile THEN Now ELSE FileClose(v)
  <2>1. Ordered(v)
    BY <1>1, FlushOrdered
  <2>2. Becomes(w, "closed")
    BY <1>8 DEF Close, v
  <2> HIDE DEF v
  <2>3. Ordered(w) /\ Settled(w)
    <3>1. CASE fam.cur_index = NoFile
      <4>1. Settled(Now)
        BY <1>1, <3>1, BusyIsOpen DEF Ordered, Good, Now
      <4>2. QED
        BY <1>1, <3>1, <4>1
    <3>2. CASE fam.cur_index # NoFile
      BY <2>1, <3>2, FileCloseOrdered
    <3>3. QED
      BY <3>1, <3>2
  <2> HIDE DEF w
  <2>4. QED
    BY <2>2, <2>3
<1>9. QED
  BY <1>2, <1>3, <1>4, <1>5, <1>6, <1>7, <1>8

\* Calls on a format in memory, and on the variables.
LEMMA FlagsOrdered ==
    ASSUME FormatInv, UNCHANGED files, proc = "open", proc' = proc,
           fam'.directory = fam.directory, fam'.commit_max = fam.commit_max,
           FormatStatuses(fam'.srecs, fam'.commit_max, fam'.non_state_ready), IInv'
    PROVE  FormatInv'
<1>1. Formatted(Now)
  BY DEF FormatInv
<1>2. Now'.files = Now.files /\ Now'.fam.directory = Now.fam.directory
      /\ Now'.fam = fam' /\ Now.fam = fam
  BY DEF Now
<1>3. Formatted(Now')
  BY <1>1, <1>2 DEF Formatted, NoneYet, Uncommitted, LastDir, file_count
<1>4. QED
  BY <1>3 DEF FormatInv

\* What those calls start from.
LEMMA FlagFacts ==
    ASSUME FormatInv
    PROVE  /\ DOMAIN fam = FamFields /\ IsSeq(fam.srecs) /\ DOMAIN fam.srecs = 1..Len(fam.srecs)
           /\ FormatStatuses(fam.srecs, fam.commit_max, fam.non_state_ready)
  BY DEF FormatInv, IInv, Good, Shaped, Now, IsSeq, Formatted

\* mc_def_svars has nothing to do with formats.
LEMMA DefSvarsOrdered ==
    ASSUME TimelyUse, FormatInv, DefSvars
    PROVE  FormatInv'
<1>1. IInv'
  BY DefSvarsGood DEF TimelyUse, FormatInv
<1>2. /\ fam'.directory = fam.directory /\ fam'.commit_max = fam.commit_max
      /\ fam'.srecs = fam.srecs /\ fam'.non_state_ready = fam.non_state_ready
  BY FlagFacts DEF DefSvars, FamFields
<1>3. UNCHANGED files /\ proc = "open" /\ proc' = proc
  BY DEF DefSvars, Running
<1>4. QED
  BY <1>1, <1>2, <1>3, FlagFacts, FlagsOrdered

\* mc_open_srec: the format goes behind those that are there.
LEMMA OpenSrecOrdered ==
    ASSUME FormatInv, OpenSrec
    PROVE  FormatInv'
<1>1. IInv'
  BY OpenSrecGood DEF FormatInv
<1>2. /\ fam'.directory = fam.directory /\ fam'.commit_max = fam.commit_max
      /\ fam'.srecs = Append(fam.srecs, "open")
      /\ fam'.non_state_ready = fam.non_state_ready
  BY FlagFacts DEF OpenSrec, FamFields
<1>3. UNCHANGED files /\ proc = "open" /\ proc' = proc
  BY DEF OpenSrec, Running
<1> DEFINE s == fam.srecs
           t == Append(s, "open")
<1>4. /\ Len(t) = Len(s) + 1 /\ Len(s) \in Nat
      /\ \A k \in 1..Len(s) : t[k] = s[k]
      /\ t[Len(s) + 1] = "open"
  BY FlagFacts, AppendSeq DEF IsSeq
<1>5. FormatStatuses(s, fam.commit_max, fam.non_state_ready)
  BY FlagFacts
<1> HIDE DEF s, t
<1>6. FormatStatuses(t, fam.commit_max, fam.non_state_ready)
  <2>1. \A i \in 1..Len(t) : i \in 1..Len(s) \/ (i = Len(s) + 1 /\ ~(i <= fam.commit_max))
    BY <1>4, <1>5 DEF FormatStatuses
  <2>2. QED
    BY <1>4, <1>5, <2>1 DEF FormatStatuses
<1>7. QED
  BY <1>1, <1>2, <1>3, <1>6, FlagsOrdered DEF s, t

\* A format changes its status.
LEMMA StatusChanged ==
    ASSUME NEW s, IsSeq(s), NEW m, NEW ready, FormatStatuses(s, m, ready),
           NEW i \in DOMAIN s, NEW e, NEW now, ready => now,
           IF i <= m THEN e \in {"saved", "closed"}
                     ELSE e \in {"open", "filled", "closed"} /\ (e = "closed" => now)
    PROVE  FormatStatuses([s EXCEPT ![i] = e], m, now)
<1> DEFINE t == [s EXCEPT ![i] = e]
<1>1. /\ DOMAIN s = 1..Len(s) /\ DOMAIN t = 1..Len(s)
      /\ t = [k \in DOMAIN t |-> t[k]]
      /\ \A k \in 1..Len(s) : t[k] = IF k = i THEN e ELSE s[k]
  BY DEF IsSeq
<1> HIDE DEF t
<1>2. \A k \in 1..Len(s) : t[k] = IF k = i THEN e ELSE s[k]
  BY <1>1
<1>3. Len(t) = Len(s)
  BY <1>1, ReplaceInSeq
<1>4. FormatStatuses(t, m, now)
  BY <1>2, <1>3 DEF FormatStatuses
<1>5. QED
  BY <1>4 DEF t

\* mc_def_subrec: an open format is behind commit_max.
LEMMA DefSubrecOrdered ==
    ASSUME FormatInv, NEW i \in DOMAIN fam.srecs, DefSubrec(i)
    PROVE  FormatInv'
<1>1. IInv'
  BY DefSubrecGood DEF FormatInv
<1> DEFINE s == [fam.srecs EXCEPT ![i] = "filled"]
<1>2. FormatStatuses(s, fam.commit_max, fam.non_state_ready)
  <2>1. ~(i <= fam.commit_max)
    BY FlagFacts DEF DefSubrec, FormatStatuses
  <2>2. QED
    BY <2>1, FlagFacts, StatusChanged
<1>3. fam' = [fam EXCEPT !.srecs = s]
  BY DEF DefSubrec
<1> HIDE DEF s
<1>4. /\ fam'.directory = fam.directory /\ fam'.commit_max = fam.commit_max
      /\ fam'.srecs = s /\ fam'.non_state_ready = fam.non_state_ready
  BY <1>3, FlagFacts DEF FamFields
<1>5. UNCHANGED files /\ proc = "open" /\ proc' = proc
  BY DEF DefSubrec
<1>6. QED
  BY <1>1, <1>2, <1>4, <1>5, FlagsOrdered

\* mc_close_srec, also of a format that is in a file.
LEMMA CloseSrecOrdered ==
    ASSUME TimelyUse, FormatInv, NEW i \in DOMAIN fam.srecs, CloseSrec(i)
    PROVE  FormatInv'
<1>1. IInv'
  BY CloseSrecGood DEF TimelyUse, FormatInv
<1> DEFINE s == [fam.srecs EXCEPT ![i] = "closed"]
           f == [fam EXCEPT !.srecs = s]
<1>2. fam' = [f EXCEPT !.non_state_ready = TRUE]
  BY DEF CloseSrec, TimelyUse
<1>3. FormatStatuses(s, fam.commit_max, TRUE)
  BY FlagFacts, StatusChanged
<1> HIDE DEF s
<1>4. /\ DOMAIN f = FamFields /\ f.directory = fam.directory
      /\ f.commit_max = fam.commit_max /\ f.srecs = s
  BY FlagFacts DEF FamFields
<1> HIDE DEF f
<1>5. /\ fam'.directory = fam.directory /\ fam'.commit_max = fam.commit_max
      /\ fam'.srecs = s /\ fam'.non_state_ready = TRUE
  BY <1>2, <1>4 DEF FamFields
<1>6. UNCHANGED files /\ proc = "open" /\ proc' = proc
  BY DEF CloseSrec
<1>7. QED
  BY <1>1, <1>3, <1>5, <1>6, FlagsOrdered

(***************************************************************************)
(* What load_srec_formats makes of the files.                              *)
(***************************************************************************)
\* Elements of P have the numbers 1..m, each one its own.
Counted(P, m, id) == /\ \A p \in P : id[p] \in 1..m
                     /\ \A k \in 1..m : \E p \in P : id[p] = k
                     /\ \A p, q \in P : id[p] = id[q] => p = q

\* Those up to the k-th are k.
LEMMA RankIsNumber ==
    ASSUME NEW P, NEW m \in Nat, NEW id, Counted(P, m, id), NEW k \in 0..m
    PROVE  Cardinality({p \in P : id[p] <= k}) = k
<1> USE DEF Counted
<1> DEFINE S == {p \in P : id[p] <= k}
           h == [j \in 1..k |-> CHOOSE p \in P : id[p] = j]
<1>1. \A j \in 1..k : h[j] \in P /\ id[h[j]] = j
  <2>1. TAKE j \in 1..k
  <2>2. \E p \in P : id[p] = j
    OBVIOUS
  <2>3. QED
    BY <2>2
<1>2. h \in [1..k -> S]
  <2>1. \A j \in 1..k : h[j] \in S
    BY <1>1
  <2>2. h = [j \in 1..k |-> h[j]]
    OBVIOUS
  <2> HIDE DEF h, S
  <2>3. QED
    BY <2>1, <2>2
<1>3. \A p \in S : p = h[id[p]] /\ id[p] \in 1..k
  <2>1. TAKE p \in S
  <2>2. id[p] \in 1..k
    OBVIOUS
  <2>3. h[id[p]] \in P /\ id[h[id[p]]] = id[p]
    BY <1>1, <2>2
  <2>4. QED
    BY <2>2, <2>3
<1> HIDE DEF h, S
<1>4. \A i, j \in 1..k : h[i] = h[j] => i = j
  BY <1>1
<1>5. h \in Bijection(1..k, S)
  BY <1>2, <1>3, <1>4 DEF Bijection, Injection, IsInjective, Surjection
<1>6. ExistsBijection(1..k, S)
  BY <1>5 DEF ExistsBijection
<1>7. Cardinality(S) = k
  BY <1>6, FS_CountingElements
<1>8. QED
  BY <1>7 DEF S

\* Formats numbered in order are loaded under the numbers they have.
LEMMA NumberedLoads ==
    ASSUME NEW fs, IsSeq(fs), \A i \in 1..Len(fs) : IsSeq(fs[i].dir),
           NEW m \in Nat, FormatsNumbered(fs, m)
    PROVE  /\ Cardinality(FormatPlaces(fs)) = m
           /\ SavedFormats(fs) = [k \in 1..m |-> k]
<1> DEFINE P == FormatPlaces(fs)
           id == [p \in P |-> fs[p[1]].dir[p[2]].id]
<1>1. DOMAIN fs = 1..Len(fs) /\ \A i \in DOMAIN fs : Srecs(fs[i].dir) \subseteq Nat
  BY DEF IsSeq, Srecs
<1>2. ASSUME NEW p \in P
      PROVE  /\ p = <<p[1], p[2]>> /\ p[1] \in DOMAIN fs /\ p[2] \in Srecs(fs[p[1]].dir)
             /\ p[1] \in Nat /\ p[2] \in Nat
  <2>1. PICK i \in DOMAIN fs : \E j \in Srecs(fs[i].dir) : p = <<i, j>>
    BY DEF FormatPlaces, Srecs
  <2>2. QED
    BY <1>1, <2>1
<1>3. ASSUME NEW i \in DOMAIN fs, NEW j \in Srecs(fs[i].dir)
      PROVE  <<i, j>> \in P
  BY DEF FormatPlaces, Srecs
<1> HIDE DEF P
<1>4. \A p \in P : id[p] \in 1..m
  BY <1>2 DEF FormatsNumbered
<1>5. ASSUME NEW k \in 1..m
      PROVE  \E p \in P : id[p] = k
  <2>1. PICK i \in DOMAIN fs : \E j \in Srecs(fs[i].dir) : fs[i].dir[j].id = k
    BY DEF FormatsNumbered
  <2>2. PICK j \in Srecs(fs[i].dir) : fs[i].dir[j].id = k
    BY <2>1
  <2>3. <<i, j>> \in P
    BY <1>3
  <2>4. QED
    BY <2>2, <2>3
<1>6. ASSUME NEW p \in P, NEW q \in P
      PROVE  /\ p = q \/ id[p] < id[q] \/ id[q] < id[p]
             /\ NotAfter(q, p) <=> id[q] <= id[p]
  <2> DEFINE Before(a, b) == a[1] < b[1] \/ (a[1] = b[1] /\ a[2] < b[2])
  <2>1. Before(p, q) => id[p] < id[q]
    BY <1>2 DEF FormatsNumbered
  <2>2. Before(q, p) => id[q] < id[p]
    BY <1>2 DEF FormatsNumbered
  <2>3. p = q \/ Before(p, q) \/ Before(q, p)
    BY <1>2
  <2>4. NotAfter(q, p) <=> p = q \/ Before(q, p)
    BY <1>2 DEF NotAfter
  <2>5. id[p] \in Nat /\ id[q] \in Nat
    BY <1>4
  <2>6. ~(Before(p, q) /\ Before(q, p)) /\ ~(p = q /\ Before(p, q))
    BY <1>2
  <2> HIDE DEF id, Before
  <2>7. QED
    BY <2>1, <2>2, <2>3, <2>4, <2>5, <2>6
<1>7. \A p \in P : fs[p[1]].dir[p[2]].id = id[p]
  OBVIOUS
<1> HIDE DEF id
<1>8. \A p, q \in P : id[p] = id[q] => p = q
  BY <1>4, <1>6
<1>9. \A k \in 0..m : Cardinality({p \in P : id[p] <= k}) = k
  <2>1. Counted(P, m, id)
    BY <1>4, <1>5, <1>8 DEF Counted
  <2>2. QED
    BY <2>1, RankIsNumber
<1>10. Cardinality(P) = m
  <2>1. P = {p \in P : id[p] <= m}
    BY <1>4
  <2>2. m \in 0..m
    OBVIOUS
  <2>3. QED
    BY <1>9, <2>1, <2>2
<1>11. ASSUME NEW p \in P
       PROVE  Cardinality({q \in P : NotAfter(q, p)}) = id[p]
  <2>1. {q \in P : NotAfter(q, p)} = {q \in P : id[q] <= id[p]}
    BY <1>6
  <2>2. id[p] \in 0..m
    BY <1>4
  <2>3. QED
    BY <1>9, <2>1, <2>2
<1> DEFINE place(k) == CHOOSE p \in P : Cardinality({q \in P : NotAfter(q, p)}) = k
<1>12. ASSUME NEW k \in 1..m
       PROVE  fs[place(k)[1]].dir[place(k)[2]].id = k
  <2>1. PICK p \in P : id[p] = k
    BY <1>5
  <2>2. \E x \in P : Cardinality({q \in P : NotAfter(q, x)}) = k
    BY <1>11, <2>1
  <2>3. place(k) \in P /\ Cardinality({q \in P : NotAfter(q, place(k))}) = k
    BY <2>2
  <2> HIDE DEF place
  <2>4. id[place(k)] = k
    BY <1>11, <2>3
  <2>5. QED
    BY <1>7, <2>3, <2>4
<1>13. SavedFormats(fs) = [k \in 1..Cardinality(P) |-> fs[place(k)[1]].dir[place(k)[2]].id]
  BY DEF SavedFormats, P
<1> HIDE DEF place
<1>14. QED
  BY <1>10, <1>12, <1>13 DEF P

\* mc_open finds the formats that were there.
LEMMA ReopenOrdered ==
    ASSUME FormatInv, Reopen
    PROVE  FormatInv'
<1> DEFINE qty == Cardinality(FormatPlaces(files))
           saved == [i \in 1..qty |-> "saved"]
           m == fam.commit_max
<1>1. IInv'
  BY ReopenGood DEF FormatInv
<1>2. /\ fam'.srecs = saved /\ fam'.commit_max = qty
      /\ files' = files /\ proc' = "open"
      /\ \A i \in DOMAIN files : files[i].commit_count > 0
  BY DEF Reopen, Loadable
<1>3. FormatsNumbered(files, m) /\ m \in Nat
  BY DEF FormatInv, Formatted, Now, IInv, Good, Shaped
<1>4. /\ IsSeq(files) /\ DOMAIN files = 1..Len(files)
      /\ \A i \in 1..Len(files) : IsSeq(files[i].dir)
  <2>1. DirsShaped(fam.directory) /\ FilesMatch(files, fam.directory)
    BY DEF FormatInv, IInv, Good, Shaped, Now
  <2>2. IsSeq(files) /\ Len(files) = Len(fam.directory) /\ DOMAIN files = 1..Len(files)
    BY <2>1 DEF FilesMatch, IsSeq
  <2>3. \A i \in 1..Len(files) : files[i].dir = fam.directory[i].entries
    BY <1>2, <2>1, <2>2 DEF FilesMatch
  <2>4. QED
    BY <2>1, <2>2, <2>3 DEF DirsShaped
<1> HIDE DEF qty
<1>5. qty = m
  BY <1>3, <1>4, NumberedLoads DEF qty
<1>6. Len(saved) = m /\ \A i \in 1..m : saved[i] = "saved"
  <2>1. saved = [k \in 1..qty |-> saved[k]]
    OBVIOUS
  <2>2. \A i \in 1..qty : saved[i] = "saved"
    OBVIOUS
  <2> HIDE DEF saved
  <2>3. Len(saved) = qty
    BY <1>3, <1>5, <2>1, FunctionSeq
  <2>4. QED
    BY <1>5, <2>2, <2>3
<1> HIDE DEF saved
<1>7. FormatStatuses(fam'.srecs, fam'.commit_max, fam'.non_state_ready)
  BY <1>2, <1>3, <1>5, <1>6 DEF FormatStatuses
<1>8. ~Uncommitted(Now')
  <2>1. DirsShaped(fam'.directory) /\ FilesMatch(files', fam'.directory)
    BY <1>1 DEF IInv, Good, Shaped, Now
  <2>2. Len(fam'.directory) \in 1..Len(files) /\ Len(files) = Len(fam'.directory)
    BY <1>2, <2>1 DEF DirsShaped, FilesMatch, IsSeq
  <2>3. fam'.directory[Len(fam'.directory)].commit_count > 0
    BY <1>2, <1>4, <2>1, <2>2 DEF FilesMatch
  <2>4. QED
    BY <2>3 DEF Uncommitted, LastDir, file_count, Now
<1>9. Formatted(Now')
  <2>1. Now'.files = files' /\ Now'.fam = fam'
    BY DEF Now
  <2>2. QED
    BY <1>2, <1>3, <1>5, <1>7, <1>8, <2>1 DEF Formatted, NoneYet
<1>10. QED
  BY <1>1, <1>2, <1>9 DEF FormatInv

\* create_family makes no format.
LEMMA InitOrdered ==
    ASSUME Init
    PROVE  FormatInv
<1> DEFINE e == [kind |-> "param", name |-> FirstParam, id |-> 0, offset |-> 1, length |-> 1]
           d == [FileDir EXCEPT !.entries = <<e>>]
           f == File(<<1, 2>>)
<1>1. IInv
  BY InitGood
<1>2. /\ files = <<f>> /\ fam.directory = <<d>> /\ fam.srecs = Empty /\ fam.commit_max = 0
      /\ proc = "open"
  BY DEF Init
<1>3. f.dir = Empty /\ d.entries = <<e>> /\ e.kind = "param"
  BY DEF File, FileDir
<1> HIDE DEF e, d, f
<1>4. Srecs(<<e>>) = {} /\ Srecs(Empty) = {}
  <2>1. DOMAIN <<e>> = {1} /\ <<e>>[1] = e
    OBVIOUS
  <2>2. QED
    BY <1>3, <2>1, NoSrecs DEF Srecs
<1>5. /\ DOMAIN files = {1} /\ files[1].dir = Empty /\ Len(fam.directory) = 1
      /\ fam.directory[1].entries = <<e>>
  BY <1>2, <1>3
<1>6. FormatsNumbered(files, 0)
  BY <1>4, <1>5 DEF FormatsNumbered
<1>7. FormatStatuses(fam.srecs, 0, fam.non_state_ready)
  BY <1>2 DEF FormatStatuses, Empty
<1>8. Formatted(Now)
  BY <1>2, <1>4, <1>5, <1>6, <1>7 DEF Formatted, Now, NoneYet, LastDir, file_count
<1>9. QED
  BY <1>1, <1>2, <1>8 DEF FormatInv

\* Each call keeps the formats in order.
LEMMA NextOrdered ==
    ASSUME TimelyUse, FormatInv, [Next]_vars
    PROVE  FormatInv'
<1>1. CASE \/ \E n \in Scalars \cup Strings, len \in Sizes : WriteParam(n, len)
           \/ \E n \in Arrays, len \in Sizes : WriteArray(n, len)
           \/ \E n \in Names : ReadParam(n)
           \/ DefMesh \/ Flush \/ SuffixWidth \/ Close
  BY <1>1, WritesOrdered
<1>2. CASE DefSvars
  BY <1>2, DefSvarsOrdered
<1>3. CASE OpenSrec
  BY <1>3, OpenSrecOrdered
<1>4. CASE \E i \in DOMAIN fam.srecs : DefSubrec(i) \/ CloseSrec(i)
  BY <1>4, DefSubrecOrdered, CloseSrecOrdered
<1>5. CASE Crash
  <2>1. IInv'
    BY <1>5, CrashGood DEF FormatInv
  <2>2. files' = files /\ fam' = fam /\ proc' = "dead"
    BY <1>5 DEF Crash
  <2>3. Now'.files = Now.files /\ Now'.fam = Now.fam
    BY <2>2 DEF Now
  <2>4. QED
    BY <2>1, <2>2, <2>3
       DEF FormatInv, Formatted, NoneYet, Uncommitted, LastDir, file_count
<1>6. CASE Reopen
  BY <1>6, ReopenOrdered
<1>7. CASE UNCHANGED vars
  <2>1. IInv'
    BY <1>7, NextGood DEF FormatInv, TimelyUse
  <2>2. files' = files /\ fam' = fam /\ proc' = proc
    BY <1>7 DEF vars
  <2>3. Now'.files = Now.files /\ Now'.fam = Now.fam
    BY <2>2 DEF Now
  <2>4. QED
    BY <2>1, <2>2, <2>3
       DEF FormatInv, Formatted, NoneYet, Uncommitted, LastDir, file_count, AllWritten
<1>8. QED
  BY <1>1, <1>2, <1>3, <1>4, <1>5, <1>6, <1>7 DEF Next

\* Formats in order, and none left behind, are what the files are loaded as.
LEMMA OrderedSaved ==
    ASSUME FormatInv
    PROVE  FormatsSaved
<1> DEFINE m == fam.commit_max
           saved == SavedFormats(files)
<1>1. m \in Nat /\ FormatsNumbered(files, m) /\ proc # "overflow"
  BY DEF FormatInv, Formatted, Now, IInv, Good, Shaped
<1>2. IsSeq(files) /\ \A i \in 1..Len(files) : IsSeq(files[i].dir)
  <2>1. /\ DirsShaped(fam.directory) /\ FilesMatch(files, fam.directory)
        /\ InOrder(fam.directory, fam.commit_count) /\ NoneYet(Now)
    BY DEF FormatInv, IInv, Good, Shaped, Now, Formatted
  <2> DEFINE n == Len(fam.directory)
  <2>2. IsSeq(files) /\ Len(files) = n /\ n \in Nat /\ n >= 1
    BY <2>1 DEF FilesMatch, DirsShaped
  <2>3. ASSUME NEW i \in 1..n
        PROVE  IsSeq(files[i].dir)
    <3>1. CASE fam.directory[i].commit_count > 0
      BY <2>1, <3>1 DEF FilesMatch, DirsShaped
    <3>2. CASE ~(fam.directory[i].commit_count > 0)
      <4>1. i = n /\ fam.directory[n].commit_count = 0
        BY <2>1, <2>2, <3>2 DEF InOrder, DirsShaped
      <4>2. files[n].dir = Empty
        BY <2>1, <4>1 DEF NoneYet, Uncommitted, LastDir, file_count, Now
      <4>3. QED
        BY <4>1, <4>2, NoElements
    <3>3. QED
      BY <3>1, <3>2
  <2>4. QED
    BY <2>2, <2>3
<1>3. saved = [k \in 1..m |-> k]
  BY <1>1, <1>2, NumberedLoads
<1>4. /\ DOMAIN fam.srecs = 1..Len(fam.srecs)
      /\ proc = "closed" => \A i \in DOMAIN fam.srecs : i \in 1..m
  <2>1. DOMAIN fam.srecs = 1..Len(fam.srecs)
    BY DEF FormatInv, IInv, Good, Shaped, Now, IsSeq
  <2>2. QED
    BY <1>1, <2>1 DEF FormatInv, AllWritten
<1> HIDE DEF saved, m
<1>5. DOMAIN saved = 1..m /\ \A k \in 1..m : saved[k] = k
  BY <1>3
<1>6. ASSUME NEW i \in 1..m
      PROVE  Cardinality({k \in DOMAIN saved : saved[k] = i}) = 1
  <2>1. {k \in DOMAIN saved : saved[k] = i} = {i}
    BY <1>5
  <2>2. QED
    BY <2>1, FS_Singleton
<1>7. QED
  BY <1>1, <1>4, <1>5, <1>6 DEF FormatsSaved, saved

(***************************************************************************)
(* Every format that was closed is in the files once the family is closed, *)
(* and all that are there have the numbers under which load_srec_formats   *)
(* loads them, for an application that closes each format it opens, with   *)
(* something in it, before its next call, while an uncommitted file is     *)
(* open.  (For one that does not the run NonState_LateFormat shows a       *)
(* format lost.)                                                           *)
(***************************************************************************)
THEOREM FormatsAreSaved == TimelyUse => (Spec => []FormatsSaved)
<1> SUFFICES ASSUME TimelyUse
             PROVE  Spec => []FormatsSaved
  OBVIOUS
<1>1. Init => FormatInv
  BY InitOrdered
<1>2. FormatInv /\ [Next]_vars => FormatInv'
  BY NextOrdered
<1>3. FormatInv => FormatsSaved
  BY OrderedSaved
<1>4. QED
  BY <1>1, <1>2, <1>3, PTL DEF Spec

=============================================================================
