--------------------------- MODULE StateLogProofs ---------------------------
(***************************************************************************)
(* Proofs about StateLog.                                                  *)
(***************************************************************************)
EXTENDS StateLog, SequenceTheorems, FiniteSetTheorems, TLAPS

\* States are in the order of their files; a state at offset 0 is the first of
\* the file after its predecessor's, every other is in its predecessor's file.
Ordered(map) ==
    \A i \in 1..Len(map) :
        /\ \A j \in 1..i : map[j].file <= map[i].file
        /\ map[i].offset = 0 => \A j \in 1..i - 1 : map[j].file < map[i].file
        /\ i > 1 => map[i].file = map[i - 1].file + (IF map[i].offset = 0 THEN 1 ELSE 0)

IsPrefixOf(p, q) == Len(p) <= Len(q) /\ \A i \in 1..Len(p) : p[i] = q[i]

\* How far the map on disk has followed the one in memory.
MapInv ==
    /\ ~open => call = "none" /\ tbuf = Empty
    /\ ~write_tfile \/ call = "close" => tbuf = Empty
    /\ Len(tbuf) <= 1
    /\ open => IsPrefixOf(FlushedMap, state_map)
    /\ open /\ call = "none" /\ state_closed => Len(FlushedMap) = state_qty
    /\ open /\ call = "none" /\ ~state_closed /\ state_qty > 0 => Len(FlushedMap) = state_qty - 1
    /\ call \in {"unlink", "cut_map", "end_map"} => state_closed /\ target < state_qty
    /\ call \in {"unlink", "cut_map"} => Len(FlushedMap) = state_qty
    /\ call = "end_map" => Len(FlushedMap) = target
    /\ todo # {} => open /\ call = "none" /\ state_qty > 0

OrderInv == Ordered(state_map) /\ Ordered(dmap)

\* The files on disk and the counts of them.
FileInv ==
    /\ ~open => \A g \in DOMAIN dfile : \A i \in 1..Len(dmap) :
                    g <= dmap[i].file => 0..g \subseteq DOMAIN dfile
    /\ open => /\ \A i \in 1..state_qty : state_map[i].file < Len(file_map)
               /\ Len(file_map) > 0 =>
                     state_qty > 0 /\ state_map[state_qty].file = Len(file_map) - 1
               /\ \A g \in DOMAIN dfile : g < Len(file_map) => 0..g \subseteq DOMAIN dfile
    /\ open /\ call \in {"none", "close"} =>
            /\ st_file_count = Len(file_map)
            /\ 0..st_file_count - 1 \subseteq DOMAIN dfile
            /\ cur_st_index \in {NoFile, st_file_count - 1}
            /\ cur_st_index # NoFile => file_st_qty = file_map[st_file_count]
    /\ call = "unlink" =>
            /\ st_file_count = Len(file_map)
            /\ 0..TargetFile \subseteq DOMAIN dfile
            /\ cur_st_index = NoFile
    /\ call \in {"cut_map", "end_map"} =>
            /\ target = 0 => cur_st_index = NoFile
            /\ target > 0 => /\ st_file_count = state_map[target].file + 1
                             /\ 0..st_file_count - 1 \subseteq DOMAIN dfile
                             /\ cur_st_index \in {NoFile, st_file_count - 1}

CountInv ==
    open => \A f \in 1..Len(file_map) : file_map[f] = StatesIn(state_map, f - 1)

IInv == TypeOK /\ MapInv /\ OrderInv /\ FileInv /\ CountInv

-----------------------------------------------------------------------------
(***************************************************************************)
(* Lemmas about the operators of StateLog                                  *)
(***************************************************************************)
LEMMA FirstElement ==
    ASSUME NEW S, NEW q \in Seq(S), q # << >>
    PROVE  Len(q) >= 1 /\ q[1] \in S
BY EmptySeq, LenProperties, ElementOfSeq

LEMMA TruncatedType ==
    ASSUME NEW file \in Seq(Nat), NEW len \in Nat
    PROVE  Truncated(file, len) \in Seq(Nat) /\ Len(Truncated(file, len)) = len
<1>1. \A u \in 1..len : (IF u <= Len(file) THEN file[u] ELSE 0) \in Nat
  BY ElementOfSeq, LenProperties
<1>. QED
  BY <1>1 DEF Truncated

LEMMA PutType ==
    ASSUME NEW file \in Seq(Nat), NEW w \in [at : Nat, time : Nat]
    PROVE  Put(file, w) \in Seq(Nat)
<1>. DEFINE len == IF w.at < Len(file) THEN Len(file) ELSE w.at + 1
<1>1. len \in Nat
  BY LenProperties
<1>2. Truncated(file, len) \in Seq(Nat)
  BY <1>1, TruncatedType
<1>3. [Truncated(file, len) EXCEPT ![w.at + 1] = w.time] \in Seq(Nat)
  <2>1. w.time \in Nat /\ w.at + 1 \in Nat
    OBVIOUS
  <2>. DEFINE g == Truncated(file, len)
              h == [g EXCEPT ![w.at + 1] = w.time]
  <2>2. g \in [1..Len(g) -> Nat] /\ Len(g) \in Nat
    BY <1>2, LenProperties
  <2>. HIDE DEF g
  <2>3. h \in [1..Len(g) -> Nat]
    BY <2>1, <2>2
  <2>. QED
    BY <2>2, <2>3 DEF g
<1>. QED
  BY <1>3 DEF Put

\* Flushing changes the contents of files, not which files there are.
LEMMA FlushedType ==
    ASSUME TypeOK
    PROVE  /\ DOMAIN Flushed = DOMAIN dfile
           /\ \A f \in DOMAIN dfile : Flushed[f] \in Seq(Nat)
<1>1. CASE cur_st_index = NoFile \/ sbuf = Empty
  BY <1>1 DEF TypeOK, FilesTyped, Flushed
<1>2. CASE ~(cur_st_index = NoFile \/ sbuf = Empty)
  <2>1. sbuf[1] \in [at : Nat, time : Nat]
    BY <1>2, FirstElement DEF TypeOK, FilesTyped, Empty
  <2>2. \A f \in DOMAIN dfile : Put(dfile[f], sbuf[1]) \in Seq(Nat)
    BY <2>1, PutType DEF TypeOK, FilesTyped
  <2>. HIDE DEF Put
  <2>. QED
    BY <1>2, <2>2 DEF TypeOK, FilesTyped, Flushed
<1>. QED
  BY <1>1, <1>2

LEMMA FlushedMapType ==
    ASSUME TypeOK
    PROVE  FlushedMap \in Seq(Descriptor) /\ Len(FlushedMap) = Len(dmap) + Len(tbuf)
BY ConcatProperties DEF TypeOK, MapsTyped, FlushedMap

LEMMA PrefixOrdered ==
    ASSUME NEW p \in Seq(Descriptor), NEW q \in Seq(Descriptor),
           IsPrefixOf(p, q), Ordered(q)
    PROVE  Ordered(p)
<1>1. Len(p) \in Nat /\ Len(q) \in Nat /\ Len(p) <= Len(q)
  BY LenProperties DEF IsPrefixOf
<1>2. \A i \in 1..Len(p) : p[i] = q[i]
  BY DEF IsPrefixOf
<1>. SUFFICES ASSUME NEW i \in 1..Len(p)
              PROVE  /\ \A j \in 1..i : p[j].file <= p[i].file
                     /\ p[i].offset = 0 => \A j \in 1..i - 1 : p[j].file < p[i].file
                     /\ i > 1 => p[i].file = p[i - 1].file + (IF p[i].offset = 0 THEN 1 ELSE 0)
  BY DEF Ordered
<1>3. i \in 1..Len(q) /\ \A j \in 1..i : p[j] = q[j]
  BY <1>1, <1>2
<1>4. \A j \in 1..i : p[j].file <= p[i].file
  BY <1>3 DEF Ordered
<1>5. p[i].offset = 0 => \A j \in 1..i - 1 : p[j].file < p[i].file
  BY <1>3 DEF Ordered
<1>6. i > 1 => p[i].file = p[i - 1].file + (IF p[i].offset = 0 THEN 1 ELSE 0)
  BY <1>3 DEF Ordered
<1>. QED
  BY <1>4, <1>5, <1>6

LEMMA StatesInSet ==
    ASSUME NEW map \in Seq(Descriptor), NEW f
    PROVE  /\ IsFiniteSet({i \in 1..Len(map) : map[i].file = f})
           /\ StatesIn(map, f) \in Nat
<1>1. IsFiniteSet(1..Len(map))
  BY FS_Interval, LenProperties
<1>2. IsFiniteSet({i \in 1..Len(map) : map[i].file = f})
  BY <1>1, FS_Subset
<1>. QED
  BY <1>2, FS_CardinalityType DEF StatesIn

LEMMA StatesInAppend ==
    ASSUME NEW map \in Seq(Descriptor), NEW d \in Descriptor, NEW f
    PROVE  StatesIn(Append(map, d), f) =
               StatesIn(map, f) + (IF d.file = f THEN 1 ELSE 0)
<1>. DEFINE S == {i \in 1..Len(map) : map[i].file = f}
            T == {i \in 1..Len(Append(map, d)) : Append(map, d)[i].file = f}
            n == Len(map) + 1
<1>1. IsFiniteSet(S) /\ Cardinality(S) \in Nat
  BY StatesInSet DEF StatesIn
<1>2. T = IF d.file = f THEN S \cup {n} ELSE S
  BY AppendProperties, LenProperties
<1>3. n \notin S
  BY LenProperties
<1>4. Cardinality(S \cup {n}) = Cardinality(S) + 1
  BY <1>1, <1>3, FS_AddElement
<1>5. StatesIn(map, f) = Cardinality(S) /\ StatesIn(Append(map, d), f) = Cardinality(T)
  BY DEF StatesIn
<1>. HIDE DEF S, T
<1>. QED
  BY <1>1, <1>2, <1>4, <1>5

\* The states of a file are all in a prefix that reaches beyond that file.
LEMMA StatesInPrefix ==
    ASSUME NEW map \in Seq(Descriptor), NEW n \in 1..Len(map), NEW f,
           \A i \in n + 1..Len(map) : map[i].file # f
    PROVE  StatesIn(SubSeq(map, 1, n), f) = StatesIn(map, f)
<1>1. SubSeq(map, 1, n) \in Seq(Descriptor) /\ Len(SubSeq(map, 1, n)) = n
      /\ \A i \in 1..n : SubSeq(map, 1, n)[i] = map[i]
  BY LenProperties, SubSeqProperties
<1>2. {i \in 1..Len(SubSeq(map, 1, n)) : SubSeq(map, 1, n)[i].file = f}
      = {i \in 1..Len(map) : map[i].file = f}
  BY <1>1, LenProperties
<1>. QED
  BY <1>2 DEF StatesIn

LEMMA StatesInEmpty == \A f : StatesIn(<< >>, f) = 0
BY FS_EmptySet DEF StatesIn

-----------------------------------------------------------------------------
(***************************************************************************)
(* The parts of the invariant under steps that leave their state alone     *)
(***************************************************************************)
LEMMA MapKept ==
    ASSUME MapInv, UNCHANGED <<dmap, tbuf, state_map, open, call, state_closed, target>>,
           todo' \subseteq todo
    PROVE  MapInv'
BY DEF MapInv, FlushedMap, state_qty, IsPrefixOf

LEMMA OrderKept ==
    ASSUME OrderInv, UNCHANGED <<state_map, dmap>>
    PROVE  OrderInv'
BY DEF OrderInv, Ordered

LEMMA CountKept ==
    ASSUME CountInv, UNCHANGED <<open, state_map, file_map>>
    PROVE  CountInv'
BY DEF CountInv

LEMMA FileKept ==
    ASSUME FileInv, DOMAIN dfile' = DOMAIN dfile,
           UNCHANGED <<open, dmap, state_map, file_map, st_file_count, file_st_qty,
                       call, target>>,
           cur_st_index' \in {cur_st_index, NoFile}
    PROVE  FileInv'
BY DEF FileInv, state_qty, TargetFile

\* What a step that flushes the state file leaves behind is well typed.
LEMMA FlushTyped ==
    ASSUME TypeOK, dfile' = Flushed, sbuf' = Empty
    PROVE  FilesTyped' /\ DOMAIN dfile' = DOMAIN dfile
<1>1. sbuf' \in Seq([at : Nat, time : Nat])
  BY EmptySeq DEF Empty
<1>2. DOMAIN dfile' = DOMAIN dfile /\ \A f \in DOMAIN dfile : dfile'[f] \in Seq(Nat)
  BY FlushedType
<1>. QED
  BY <1>1, <1>2 DEF TypeOK, FilesTyped

\* The same for a step that then writes one unit.
LEMMA WriteTyped ==
    ASSUME TypeOK, dfile' = Flushed, NEW w \in [at : Nat, time : Nat], sbuf' = <<w>>
    PROVE  FilesTyped' /\ DOMAIN dfile' = DOMAIN dfile
<1>1. sbuf' \in Seq([at : Nat, time : Nat])
  OBVIOUS
<1>2. DOMAIN dfile' = DOMAIN dfile /\ \A f \in DOMAIN dfile : dfile'[f] \in Seq(Nat)
  BY FlushedType
<1>. QED
  BY <1>1, <1>2 DEF TypeOK, FilesTyped

-----------------------------------------------------------------------------
(***************************************************************************)
(* The invariant holds at the start                                        *)
(***************************************************************************)
THEOREM InitInv ==
    ASSUME Init
    PROVE  IInv
<1>. USE DEF Init, Empty, NoFile
<1>1. TypeOK
  <2>1. FilesTyped
    BY EmptySeq DEF FilesTyped
  <2>2. MapsTyped
    BY EmptySeq DEF MapsTyped
  <2>3. CountsTyped
    BY SrecAssumption, LimitAssumption, EmptySeq DEF CountsTyped
  <2>4. FlagsTyped
    BY ModeAssumption DEF FlagsTyped
  <2>5. CallTyped
    BY ModeAssumption DEF CallTyped
  <2>. QED
    BY <2>1, <2>2, <2>3, <2>4, <2>5 DEF TypeOK
<1>2. MapInv
  BY DEF MapInv, FlushedMap, state_qty, IsPrefixOf
<1>3. OrderInv
  BY DEF OrderInv, Ordered
<1>4. FileInv
  BY DEF FileInv, state_qty
<1>5. CountInv
  BY DEF CountInv
<1>. QED
  BY <1>1, <1>2, <1>3, <1>4, <1>5 DEF IInv

-----------------------------------------------------------------------------
(***************************************************************************)
(* The steps that write into state files and leave both maps alone         *)
(***************************************************************************)
LEMMA DescriptorFields ==
    ASSUME TypeOK, NEW i \in 1..state_qty
    PROVE  /\ state_map[i] \in Descriptor
           /\ state_map[i].file \in Nat /\ state_map[i].offset \in Nat
           /\ state_map[i].time \in Nat \ {0} /\ state_map[i].srec \in Srecs
<1>1. state_map[i] \in Descriptor
  BY ElementOfSeq DEF TypeOK, MapsTyped, state_qty
<1>. QED
  BY <1>1 DEF Descriptor

LEMMA WriteSubrecInv ==
    ASSUME IInv, NEW k \in todo, WriteSubrec(k)
    PROVE  IInv'
<1>. USE DEF IInv
<1>1. TypeOK'
  <2>1. state_qty \in 1..state_qty
    <3>1. state_qty \in Nat
      BY LenProperties DEF TypeOK, MapsTyped, state_qty
    <3>. QED
      BY <3>1 DEF MapInv
  <2>. DEFINE w == [at |-> state_map[state_qty].offset + HDR + k - 1,
                    time |-> state_map[state_qty].time]
  <2>2. w \in [at : Nat, time : Nat]
    BY <2>1, DescriptorFields DEF TypeOK, CallTyped, HDR
  <2>3. dfile' = Flushed /\ sbuf' = <<w>>
    BY DEF WriteSubrec
  <2>4. FilesTyped'
    BY <2>2, <2>3, WriteTyped
  <2>5. MapsTyped' /\ FlagsTyped'
    BY DEF TypeOK, MapsTyped, FlagsTyped, WriteSubrec, flags
  <2>6. CountsTyped' /\ CallTyped'
    BY DEF TypeOK, CountsTyped, CallTyped, WriteSubrec, caller
  <2>. QED
    BY <2>4, <2>5, <2>6 DEF TypeOK
<1>2. MapInv'
  BY MapKept DEF WriteSubrec, flags, caller
<1>3. OrderInv' /\ CountInv'
  BY OrderKept, CountKept DEF WriteSubrec
<1>4. FileInv'
  BY FlushedType, FileKept DEF WriteSubrec, caller
<1>. QED
  BY <1>1, <1>2, <1>3, <1>4

LEMMA RewriteSubrecInv ==
    ASSUME IInv, NEW i \in 1..state_qty, NEW k \in 1..SrecSize[state_map[i].srec],
           RewriteSubrec(i, k)
    PROVE  IInv'
<1>. USE DEF IInv
<1>1. TypeOK'
  <2>. DEFINE w == [at |-> state_map[i].offset + HDR + k - 1, time |-> state_map[i].time]
  <2>1. w \in [at : Nat, time : Nat]
    BY DescriptorFields, SrecAssumption DEF HDR
  <2>2. dfile' = Flushed /\ sbuf' = <<w>>
    BY DEF RewriteSubrec
  <2>3. FilesTyped'
    BY <2>1, <2>2, WriteTyped
  <2>4. MapsTyped' /\ FlagsTyped'
    BY DEF TypeOK, MapsTyped, FlagsTyped, RewriteSubrec, flags
  <2>5. CountsTyped' /\ CallTyped'
    BY DEF TypeOK, CountsTyped, CallTyped, RewriteSubrec, caller, files
  <2>. QED
    BY <2>3, <2>4, <2>5 DEF TypeOK
<1>2. MapInv'
  BY MapKept DEF RewriteSubrec, flags, caller
<1>3. OrderInv' /\ CountInv'
  BY OrderKept, CountKept DEF RewriteSubrec, files
<1>4. FileInv'
  BY FlushedType, FileKept DEF RewriteSubrec, caller, files
<1>. QED
  BY <1>1, <1>2, <1>3, <1>4

\* mc_partition_state_data, and mc_restart_at_file for the next file.
LEMMA CloseStateFileInv ==
    ASSUME IInv, StateFileClose,
           UNCHANGED <<dmap, dtrailer, dlimit, open, state_map, file_map, st_file_count,
                       file_st_qty, cur_st_file_size, cur_srec_id, states_per_file, flags,
                       tbuf, caller, todo, clock>>
    PROVE  IInv'
<1>. USE DEF IInv
<1>1. TypeOK'
  <2>1. FilesTyped'
    BY FlushTyped DEF StateFileClose
  <2>2. MapsTyped' /\ FlagsTyped'
    BY DEF TypeOK, MapsTyped, FlagsTyped, flags
  <2>3. CountsTyped' /\ CallTyped'
    BY DEF TypeOK, CountsTyped, CallTyped, StateFileClose, caller
  <2>. QED
    BY <2>1, <2>2, <2>3 DEF TypeOK
<1>2. MapInv'
  BY MapKept DEF flags, caller
<1>3. OrderInv' /\ CountInv'
  BY OrderKept, CountKept
<1>4. FileInv'
  BY FlushedType, FileKept DEF StateFileClose, caller
<1>. QED
  BY <1>1, <1>2, <1>3, <1>4

LEMMA LimitStatesInv ==
    ASSUME IInv, NEW n \in Limits, LimitStates(n)
    PROVE  IInv'
<1>. USE DEF IInv
<1>1. TypeOK'
  <2>1. FilesTyped' /\ MapsTyped' /\ FlagsTyped'
    BY DEF TypeOK, FilesTyped, MapsTyped, FlagsTyped, LimitStates, flags, stdio
  <2>2. CountsTyped' /\ CallTyped'
    BY LimitAssumption DEF TypeOK, CountsTyped, CallTyped, LimitStates, caller, files
  <2>. QED
    BY <2>1, <2>2 DEF TypeOK
<1>2. MapInv'
  BY MapKept DEF LimitStates, flags, caller, stdio
<1>3. OrderInv' /\ CountInv'
  BY OrderKept, CountKept DEF LimitStates, files
<1>4. FileInv'
  BY FileKept DEF LimitStates, caller, files
<1>. QED
  BY <1>1, <1>2, <1>3, <1>4

-----------------------------------------------------------------------------
(***************************************************************************)
(* mc_new_state and mc_end_state: what goes into the map on disk           *)
(***************************************************************************)
LEMMA UpdateStaticMapAppends ==
    ASSUME TypeOK, MapInv, NEW d \in Descriptor, UpdateStaticMap(d)
    PROVE  /\ dmap' \in Seq(Descriptor) /\ tbuf' \in Seq(Descriptor)
           /\ FlushedMap' = Append(FlushedMap, d)
           /\ ~write_tfile => tbuf' = Empty
           /\ Len(tbuf') <= 1
           /\ dtrailer' \in BOOLEAN
<1>1. dmap \in Seq(Descriptor) /\ FlushedMap \in Seq(Descriptor)
  BY FlushedMapType DEF TypeOK, MapsTyped
<1>2. CASE write_tfile
  <2>1. dmap' = FlushedMap /\ tbuf' = <<d>> /\ dtrailer' = FlushedTrailer
    BY <1>2 DEF UpdateStaticMap
  <2>2. FlushedMap' = FlushedMap \o <<d>>
    BY <2>1 DEF FlushedMap
  <2>3. FlushedMap \o <<d>> = Append(FlushedMap, d)
    BY <1>1, AppendIsConcat
  <2>4. FlushedTrailer \in BOOLEAN
    BY DEF TypeOK, FlagsTyped, FlushedTrailer
  <2>. QED
    BY <1>1, <1>2, <2>1, <2>2, <2>3, <2>4
<1>3. CASE ~write_tfile
  <2>1. dmap' = Append(dmap, d) /\ dtrailer' = dtrailer /\ tbuf' = tbuf /\ tbuf = << >>
    BY <1>3 DEF UpdateStaticMap, MapInv, Empty
  <2>2. dmap' \in Seq(Descriptor)
    BY <1>1, <2>1, AppendProperties
  <2>3. FlushedMap = dmap /\ FlushedMap' = dmap'
    BY <1>1, <2>1, <2>2, ConcatEmptySeq DEF FlushedMap
  <2>4. dtrailer \in BOOLEAN
    BY DEF TypeOK, FlagsTyped
  <2>. QED
    BY <2>1, <2>2, <2>3, <2>4, EmptySeq DEF Empty
<1>. QED
  BY <1>2, <1>3

LEMMA CloseLastStateMap ==
    ASSUME TypeOK, MapInv, Idle, CloseLastState
    PROVE  /\ dmap' \in Seq(Descriptor) /\ tbuf' \in Seq(Descriptor)
           /\ FlushedMap' \in Seq(Descriptor)
           /\ FlushedMap' = IF ~state_closed /\ state_qty > 0
                            THEN Append(FlushedMap, state_map[state_qty])
                            ELSE FlushedMap
           /\ IsPrefixOf(FlushedMap', state_map)
           /\ Len(FlushedMap') = state_qty
           /\ ~write_tfile => tbuf' = Empty
           /\ Len(tbuf') <= 1
           /\ dtrailer' \in BOOLEAN
<1>1. FlushedMap \in Seq(Descriptor) /\ Len(FlushedMap) \in Nat /\ state_qty \in Nat
  BY FlushedMapType, LenProperties DEF TypeOK, MapsTyped, state_qty
<1>2. open /\ call = "none" /\ IsPrefixOf(FlushedMap, state_map)
  BY DEF Idle, MapInv
<1>3. CASE ~state_closed /\ state_qty > 0
  <2>. DEFINE d == state_map[state_qty]
  <2>1. d \in Descriptor
    BY <1>1, <1>3, DescriptorFields
  <2>2. UpdateStaticMap(d)
    BY <1>3 DEF CloseLastState
  <2>3. FlushedMap' = Append(FlushedMap, d)
    BY <2>1, <2>2, UpdateStaticMapAppends
  <2>4. Len(FlushedMap) = state_qty - 1
    BY <1>2, <1>3 DEF MapInv
  <2>5. /\ FlushedMap' \in Seq(Descriptor) /\ Len(FlushedMap') = state_qty
        /\ \A i \in 1..state_qty - 1 : FlushedMap'[i] = FlushedMap[i]
        /\ FlushedMap'[state_qty] = state_map[state_qty]
    BY <1>1, <2>1, <2>3, <2>4, AppendProperties
  <2>6. IsPrefixOf(FlushedMap', state_map)
    BY <1>1, <1>2, <2>4, <2>5 DEF IsPrefixOf, state_qty
  <2>. QED
    BY <1>3, <2>1, <2>2, <2>3, <2>5, <2>6, UpdateStaticMapAppends
<1>4. CASE ~(~state_closed /\ state_qty > 0)
  <2>1. UNCHANGED <<dmap, dtrailer, tbuf>>
    BY <1>4 DEF CloseLastState, KeepMap
  <2>2. FlushedMap' = FlushedMap
    BY <2>1 DEF FlushedMap
  <2>3. Len(FlushedMap) = state_qty
    BY <1>1, <1>2, <1>4 DEF MapInv, IsPrefixOf, state_qty
  <2>4. dmap' \in Seq(Descriptor) /\ tbuf' \in Seq(Descriptor)
    BY <2>1 DEF TypeOK, MapsTyped
  <2>5. dtrailer' \in BOOLEAN
    BY <2>1 DEF TypeOK, FlagsTyped
  <2>6. (~write_tfile => tbuf' = Empty) /\ Len(tbuf') <= 1
    BY <2>1 DEF MapInv
  <2>. QED
    BY <1>1, <1>2, <1>4, <2>2, <2>3, <2>4, <2>5, <2>6
<1>. QED
  BY <1>3, <1>4

LEMMA EndStateInv ==
    ASSUME IInv, EndState
    PROVE  IInv'
<1>. USE DEF IInv
<1>1. Idle /\ CloseLastState /\ state_qty \in Nat /\ state_qty > 0
  BY LenProperties DEF EndState, TypeOK, MapsTyped, state_qty
<1>2. /\ open /\ call = "none" /\ st_file_count = Len(file_map)
      /\ st_file_count \in 1..Len(file_map)
      /\ st_file_count - 1 \in DOMAIN dfile
  <2>1. open /\ call = "none"
    BY <1>1 DEF Idle
  <2>2. st_file_count \in Nat /\ Len(file_map) \in Nat
    BY LenProperties DEF TypeOK, CountsTyped
  <2>3. state_map[state_qty].file < Len(file_map) /\ state_map[state_qty].file \in Nat
    BY <1>1, <2>1, DescriptorFields DEF FileInv
  <2>4. st_file_count = Len(file_map) /\ 0..st_file_count - 1 \subseteq DOMAIN dfile
    BY <2>1 DEF FileInv
  <2>. QED
    BY <2>1, <2>2, <2>3, <2>4
<1>3. TypeOK'
  <2>1. FilesTyped'
    BY FlushTyped DEF EndState, FlushStateFile
  <2>2. MapsTyped'
    BY <1>1, CloseLastStateMap DEF EndState, TypeOK, MapsTyped
  <2>3. CountsTyped'
    <3>1. Len(dfile[st_file_count - 1]) \in Nat
      BY <1>2, LenProperties DEF TypeOK, FilesTyped
    <3>2. file_map[st_file_count] \in Nat
      BY <1>2, ElementOfSeq DEF TypeOK, CountsTyped
    <3>3. st_file_count - 1 \in Nat
      BY <1>2, LenProperties DEF TypeOK, CountsTyped
    <3>. QED
      BY <3>1, <3>2, <3>3 DEF EndState, TypeOK, CountsTyped
  <2>4. FlagsTyped'
    <3>1. dtrailer' \in BOOLEAN
      BY <1>1, CloseLastStateMap
    <3>. QED
      BY <3>1 DEF EndState, TypeOK, FlagsTyped
  <2>5. CallTyped'
    BY DEF EndState, TypeOK, CallTyped, caller
  <2>. QED
    BY <2>1, <2>2, <2>3, <2>4, <2>5 DEF TypeOK
<1>4. MapInv'
  <2>1. /\ IsPrefixOf(FlushedMap', state_map) /\ Len(FlushedMap') = state_qty
        /\ ~write_tfile => tbuf' = Empty
        /\ Len(tbuf') <= 1
    BY <1>1, CloseLastStateMap
  <2>2. UNCHANGED <<open, state_map, call, target, todo>> /\ state_closed' /\ todo = {}
    BY DEF EndState, caller
  <2>. QED
    BY <1>2, <2>1, <2>2 DEF MapInv, IsPrefixOf, state_qty
<1>5. OrderInv'
  <2>1. dmap' \in Seq(Descriptor) /\ IsPrefixOf(dmap', state_map)
    <3>1. /\ FlushedMap' = dmap' \o tbuf' /\ dmap' \in Seq(Descriptor)
          /\ tbuf' \in Seq(Descriptor) /\ IsPrefixOf(FlushedMap', state_map)
      BY <1>1, CloseLastStateMap DEF FlushedMap
    <3>. QED
      BY <3>1, ConcatProperties, LenProperties DEF IsPrefixOf
  <2>. QED
    BY <2>1, PrefixOrdered DEF OrderInv, TypeOK, MapsTyped, EndState
<1>6. FileInv'
  <2>1. DOMAIN dfile' = DOMAIN dfile
    BY FlushedType DEF EndState, FlushStateFile
  <2>2. cur_st_index' # NoFile => cur_st_index' = st_file_count - 1
                                  /\ file_st_qty' = file_map[st_file_count]
    BY <1>2 DEF FileInv, EndState
  <2>. QED
    BY <1>2, <2>1, <2>2 DEF FileInv, EndState, caller, state_qty
<1>7. CountInv'
  BY CountKept DEF EndState
<1>. QED
  BY <1>3, <1>4, <1>5, <1>6, <1>7

LEMMA AppendOrdered ==
    ASSUME NEW map \in Seq(Descriptor), NEW d \in Descriptor, Ordered(map),
           Len(map) > 0 => d.file = map[Len(map)].file + (IF d.offset = 0 THEN 1 ELSE 0)
    PROVE  Ordered(Append(map, d))
<1>. DEFINE n == Len(map)
            new == Append(map, d)
<1>1. /\ n \in Nat /\ Len(new) = n + 1 /\ new[n + 1] = d
      /\ \A i \in 1..n : new[i] = map[i] /\ map[i].file \in Nat
  <2>1. \A i \in 1..n : map[i] \in Descriptor
    BY ElementOfSeq
  <2>2. \A i \in 1..n : map[i].file \in Nat
    BY <2>1 DEF Descriptor
  <2>. QED
    BY <2>2, AppendProperties, LenProperties
<1>. SUFFICES ASSUME NEW i \in 1..n + 1
              PROVE  /\ \A j \in 1..i : new[j].file <= new[i].file
                     /\ new[i].offset = 0 => \A j \in 1..i - 1 : new[j].file < new[i].file
                     /\ i > 1 => new[i].file = new[i - 1].file
                                               + (IF new[i].offset = 0 THEN 1 ELSE 0)
  BY <1>1 DEF Ordered
<1>2. CASE i \in 1..n
  <2>1. \A j \in 1..i : new[j] = map[j]
    BY <1>1, <1>2
  <2>2. \A j \in 1..i : new[j].file <= new[i].file
    BY <1>2, <2>1 DEF Ordered
  <2>3. new[i].offset = 0 => \A j \in 1..i - 1 : new[j].file < new[i].file
    BY <1>2, <2>1 DEF Ordered
  <2>4. i > 1 => new[i].file = new[i - 1].file + (IF new[i].offset = 0 THEN 1 ELSE 0)
    BY <1>2, <2>1 DEF Ordered
  <2>. QED
    BY <2>2, <2>3, <2>4
<1>3. CASE i = n + 1
  <2>1. d.file \in Nat /\ d.offset \in Nat
    BY DEF Descriptor
  <2>2. n > 0 => \A j \in 1..n : map[j].file <= map[n].file
    BY <1>1 DEF Ordered
  <2>. HIDE DEF new
  <2>3. \A j \in 1..n : new[j].file <= d.file /\ (d.offset = 0 => new[j].file < d.file)
    BY <1>1, <2>1, <2>2
  <2>4. n > 0 => new[n].file = map[n].file
    BY <1>1
  <2>. QED
    BY <1>1, <1>3, <2>1, <2>3, <2>4
<1>. QED
  BY <1>1, <1>2, <1>3

\* Where a new record goes, and what the counts say about that place.
LEMMA NewPlace ==
    ASSUME IInv, Idle, OpenNext \/ file_st_qty \in DOMAIN state_map, NEW s \in Srecs,
           clock < MaxStates
    PROVE  /\ [file |-> IF OpenNext THEN st_file_count ELSE cur_st_index,
               offset |-> IF OpenNext THEN 0 ELSE NextOffset,
               time |-> clock + 1, srec |-> s] \in Descriptor
           /\ st_file_count = Len(file_map) /\ st_file_count \in Nat
           /\ state_qty \in Nat
           /\ 0..st_file_count - 1 \subseteq DOMAIN dfile
           /\ ~OpenNext => /\ cur_st_index = st_file_count - 1 /\ st_file_count > 0
                           /\ NextOffset > 0 /\ NextOffset \in Nat
                           /\ file_st_qty = file_map[st_file_count]
           /\ st_file_count > 0 => state_qty > 0
           /\ state_qty > 0 => /\ st_file_count > 0
                               /\ state_map[state_qty].file = st_file_count - 1
<1>. USE DEF IInv
<1>1. open /\ call = "none" /\ clock + 1 \in Nat \ {0}
  BY ModeAssumption DEF Idle, TypeOK, CallTyped
<1>2. st_file_count = Len(file_map) /\ st_file_count \in Nat /\ state_qty \in Nat
      /\ 0..st_file_count - 1 \subseteq DOMAIN dfile
  BY <1>1, LenProperties DEF FileInv, TypeOK, CountsTyped, MapsTyped, state_qty
<1>3. ~OpenNext => cur_st_index \in Nat /\ cur_st_index = st_file_count - 1
                   /\ file_st_qty = file_map[st_file_count]
  BY <1>1 DEF OpenNext, FileInv, TypeOK, CountsTyped
<1>4. ~OpenNext => NextOffset > 0 /\ NextOffset \in Nat
  <2>. SUFFICES ASSUME ~OpenNext PROVE NextOffset > 0 /\ NextOffset \in Nat
    OBVIOUS
  <2>1. file_st_qty \in 1..state_qty
    BY LenProperties DEF TypeOK, MapsTyped, state_qty
  <2>2. state_map[file_st_qty].offset \in Nat
    BY <2>1, DescriptorFields
  <2>3. RecordSize(cur_srec_id) \in Nat /\ RecordSize(cur_srec_id) > 0
    BY SrecAssumption DEF RecordSize, HDR, TypeOK, CountsTyped
  <2>. QED
    BY <2>2, <2>3 DEF NextOffset
<1>5. state_qty > 0 => st_file_count > 0
  <2>. SUFFICES ASSUME state_qty > 0 PROVE st_file_count > 0
    OBVIOUS
  <2>1. state_map[state_qty].file \in Nat
    BY <1>2, DescriptorFields
  <2>2. state_map[state_qty].file < Len(file_map)
    BY <1>1, <1>2 DEF FileInv
  <2>. QED
    BY <1>2, <2>1, <2>2
<1>6. st_file_count > 0 => state_qty > 0 /\ state_map[state_qty].file = st_file_count - 1
  BY <1>1, <1>2 DEF FileInv
<1>. QED
  BY <1>1, <1>2, <1>3, <1>4, <1>5, <1>6 DEF Descriptor

LEMMA NewStateInv ==
    ASSUME IInv, NEW s \in Srecs, NewState(s)
    PROVE  IInv'
<1>. DEFINE file == IF OpenNext THEN st_file_count ELSE cur_st_index
            offset == IF OpenNext THEN 0 ELSE NextOffset
            d == [file |-> file, offset |-> offset, time |-> clock + 1, srec |-> s]
            count == IF OpenNext THEN 1 ELSE file_st_qty + 1
<1>1. /\ Idle /\ CloseLastState /\ clock < MaxStates
      /\ OpenNext \/ file_st_qty \in DOMAIN state_map
  BY DEF NewState
<1>2. /\ dfile' = IF OpenNext THEN Created(Flushed, file) ELSE Flushed
      /\ sbuf' = <<[at |-> offset, time |-> clock + 1]>>
      /\ state_map' = Append(state_map, d)
      /\ st_file_count' = IF OpenNext THEN st_file_count + 1 ELSE st_file_count
      /\ file_map' = IF OpenNext THEN Append(file_map, count)
                     ELSE [file_map EXCEPT ![st_file_count] = count]
      /\ file_st_qty' = count
      /\ cur_st_index' = file
      /\ cur_st_file_size' = HDR + (IF OpenNext THEN 0 ELSE cur_st_file_size)
  BY DEF NewState
<1>3. /\ cur_srec_id' = s /\ state_dirty' = TRUE /\ state_closed' = FALSE
      /\ todo' = 1 .. SrecSize[s] /\ clock' = clock + 1
      /\ UNCHANGED <<open, call, target>>
      /\ states_per_file' \in {states_per_file, file_st_qty}
      /\ dlimit' \in {dlimit, file_st_qty}
  BY DEF NewState, caller
<1>4. /\ d \in Descriptor
      /\ st_file_count = Len(file_map) /\ st_file_count \in Nat
      /\ state_qty \in Nat
      /\ 0..st_file_count - 1 \subseteq DOMAIN dfile
      /\ ~OpenNext => /\ cur_st_index = st_file_count - 1 /\ st_file_count > 0
                      /\ NextOffset > 0 /\ NextOffset \in Nat
                      /\ file_st_qty = file_map[st_file_count]
      /\ st_file_count > 0 => state_qty > 0
      /\ state_qty > 0 => /\ st_file_count > 0
                          /\ state_map[state_qty].file = st_file_count - 1
  BY <1>1, NewPlace
<1>5. /\ d.file = file /\ d.offset = offset /\ file \in Nat /\ offset \in Nat
      /\ clock + 1 \in Nat
  BY <1>4 DEF Descriptor
<1>6. TypeOK /\ MapInv /\ OrderInv /\ FileInv /\ CountInv /\ open /\ call = "none"
  BY <1>1 DEF IInv, Idle
<1>7. DOMAIN dfile' = DOMAIN dfile \cup {file} /\ file = st_file_count' - 1
      /\ st_file_count' = Len(file_map') /\ st_file_count' \in Nat
  <2>1. CASE OpenNext
    <3>1. DOMAIN dfile' = DOMAIN dfile \cup {file}
      BY <1>2, <1>6, <2>1, FlushedType DEF Created
    <3>2. Len(file_map') = Len(file_map) + 1
      BY <1>2, <1>6, <2>1, AppendProperties DEF TypeOK, CountsTyped
    <3>. QED
      BY <1>2, <1>4, <2>1, <3>1, <3>2
  <2>2. CASE ~OpenNext
    <3>1. DOMAIN dfile' = DOMAIN dfile
      BY <1>2, <1>6, <2>2, FlushedType
    <3>2. file \in DOMAIN dfile /\ file = st_file_count - 1
      BY <1>4, <2>2
    <3>3. Len(file_map') = Len(file_map)
      BY <1>2, <1>6, <2>2, ExceptSeq, LenProperties DEF TypeOK, CountsTyped
    <3>. QED
      BY <1>2, <1>4, <2>2, <3>1, <3>2, <3>3
  <2>. QED
    BY <2>1, <2>2
<1>. HIDE DEF d, offset, file
<1>8. count \in Nat
  BY <1>6 DEF TypeOK, CountsTyped
<1>9. TypeOK'
  <2>1. FilesTyped'
    <3>1. sbuf' \in Seq([at : Nat, time : Nat])
      BY <1>2, <1>5
    <3>2. DOMAIN dfile' \subseteq Nat
      BY <1>5, <1>6, <1>7 DEF TypeOK, FilesTyped
    <3>3. \A f \in DOMAIN dfile' : dfile'[f] \in Seq(Nat)
      <4>1. CASE OpenNext
        <5>1. \A f \in DOMAIN dfile' : dfile'[f] = IF f = file THEN Empty ELSE Flushed[f]
          BY <1>2, <1>7, <4>1, FlushedType, <1>6 DEF Created
        <5>. QED
          BY <1>6, <1>7, <5>1, FlushedType, EmptySeq DEF Empty
      <4>2. CASE ~OpenNext
        BY <1>2, <1>6, <4>2, FlushedType
      <4>. QED
        BY <4>1, <4>2
    <3>. QED
      BY <3>1, <3>2, <3>3 DEF FilesTyped
  <2>2. MapsTyped'
    BY <1>1, <1>2, <1>4, <1>6, CloseLastStateMap, AppendProperties DEF TypeOK, MapsTyped
  <2>3. CountsTyped'
    <3>1. file_map' \in Seq(Nat)
      <4>1. CASE OpenNext
        BY <1>2, <1>6, <1>8, <4>1, AppendProperties DEF TypeOK, CountsTyped
      <4>2. CASE ~OpenNext
        <5>1. file_map \in Seq(Nat) /\ st_file_count \in 1..Len(file_map)
          BY <1>4, <1>6, <4>2 DEF TypeOK, CountsTyped
        <5>. QED
          BY <1>2, <1>8, <4>2, <5>1, ExceptSeq
      <4>. QED
        BY <4>1, <4>2
    <3>2. dlimit' \in Nat /\ states_per_file' \in Nat
      BY <1>3, <1>6 DEF TypeOK, CountsTyped
    <3>3. cur_st_file_size' \in Nat
      BY <1>2, <1>6 DEF TypeOK, CountsTyped, HDR
    <3>. QED
      BY <1>2, <1>3, <1>5, <1>7, <1>8, <3>1, <3>2, <3>3 DEF CountsTyped
  <2>4. FlagsTyped'
    <3>1. dtrailer' \in BOOLEAN
      BY <1>1, <1>6, CloseLastStateMap
    <3>. QED
      BY <1>3, <1>6, <3>1 DEF TypeOK, FlagsTyped
  <2>5. CallTyped'
    BY <1>1, <1>3, <1>6, ModeAssumption DEF TypeOK, CallTyped
  <2>. QED
    BY <2>1, <2>2, <2>3, <2>4, <2>5 DEF TypeOK
<1>10. /\ state_qty' = state_qty + 1 /\ state_map'[state_qty + 1] = d
       /\ \A i \in 1..state_qty : state_map'[i] = state_map[i]
  BY <1>2, <1>4, <1>6, AppendProperties DEF TypeOK, MapsTyped, state_qty
<1>11. /\ IsPrefixOf(FlushedMap', state_map) /\ Len(FlushedMap') = state_qty
       /\ ~write_tfile => tbuf' = Empty
       /\ Len(tbuf') <= 1
  BY <1>1, <1>6, CloseLastStateMap
<1>12. MapInv'
  <2>1. IsPrefixOf(FlushedMap', state_map')
    BY <1>4, <1>10, <1>11 DEF IsPrefixOf, state_qty
  <2>. QED
    BY <1>3, <1>4, <1>6, <1>10, <1>11, <2>1 DEF MapInv
<1>13. OrderInv'
  <2>1. Ordered(state_map')
    <3>1. Len(state_map) > 0 =>
              d.file = state_map[Len(state_map)].file + (IF d.offset = 0 THEN 1 ELSE 0)
      BY <1>4, <1>5 DEF state_qty, file, offset
    <3>. QED
      BY <1>2, <1>4, <1>6, <3>1, AppendOrdered DEF OrderInv, TypeOK, MapsTyped
  <2>2. dmap' \in Seq(Descriptor) /\ IsPrefixOf(dmap', state_map)
    <3>1. /\ FlushedMap' = dmap' \o tbuf' /\ dmap' \in Seq(Descriptor)
          /\ tbuf' \in Seq(Descriptor) /\ IsPrefixOf(FlushedMap', state_map)
      BY <1>1, <1>6, CloseLastStateMap DEF FlushedMap
    <3>. QED
      BY <3>1, ConcatProperties, LenProperties DEF IsPrefixOf
  <2>3. Ordered(dmap')
    BY <1>6, <2>2, PrefixOrdered DEF OrderInv, TypeOK, MapsTyped
  <2>. QED
    BY <2>1, <2>3 DEF OrderInv
<1>14. FileInv'
  <2>1. 0..st_file_count' - 1 \subseteq DOMAIN dfile'
    BY <1>2, <1>4, <1>7
  <2>2. \A i \in 1..state_qty' : state_map'[i].file < st_file_count'
    <3>1. \A i \in 1..state_qty : state_map[i].file \in Nat /\ state_map[i].file < st_file_count
      BY <1>4, <1>6, DescriptorFields DEF FileInv
    <3>2. state_map'[state_qty + 1].file = st_file_count' - 1
      BY <1>5, <1>7, <1>10
    <3>3. st_file_count' \in {st_file_count, st_file_count + 1}
      BY <1>2
    <3>. QED
      BY <1>4, <1>7, <1>10, <3>1, <3>2, <3>3
  <2>3. state_qty' > 0 /\ state_map'[state_qty'].file = st_file_count' - 1
    BY <1>4, <1>5, <1>7, <1>10
  <2>4. file_st_qty' = file_map'[st_file_count']
    <3>1. CASE OpenNext
      BY <1>2, <1>4, <1>6, <1>8, <3>1, AppendProperties DEF TypeOK, CountsTyped
    <3>2. CASE ~OpenNext
      BY <1>2, <1>4, <1>6, <1>8, <3>2, ExceptSeq DEF TypeOK, CountsTyped
    <3>. QED
      BY <3>1, <3>2
  <2>5. \A g \in DOMAIN dfile' : g < st_file_count' => 0..g \subseteq DOMAIN dfile'
    BY <1>5, <1>6, <1>7, <2>1 DEF TypeOK, FilesTyped
  <2>6. open' /\ call' = "none" /\ cur_st_index' = st_file_count' - 1
    BY <1>2, <1>3, <1>6, <1>7
  <2>. QED
    BY <1>7, <2>1, <2>2, <2>3, <2>4, <2>5, <2>6 DEF FileInv
<1>15. CountInv'
  <2>1. \A g : StatesIn(state_map', g)
               = StatesIn(state_map, g) + (IF file = g THEN 1 ELSE 0)
    BY <1>2, <1>4, <1>5, <1>6, StatesInAppend DEF TypeOK, MapsTyped
  <2>2. \A f \in 1..st_file_count : file_map[f] = StatesIn(state_map, f - 1)
    BY <1>4, <1>6 DEF CountInv
  <2>3. \A g : StatesIn(state_map, g) \in Nat
    BY <1>6, StatesInSet DEF TypeOK, MapsTyped
  <2>. SUFFICES ASSUME NEW f \in 1..st_file_count'
                PROVE  file_map'[f] = StatesIn(state_map', f - 1)
    BY <1>7 DEF CountInv
  <2>4. CASE OpenNext
    <3>1. CASE f \in 1..st_file_count
      <4>1. file_map'[f] = file_map[f]
        BY <1>2, <1>4, <1>6, <1>8, <2>4, <3>1, AppendProperties DEF TypeOK, CountsTyped
      <4>2. file # f - 1
        BY <1>4, <2>4, <3>1 DEF file
      <4>. QED
        BY <2>1, <2>2, <2>3, <3>1, <4>1, <4>2
    <3>2. CASE f = st_file_count + 1
      <4>1. file_map'[f] = 1
        BY <1>2, <1>4, <1>6, <1>8, <2>4, <3>2, AppendProperties DEF TypeOK, CountsTyped
      <4>2. {i \in 1..Len(state_map) : state_map[i].file = f - 1} = {}
        BY <1>4, <1>6, <3>2, DescriptorFields DEF FileInv, state_qty
      <4>3. StatesIn(state_map, f - 1) = 0
        BY <4>2, FS_EmptySet DEF StatesIn
      <4>4. file = f - 1
        BY <1>4, <2>4, <3>2 DEF file
      <4>. QED
        BY <2>1, <4>1, <4>3, <4>4
    <3>. QED
      BY <1>2, <1>4, <2>4, <3>1, <3>2
  <2>5. CASE ~OpenNext
    <3>1. f \in 1..st_file_count /\ file = st_file_count - 1
      BY <1>2, <1>4, <2>5 DEF file
    <3>2. file_map' = [file_map EXCEPT ![st_file_count] = file_st_qty + 1]
      BY <1>2, <2>5
    <3>3. file_map'[f] = IF f = st_file_count THEN file_st_qty + 1 ELSE file_map[f]
      BY <1>4, <1>6, <3>1, <3>2, ExceptSeq, LenProperties DEF TypeOK, CountsTyped
    <3>4. file_st_qty = file_map[st_file_count]
      BY <1>4, <2>5
    <3>. QED
      BY <1>4, <2>1, <2>2, <2>3, <3>1, <3>3, <3>4
  <2>. QED
    BY <2>4, <2>5
<1>. QED
  BY <1>9, <1>12, <1>13, <1>14, <1>15 DEF IInv

-----------------------------------------------------------------------------
(***************************************************************************)
(* Restarts.  A restart while the last state is not ended breaks MapInv    *)
(* (state_closed stays FALSE), so what follows is about applications that  *)
(* end their states before they restart.                                   *)
(***************************************************************************)
RestartsClosed == "restart_open" \notin App

LEMMA BeginTruncateInv ==
    ASSUME IInv, Idle, state_closed, NEW i \in 0..state_qty - 1, BeginTruncate(i)
    PROVE  IInv'
<1>1. TypeOK /\ MapInv /\ OrderInv /\ FileInv /\ CountInv /\ open /\ call = "none"
  BY DEF IInv, Idle
<1>2. /\ \/ dfile' = Flushed /\ sbuf' = Empty /\ cur_st_index' = NoFile
         \/ /\ UNCHANGED <<dfile, sbuf, cur_st_index>>
            /\ ~(cur_st_index >= state_map[i + 1].file)
      /\ call' = "unlink" /\ target' = i /\ todo' = {}
      /\ UNCHANGED <<dmap, dtrailer, dlimit, open, state_map, file_map, st_file_count,
                     file_st_qty, cur_st_file_size, cur_srec_id, states_per_file,
                     state_dirty, state_closed, tbuf, clock>>
  BY DEF BeginTruncate, StateFileClose, flags
<1>3. state_qty \in Nat /\ i \in Nat /\ i < state_qty /\ i + 1 \in 1..state_qty
  BY <1>1, LenProperties DEF TypeOK, MapsTyped, state_qty
<1>4. DOMAIN dfile' = DOMAIN dfile
  BY <1>1, <1>2, FlushedType
<1>5. TypeOK'
  <2>1. FilesTyped'
    BY <1>1, <1>2, FlushTyped DEF TypeOK, FilesTyped
  <2>2. MapsTyped' /\ FlagsTyped'
    BY <1>1, <1>2 DEF TypeOK, MapsTyped, FlagsTyped
  <2>3. CountsTyped' /\ CallTyped'
    BY <1>1, <1>2, <1>3 DEF TypeOK, CountsTyped, CallTyped
  <2>. QED
    BY <2>1, <2>2, <2>3 DEF TypeOK
<1>6. MapInv'
  <2>1. Len(FlushedMap) = state_qty
    BY <1>1 DEF MapInv
  <2>2. FlushedMap' = FlushedMap /\ state_qty' = state_qty
    BY <1>2 DEF FlushedMap, state_qty
  <2>. QED
    BY <1>1, <1>2, <1>3, <2>1, <2>2 DEF MapInv, IsPrefixOf
<1>7. OrderInv' /\ CountInv'
  BY <1>1, <1>2, OrderKept, CountKept
<1>8. FileInv'
  <2>1. /\ state_map[i + 1].file \in Nat
        /\ state_map[i + 1].file < Len(file_map) /\ Len(file_map) = st_file_count
    BY <1>1, <1>3, DescriptorFields DEF FileInv
  <2>2. 0..state_map[i + 1].file \subseteq DOMAIN dfile'
    BY <1>1, <1>4, <2>1 DEF FileInv, TypeOK, CountsTyped
  <2>3. cur_st_index' = NoFile
    BY <1>1, <1>2, <2>1 DEF FileInv, TypeOK, CountsTyped
  <2>4. TargetFile' = state_map[i + 1].file
    BY <1>2 DEF TargetFile
  <2>. QED
    BY <1>1, <1>2, <1>4, <2>1, <2>2, <2>3, <2>4 DEF FileInv, state_qty
<1>. QED
  BY <1>5, <1>6, <1>7, <1>8 DEF IInv

LEMMA RestartAtStateInv ==
    ASSUME IInv, RestartsClosed, NEW f, NEW local, RestartAtState(f, local)
    PROVE  IInv'
<1>1. PICK i \in 0..state_qty - 1 : BeginTruncate(i)
  BY DEF RestartAtState
<1>2. Idle /\ (state_closed \/ state_qty = 0)
  BY DEF RestartAtState, MayRestart, RestartsClosed
<1>3. state_closed
  BY <1>1, <1>2
<1>. QED
  BY <1>1, <1>2, <1>3, BeginTruncateInv

LEMMA RestartAtFileInv ==
    ASSUME IInv, RestartsClosed, NEW f, RestartAtFile(f)
    PROVE  IInv'
<1>1. Idle /\ (state_closed \/ state_qty = 0)
  BY DEF RestartAtFile, MayRestart, RestartsClosed
<1>2. CASE \E i \in 0..state_qty - 1 : BeginTruncate(i)
  <2>1. PICK i \in 0..state_qty - 1 : BeginTruncate(i)
    BY <1>2
  <2>. QED
    BY <1>1, <2>1, BeginTruncateInv
<1>3. CASE StateFileClose /\ UNCHANGED <<dmap, dtrailer, dlimit, open, state_map, file_map,
                         st_file_count, file_st_qty, cur_st_file_size, cur_srec_id,
                         states_per_file, flags, tbuf, caller, todo, clock>>
  BY <1>3, CloseStateFileInv
<1>. QED
  BY <1>2, <1>3 DEF RestartAtFile

LEMMA TruncUnlinkInv ==
    ASSUME IInv, TruncUnlink
    PROVE  IInv'
<1>1. TypeOK /\ MapInv /\ OrderInv /\ FileInv /\ CountInv /\ open /\ call = "unlink"
  BY DEF IInv, TruncUnlink
<1>2. PICK f \in Later : /\ \A g \in Later : g <= f
                         /\ dfile' = Restrict(dfile, DOMAIN dfile \ {f})
  BY DEF TruncUnlink
<1>3. UNCHANGED <<dmap, dtrailer, dlimit, open, state_map, file_map, st_file_count,
                  file_st_qty, cur_st_index, cur_st_file_size, cur_srec_id,
                  states_per_file, state_dirty, state_closed, sbuf, tbuf, call, target,
                  todo, clock>>
  BY DEF TruncUnlink, files, flags, stdio, caller
<1>4. /\ DOMAIN dfile' = DOMAIN dfile \ {f}
      /\ \A g \in DOMAIN dfile \ {f} : dfile'[g] = dfile[g]
  BY <1>2 DEF Restrict
<1>5. TypeOK'
  <2>1. FilesTyped'
    BY <1>1, <1>3, <1>4 DEF TypeOK, FilesTyped
  <2>2. MapsTyped' /\ FlagsTyped'
    BY <1>1, <1>3 DEF TypeOK, MapsTyped, FlagsTyped
  <2>3. CountsTyped' /\ CallTyped'
    BY <1>1, <1>3 DEF TypeOK, CountsTyped, CallTyped
  <2>. QED
    BY <2>1, <2>2, <2>3 DEF TypeOK
<1>6. MapInv'
  BY <1>1, <1>3, MapKept
<1>7. OrderInv' /\ CountInv'
  BY <1>1, <1>3, OrderKept, CountKept
<1>8. FileInv'
  <2>1. TargetFile < f /\ f \in Nat /\ f < st_file_count
    BY <1>1, <1>2 DEF Later, TypeOK, FilesTyped
  <2>2. target + 1 \in 1..state_qty
    BY <1>1, LenProperties DEF MapInv, TypeOK, CallTyped, MapsTyped, state_qty
  <2>3. TargetFile \in Nat /\ TargetFile' = TargetFile
    BY <1>1, <1>3, <2>2, DescriptorFields DEF TargetFile
  <2>4. st_file_count = Len(file_map) /\ st_file_count \in Nat
    BY <1>1 DEF FileInv, TypeOK, CountsTyped
  <2>5. 0..TargetFile \subseteq DOMAIN dfile'
    BY <1>1, <1>4, <2>1, <2>3 DEF FileInv
  <2>6. ASSUME NEW g \in DOMAIN dfile', g < Len(file_map)
        PROVE  0..g \subseteq DOMAIN dfile'
    <3>1. g \in Nat /\ g \in DOMAIN dfile /\ g # f
      BY <1>1, <1>4 DEF TypeOK, FilesTyped
    <3>2. g < f
      BY <1>2, <2>1, <2>3, <2>4, <2>6, <3>1 DEF Later
    <3>3. 0..g \subseteq DOMAIN dfile
      BY <1>1, <2>6, <3>1 DEF FileInv
    <3>. QED
      BY <1>4, <2>1, <3>1, <3>2, <3>3
  <2>. QED
    BY <1>1, <1>3, <2>3, <2>4, <2>5, <2>6 DEF FileInv, state_qty
<1>. QED
  BY <1>5, <1>6, <1>7, <1>8 DEF IInv

\* What the target of a restart in progress is.
LEMMA TargetFacts ==
    ASSUME IInv, open, call \in {"unlink", "cut_map", "end_map"}
    PROVE  /\ state_qty \in Nat /\ target \in Nat /\ target + 1 \in 1..state_qty
           /\ state_closed
           /\ TargetFile \in Nat /\ TargetOffset \in Nat /\ TargetFile < Len(file_map)
           /\ target > 0 => /\ state_map[target].file \in Nat
                            /\ state_map[target].file < Len(file_map)
                            /\ TargetFile = state_map[target].file
                                            + (IF TargetOffset = 0 THEN 1 ELSE 0)
<1>1. TypeOK /\ MapInv /\ OrderInv /\ FileInv
  BY DEF IInv
<1>2. /\ state_qty \in Nat /\ target \in Nat /\ target + 1 \in 1..state_qty
      /\ state_closed
  BY <1>1, LenProperties DEF MapInv, TypeOK, CallTyped, MapsTyped, state_qty
<1>3. TargetFile \in Nat /\ TargetOffset \in Nat /\ TargetFile < Len(file_map)
  BY <1>1, <1>2, DescriptorFields DEF FileInv, TargetFile, TargetOffset
<1>4. target > 0 => /\ state_map[target].file \in Nat
                    /\ state_map[target].file < Len(file_map)
  <2>. SUFFICES ASSUME target > 0 PROVE /\ state_map[target].file \in Nat
                                        /\ state_map[target].file < Len(file_map)
    OBVIOUS
  <2>1. target \in 1..state_qty
    BY <1>2
  <2>. QED
    BY <1>1, <2>1, DescriptorFields DEF FileInv
<1>5. target > 0 => TargetFile = state_map[target].file
                                 + (IF TargetOffset = 0 THEN 1 ELSE 0)
  <2>. SUFFICES ASSUME target > 0
                PROVE  TargetFile = state_map[target].file
                                    + (IF TargetOffset = 0 THEN 1 ELSE 0)
    OBVIOUS
  <2>1. /\ Ordered(state_map) /\ target + 1 \in 1..Len(state_map)
        /\ target + 1 > 1 /\ (target + 1) - 1 = target
    BY <1>1, <1>2 DEF OrderInv, state_qty
  <2>. QED
    BY <2>1 DEF Ordered, TargetFile, TargetOffset
<1>. QED
  BY <1>2, <1>3, <1>4, <1>5

LEMMA TruncFileInv ==
    ASSUME IInv, TruncFile
    PROVE  IInv'
<1>1. TypeOK /\ MapInv /\ OrderInv /\ FileInv /\ CountInv /\ open /\ call = "unlink"
  BY DEF IInv, TruncFile
<1>. DEFINE whole == target = 0 \/ TargetOffset = 0
<1>2. CASE Later # {}
  BY <1>2 DEF TruncFile
<1>3. CASE Later = {}
<2>1. /\ whole => /\ dfile' = Restrict(dfile, DOMAIN dfile \ {TargetFile})
                  /\ st_file_count' = TargetFile + (IF target = 0 THEN 1 ELSE 0)
                  /\ UNCHANGED <<cur_st_index, cur_st_file_size, file_st_qty>>
      /\ ~whole => /\ dfile' = [dfile EXCEPT ![TargetFile] = Truncated(@, TargetOffset)]
                   /\ st_file_count' = TargetFile + 1
                   /\ cur_st_index' = TargetFile
                   /\ cur_st_file_size' = Len(dfile'[TargetFile])
                   /\ file_st_qty' = file_map[TargetFile + 1]
      /\ call' = "cut_map"
      /\ UNCHANGED <<dmap, dtrailer, dlimit, open, state_map, file_map, cur_srec_id,
                     states_per_file, state_dirty, state_closed, sbuf, tbuf, target, todo,
                     clock>>
  BY DEF TruncFile, flags, stdio
<2>2. /\ state_qty \in Nat /\ target \in Nat /\ target + 1 \in 1..state_qty
      /\ state_closed
      /\ TargetFile \in Nat /\ TargetOffset \in Nat /\ TargetFile < Len(file_map)
      /\ target > 0 => /\ state_map[target].file \in Nat
                       /\ state_map[target].file < Len(file_map)
                       /\ TargetFile = state_map[target].file
                                       + (IF TargetOffset = 0 THEN 1 ELSE 0)
  BY <1>1, TargetFacts
<2>3. 0..TargetFile \subseteq DOMAIN dfile /\ st_file_count = Len(file_map)
      /\ cur_st_index = NoFile
  BY <1>1 DEF FileInv
<2>4. whole => /\ DOMAIN dfile' = DOMAIN dfile \ {TargetFile}
               /\ \A g \in DOMAIN dfile' : dfile'[g] = dfile[g]
  BY <2>1 DEF Restrict
<2>5. ~whole => /\ DOMAIN dfile' = DOMAIN dfile
                /\ \A g \in DOMAIN dfile' : dfile'[g] \in Seq(Nat)
  <3>1. TargetFile \in DOMAIN dfile /\ \A g \in DOMAIN dfile : dfile[g] \in Seq(Nat)
    BY <1>1, <2>2, <2>3 DEF TypeOK, FilesTyped
  <3>2. Truncated(dfile[TargetFile], TargetOffset) \in Seq(Nat)
    BY <2>2, <3>1, TruncatedType
  <3>. QED
    BY <2>1, <3>1, <3>2
<2>. HIDE DEF whole
<2>6. TypeOK'
  <3>1. FilesTyped'
    <4>1. CASE whole
      BY <1>1, <2>1, <2>4, <4>1 DEF TypeOK, FilesTyped
    <4>2. CASE ~whole
      BY <1>1, <2>1, <2>5, <4>2 DEF TypeOK, FilesTyped
    <4>. QED
      BY <4>1, <4>2
  <3>2. MapsTyped' /\ FlagsTyped'
    BY <1>1, <2>1 DEF TypeOK, MapsTyped, FlagsTyped
  <3>3. CallTyped'
    BY <1>1, <2>1 DEF TypeOK, CallTyped
  <3>4. CountsTyped'
    <4>1. CASE whole
      BY <1>1, <2>1, <2>2, <4>1 DEF TypeOK, CountsTyped
    <4>2. CASE ~whole
      <5>1. TargetFile \in DOMAIN dfile'
        BY <2>2, <2>3, <2>5, <4>2
      <5>2. Len(dfile'[TargetFile]) \in Nat
        BY <2>5, <4>2, <5>1, LenProperties
      <5>3. file_map[TargetFile + 1] \in Nat
        <6>1. file_map \in Seq(Nat) /\ TargetFile + 1 \in 1..Len(file_map)
          BY <1>1, <2>2, LenProperties DEF TypeOK, CountsTyped
        <6>. QED
          BY <6>1, ElementOfSeq
      <5>. QED
        BY <1>1, <2>1, <2>2, <4>2, <5>2, <5>3 DEF TypeOK, CountsTyped
    <4>. QED
      BY <4>1, <4>2
  <3>. QED
    BY <3>1, <3>2, <3>3, <3>4 DEF TypeOK
<2>7. MapInv'
  <3>1. FlushedMap' = FlushedMap /\ state_qty' = state_qty
    BY <2>1 DEF FlushedMap, state_qty
  <3>. QED
    BY <1>1, <2>1, <3>1 DEF MapInv, IsPrefixOf
<2>8. OrderInv' /\ CountInv'
  BY <1>1, <2>1, OrderKept, CountKept
<2>9. FileInv'
  <3>1. target > 0 => /\ st_file_count' = state_map[target].file + 1
                      /\ 0..st_file_count' - 1 \subseteq DOMAIN dfile'
                      /\ cur_st_index' \in {NoFile, st_file_count' - 1}
    <4>1. CASE whole
      BY <2>1, <2>2, <2>3, <2>4, <4>1 DEF whole
    <4>2. CASE ~whole
      BY <2>1, <2>2, <2>3, <2>5, <4>2 DEF whole
    <4>. QED
      BY <4>1, <4>2
  <3>2. target = 0 => cur_st_index' = NoFile
    BY <2>1, <2>3 DEF whole
  <3>3. ASSUME NEW g \in DOMAIN dfile', g < Len(file_map)
        PROVE  0..g \subseteq DOMAIN dfile'
    <4>1. g \in Nat /\ g \in DOMAIN dfile
      BY <1>1, <2>4, <2>5 DEF TypeOK, FilesTyped
    <4>2. 0..g \subseteq DOMAIN dfile
      BY <1>1, <3>3, <4>1 DEF FileInv
    <4>3. CASE whole
      <5>1. g # TargetFile
        BY <2>4, <4>3
      <5>2. ~(TargetFile < g)
        BY <1>3, <2>3, <3>3, <4>1 DEF Later
      <5>3. g < TargetFile
        BY <2>2, <4>1, <5>1, <5>2
      <5>. QED
        BY <2>2, <2>4, <4>1, <4>2, <4>3, <5>3
    <4>4. CASE ~whole
      BY <2>5, <4>2, <4>4
    <4>. QED
      BY <4>3, <4>4
  <3>4. UNCHANGED <<open, state_map, file_map, target>> /\ call' = "cut_map"
    BY <2>1
  <3>. QED
    BY <1>1, <3>1, <3>2, <3>3, <3>4 DEF FileInv, state_qty
<2>. QED
  BY <2>6, <2>7, <2>8, <2>9 DEF IInv
<1>. QED
  BY <1>2, <1>3

LEMMA SubSeqFacts ==
    ASSUME NEW S, NEW q \in Seq(S), NEW n \in 0..Len(q)
    PROVE  /\ SubSeq(q, 1, n) \in Seq(S) /\ Len(SubSeq(q, 1, n)) = n
           /\ \A i \in 1..n : SubSeq(q, 1, n)[i] = q[i]
BY SubSeqProperties, LenProperties

LEMMA TruncMapInv ==
    ASSUME IInv, TruncMap
    PROVE  IInv'
<1>1. TypeOK /\ MapInv /\ OrderInv /\ FileInv /\ CountInv /\ open /\ call = "cut_map"
  BY DEF IInv, TruncMap
<1>2. /\ dmap' = SubSeq(FlushedMap, 1, target)
      /\ dtrailer' = FALSE /\ tbuf' = << >> /\ call' = "end_map"
      /\ UNCHANGED <<dfile, dlimit, open, state_map, file_map, st_file_count, file_st_qty,
                     cur_st_index, cur_st_file_size, cur_srec_id, states_per_file,
                     state_dirty, state_closed, sbuf, target, todo, clock>>
  BY DEF TruncMap, Kept, Empty, files, flags
<1>3. /\ state_qty \in Nat /\ target \in Nat /\ target + 1 \in 1..state_qty
      /\ state_closed
  BY <1>1, TargetFacts
<1>4. FlushedMap \in Seq(Descriptor) /\ Len(FlushedMap) = state_qty
      /\ IsPrefixOf(FlushedMap, state_map)
  BY <1>1, FlushedMapType DEF MapInv
<1>5. /\ dmap' \in Seq(Descriptor) /\ Len(dmap') = target
      /\ \A i \in 1..target : dmap'[i] = state_map[i]
  BY <1>2, <1>3, <1>4, SubSeqFacts DEF IsPrefixOf
<1>6. FlushedMap' = dmap'
  BY <1>2, <1>5, ConcatEmptySeq DEF FlushedMap
<1>7. IsPrefixOf(dmap', state_map)
  BY <1>3, <1>5 DEF IsPrefixOf, state_qty
<1>8. TypeOK'
  <2>1. FilesTyped' /\ FlagsTyped'
    BY <1>1, <1>2 DEF TypeOK, FilesTyped, FlagsTyped
  <2>2. MapsTyped'
    BY <1>1, <1>2, <1>5, EmptySeq DEF TypeOK, MapsTyped
  <2>3. CountsTyped' /\ CallTyped'
    BY <1>1, <1>2 DEF TypeOK, CountsTyped, CallTyped
  <2>. QED
    BY <2>1, <2>2, <2>3 DEF TypeOK
<1>9. MapInv'
  <2>1. IsPrefixOf(FlushedMap', state_map')
    BY <1>2, <1>6, <1>7 DEF IsPrefixOf
  <2>2. Len(FlushedMap') = target' /\ state_qty' = state_qty /\ Len(tbuf') = 0
    BY <1>2, <1>5, <1>6 DEF state_qty
  <2>. QED
    BY <1>1, <1>2, <1>3, <2>1, <2>2 DEF MapInv, Empty
<1>10. OrderInv'
  <2>1. Ordered(dmap')
    BY <1>1, <1>5, <1>7, PrefixOrdered DEF OrderInv, TypeOK, MapsTyped
  <2>. QED
    BY <1>1, <1>2, <2>1 DEF OrderInv
<1>11. FileInv'
  BY <1>1, <1>2 DEF FileInv, state_qty
<1>12. CountInv'
  BY <1>1, <1>2, CountKept
<1>. QED
  BY <1>8, <1>9, <1>10, <1>11, <1>12 DEF IInv

LEMMA TruncEndInv ==
    ASSUME IInv, TruncEnd
    PROVE  IInv'
<1>1. TypeOK /\ MapInv /\ OrderInv /\ FileInv /\ CountInv /\ open /\ call = "end_map"
  BY DEF IInv, TruncEnd
<1>. DEFINE last == state_map[target].file
            count == CountLast(last)
            short == SubSeq(file_map, 1, st_file_count)
<1>2. /\ dtrailer' = TRUE /\ state_map' = SubSeq(state_map, 1, target)
      /\ target = 0 => /\ file_map' = << >> /\ file_st_qty' = 0
                       /\ cur_st_file_size' = 0 /\ st_file_count' = 0
      /\ target # 0 => /\ file_st_qty' = count
                       /\ file_map' = [short EXCEPT ![last + 1] = count]
                       /\ UNCHANGED <<cur_st_file_size, st_file_count>>
      /\ call' = "none" /\ target' = 0
      /\ UNCHANGED <<dfile, dmap, dlimit, open, cur_st_index, cur_srec_id, states_per_file,
                     state_dirty, state_closed, sbuf, tbuf, todo, clock>>
  BY DEF TruncEnd, flags, stdio
<1>3. /\ state_qty \in Nat /\ target \in Nat /\ target + 1 \in 1..state_qty
      /\ state_closed
      /\ TargetFile \in Nat
      /\ target > 0 => /\ last \in Nat /\ last < Len(file_map)
                       /\ TargetFile = last + (IF TargetOffset = 0 THEN 1 ELSE 0)
  BY <1>1, TargetFacts
<1>4. state_map \in Seq(Descriptor) /\ file_map \in Seq(Nat) /\ Len(file_map) \in Nat
      /\ Len(state_map) = state_qty
  BY <1>1, LenProperties DEF TypeOK, MapsTyped, CountsTyped, state_qty
<1>5. /\ state_map' \in Seq(Descriptor) /\ state_qty' = target
      /\ \A i \in 1..target : state_map'[i] = state_map[i]
  BY <1>2, <1>3, <1>4, SubSeqFacts DEF state_qty
<1>6. count \in Nat
  BY <1>2, <1>5, StatesInSet DEF CountLast
<1>7. target > 0 => /\ st_file_count = last + 1 /\ st_file_count \in 1..Len(file_map)
                    /\ short \in Seq(Nat) /\ Len(short) = st_file_count
                    /\ \A f \in 1..st_file_count : short[f] = file_map[f]
  <2>. SUFFICES ASSUME target > 0
                PROVE  /\ st_file_count = last + 1 /\ st_file_count \in 1..Len(file_map)
                       /\ short \in Seq(Nat) /\ Len(short) = st_file_count
                       /\ \A f \in 1..st_file_count : short[f] = file_map[f]
    OBVIOUS
  <2>1. st_file_count = last + 1
    BY <1>1 DEF FileInv
  <2>2. st_file_count \in 1..Len(file_map)
    BY <1>3, <1>4, <2>1
  <2>. QED
    BY <1>4, <2>1, <2>2, SubSeqFacts
<1>. HIDE DEF last, count, short
<1>8. target > 0 => /\ file_map' \in Seq(Nat) /\ Len(file_map') = st_file_count
                    /\ \A f \in 1..st_file_count :
                          file_map'[f] = IF f = last + 1 THEN count ELSE file_map[f]
  <2>. SUFFICES ASSUME target > 0
                PROVE  /\ file_map' \in Seq(Nat) /\ Len(file_map') = st_file_count
                       /\ \A f \in 1..st_file_count :
                             file_map'[f] = IF f = last + 1 THEN count ELSE file_map[f]
    OBVIOUS
  <2>1. file_map' = [short EXCEPT ![last + 1] = count] /\ last + 1 \in 1..Len(short)
    BY <1>2, <1>3, <1>7
  <2>. QED
    BY <1>6, <1>7, <2>1, ExceptSeq
<1>9. TypeOK'
  <2>1. FilesTyped'
    BY <1>1, <1>2 DEF TypeOK, FilesTyped
  <2>2. FlagsTyped'
    BY <1>1, <1>2 DEF TypeOK, FlagsTyped
  <2>3. MapsTyped'
    BY <1>1, <1>2, <1>5 DEF TypeOK, MapsTyped
  <2>4. CallTyped'
    BY <1>1, <1>2 DEF TypeOK, CallTyped
  <2>5. CountsTyped'
    <3>1. CASE target = 0
      BY <1>1, <1>2, <3>1, EmptySeq DEF TypeOK, CountsTyped
    <3>2. CASE target > 0
      BY <1>1, <1>2, <1>6, <1>8, <3>2 DEF TypeOK, CountsTyped
    <3>. QED
      BY <1>3, <3>1, <3>2
  <2>. QED
    BY <2>1, <2>2, <2>3, <2>4, <2>5 DEF TypeOK
<1>10. MapInv'
  <2>1. FlushedMap' = FlushedMap /\ Len(FlushedMap) = target
        /\ IsPrefixOf(FlushedMap, state_map)
    BY <1>1, <1>2 DEF FlushedMap, MapInv
  <2>2. IsPrefixOf(FlushedMap', state_map')
    BY <1>3, <1>5, <2>1 DEF IsPrefixOf, state_qty
  <2>3. todo' = {}
    BY <1>1, <1>2 DEF MapInv
  <2>. QED
    BY <1>1, <1>2, <1>3, <1>5, <2>1, <2>2, <2>3 DEF MapInv
<1>11. OrderInv'
  <2>1. IsPrefixOf(state_map', state_map)
    BY <1>3, <1>4, <1>5 DEF IsPrefixOf, state_qty
  <2>2. Ordered(state_map')
    BY <1>1, <1>4, <1>5, <2>1, PrefixOrdered DEF OrderInv
  <2>. QED
    BY <1>1, <1>2, <2>2 DEF OrderInv
<1>12. FileInv'
  <2>1. CASE target = 0
    <3>1. cur_st_index = NoFile /\ Len(file_map') = 0 /\ state_qty' = 0
          /\ st_file_count' = 0
      BY <1>1, <1>2, <1>5, <2>1 DEF FileInv
    <3>2. \A g \in DOMAIN dfile' : ~(g < 0)
      BY <1>1, <1>2 DEF TypeOK, FilesTyped
    <3>. QED
      BY <1>1, <1>2, <3>1, <3>2 DEF FileInv
  <2>2. CASE target > 0
    <3>1. /\ Len(file_map') = st_file_count' /\ st_file_count' = last + 1
          /\ file_st_qty' = file_map'[st_file_count'] /\ st_file_count' \in Nat
      BY <1>2, <1>3, <1>7, <1>8, <2>2
    <3>2. /\ 0..st_file_count' - 1 \subseteq DOMAIN dfile'
          /\ cur_st_index' \in {NoFile, st_file_count' - 1}
      BY <1>1, <1>2, <2>2 DEF FileInv
    <3>3. \A i \in 1..state_qty' : state_map'[i].file < st_file_count'
      <4>1. \A i \in 1..target : state_map[i].file <= last
        BY <1>1, <1>3, <1>4, <2>2 DEF OrderInv, Ordered, last
      <4>2. \A i \in 1..target : state_map[i].file \in Nat
        BY <1>1, <1>3, DescriptorFields
      <4>. QED
        BY <1>3, <1>5, <2>2, <3>1, <4>1, <4>2
    <3>4. state_qty' > 0 /\ state_map'[state_qty'].file = st_file_count' - 1
      <4>1. state_map'[target] = state_map[target]
        BY <1>3, <1>5, <2>2
      <4>2. state_map'[target].file = last
        BY <4>1 DEF last
      <4>. QED
        BY <1>3, <1>5, <2>2, <3>1, <4>2
    <3>5. \A g \in DOMAIN dfile' : g < st_file_count' => 0..g \subseteq DOMAIN dfile'
      BY <1>1, <1>2, <3>1, <3>2 DEF TypeOK, FilesTyped
    <3>. QED
      BY <1>1, <1>2, <3>1, <3>2, <3>3, <3>4, <3>5 DEF FileInv
  <2>. QED
    BY <1>3, <2>1, <2>2
<1>13. CountInv'
  <2>1. CASE target = 0
    BY <1>2, <2>1 DEF CountInv
  <2>2. CASE target > 0
    <3>. SUFFICES ASSUME NEW f \in 1..st_file_count
                  PROVE  file_map'[f] = StatesIn(state_map', f - 1)
      BY <1>2, <1>8, <2>2 DEF CountInv
    <3>1. CASE f = last + 1
      BY <1>2, <1>3, <1>8, <2>2, <3>1 DEF count, CountLast
    <3>2. CASE f # last + 1
      <4>1. f \in 1..Len(file_map) /\ f - 1 < last /\ f \in Nat
        BY <1>3, <1>4, <1>7, <2>2, <3>2
      <4>2. \A i \in target + 1..Len(state_map) : state_map[i].file # f - 1
        <5>1. \A i \in target + 1..Len(state_map) : last <= state_map[i].file
          BY <1>1, <1>3, <1>4, <2>2 DEF OrderInv, Ordered, last
        <5>2. \A i \in target + 1..Len(state_map) : state_map[i].file \in Nat
          BY <1>1, <1>3, <1>4, DescriptorFields
        <5>. QED
          BY <1>3, <2>2, <4>1, <5>1, <5>2
      <4>3. target \in 1..Len(state_map)
        BY <1>3, <1>4, <2>2
      <4>4. StatesIn(state_map', f - 1) = StatesIn(state_map, f - 1)
        BY <1>2, <1>4, <4>2, <4>3, StatesInPrefix
      <4>5. file_map[f] = StatesIn(state_map, f - 1)
        BY <1>1, <4>1 DEF CountInv
      <4>. QED
        BY <1>8, <2>2, <3>2, <4>4, <4>5
    <3>. QED
      BY <3>1, <3>2
  <2>. QED
    BY <1>3, <2>1, <2>2
<1>. QED
  BY <1>9, <1>10, <1>11, <1>12, <1>13 DEF IInv

-----------------------------------------------------------------------------
(***************************************************************************)
(* The end of a process, and the next one                                  *)
(***************************************************************************)
\* Nothing of the writer's memory survives; what it wrote must be in order.
LEMMA ForgetInv ==
    ASSUME TypeOK, Forget, FilesTyped', dlimit' \in Nat, dtrailer' \in BOOLEAN,
           dmap' \in Seq(Descriptor), Ordered(dmap'), clock' = clock,
           \A g \in DOMAIN dfile' : \A i \in 1..Len(dmap') :
               g <= dmap'[i].file => 0..g \subseteq DOMAIN dfile'
    PROVE  IInv'
<1>1. /\ ~open' /\ open' \in BOOLEAN /\ state_map' = << >> /\ file_map' = << >>
      /\ st_file_count' = 0 /\ file_st_qty' = 0
      /\ cur_st_index' = NoFile /\ cur_st_file_size' = 0
      /\ cur_srec_id' = 0 /\ states_per_file' = 0
      /\ state_dirty' = FALSE /\ state_closed' = FALSE
      /\ tbuf' = << >> /\ call' = "none" /\ target' = 0 /\ todo' = {}
  BY DEF Forget, Empty
<1>2. MapsTyped'
  BY <1>1, EmptySeq DEF MapsTyped
<1>3. CountsTyped'
  BY <1>1, SrecAssumption, EmptySeq DEF CountsTyped
<1>4. FlagsTyped'
  BY <1>1 DEF FlagsTyped
<1>5. CallTyped'
  BY <1>1 DEF CallTyped, TypeOK
<1>6. MapInv'
  BY <1>1 DEF MapInv, Empty
<1>7. OrderInv'
  <2>1. Ordered(state_map')
    BY <1>1 DEF Ordered
  <2>. QED
    BY <2>1 DEF OrderInv
<1>8. FileInv'
  BY <1>1 DEF FileInv
<1>9. CountInv'
  BY <1>1 DEF CountInv
<1>. QED
  BY <1>2, <1>3, <1>4, <1>5, <1>6, <1>7, <1>8, <1>9 DEF TypeOK, IInv

\* While a process has the family open, the files that the map on disk names
\* have no gap below a file that is there.
LEMMA MapFiles ==
    ASSUME IInv, open, NEW map \in Seq(Descriptor), IsPrefixOf(map, state_map)
    PROVE  /\ Ordered(map)
           /\ \A g \in DOMAIN dfile : \A i \in 1..Len(map) :
                  g <= map[i].file => 0..g \subseteq DOMAIN dfile
<1>1. TypeOK /\ OrderInv /\ FileInv
  BY DEF IInv
<1>2. Ordered(map)
  BY <1>1, PrefixOrdered DEF OrderInv, TypeOK, MapsTyped
<1>3. \A i \in 1..Len(map) : map[i].file < Len(file_map) /\ map[i].file \in Nat
  <2>1. \A i \in 1..Len(map) : i \in 1..state_qty /\ map[i] = state_map[i]
    BY <1>1, LenProperties DEF IsPrefixOf, state_qty, TypeOK, MapsTyped
  <2>. QED
    BY <1>1, <2>1, DescriptorFields DEF FileInv
<1>4. Len(file_map) \in Nat /\ DOMAIN dfile \subseteq Nat
  BY <1>1, LenProperties DEF TypeOK, FilesTyped, CountsTyped
<1>5. \A g \in DOMAIN dfile : g < Len(file_map) => 0..g \subseteq DOMAIN dfile
  BY <1>1 DEF FileInv
<1>. QED
  BY <1>2, <1>3, <1>4, <1>5

LEMMA PrefixOfFlushed ==
    ASSUME IInv, open
    PROVE  /\ dmap \in Seq(Descriptor) /\ IsPrefixOf(dmap, state_map)
           /\ FlushedMap \in Seq(Descriptor) /\ IsPrefixOf(FlushedMap, state_map)
<1>1. TypeOK /\ MapInv
  BY DEF IInv
<1>2. /\ dmap \in Seq(Descriptor) /\ tbuf \in Seq(Descriptor)
      /\ FlushedMap \in Seq(Descriptor) /\ FlushedMap = dmap \o tbuf
      /\ IsPrefixOf(FlushedMap, state_map)
  BY <1>1, FlushedMapType DEF TypeOK, MapsTyped, MapInv, FlushedMap
<1>3. IsPrefixOf(dmap, state_map)
  BY <1>2, ConcatProperties, LenProperties DEF IsPrefixOf
<1>. QED
  BY <1>2, <1>3

LEMMA CloseMapInv ==
    ASSUME IInv, CloseMap
    PROVE  IInv'
<1>1. TypeOK /\ MapInv /\ OrderInv /\ FileInv /\ CountInv /\ open /\ call = "none"
  BY DEF IInv, CloseMap, Idle
<1>. DEFINE unended == state_dirty /\ ~state_closed /\ state_qty > 0
            lost == IF unended THEN <<state_map[state_qty]>> ELSE << >>
<1>2. /\ dmap' = FlushedMap \o lost /\ dtrailer' = (FlushedTrailer \/ lost # << >>)
      /\ tbuf' = << >> /\ call' = "close"
      /\ UNCHANGED <<dfile, dlimit, open, state_map, file_map, st_file_count, file_st_qty,
                     cur_st_index, cur_st_file_size, cur_srec_id, states_per_file,
                     state_dirty, state_closed, sbuf, target, todo, clock>>
  BY DEF CloseMap, files, flags, Empty
<1>3. todo = {} /\ state_qty \in Nat
  BY <1>1, LenProperties DEF CloseMap, TypeOK, MapsTyped, state_qty
<1>4. FlushedMap \in Seq(Descriptor) /\ IsPrefixOf(FlushedMap, state_map)
  BY <1>1, PrefixOfFlushed
<1>5. dmap' \in Seq(Descriptor) /\ IsPrefixOf(dmap', state_map)
  <2>1. CASE unended
    <3>1. state_map[state_qty] \in Descriptor
      BY <1>1, <1>3, <2>1, DescriptorFields
    <3>2. Len(FlushedMap) = state_qty - 1
      BY <1>1, <2>1 DEF MapInv
    <3>3. dmap' = FlushedMap \o <<state_map[state_qty]>>
      BY <1>2, <2>1
    <3>4. dmap' = Append(FlushedMap, state_map[state_qty])
      BY <1>4, <3>1, <3>3, AppendIsConcat
    <3>5. /\ dmap' \in Seq(Descriptor) /\ Len(dmap') = state_qty
          /\ \A i \in 1..state_qty - 1 : dmap'[i] = FlushedMap[i]
          /\ dmap'[state_qty] = state_map[state_qty]
      BY <1>3, <1>4, <3>1, <3>2, <3>4, AppendProperties
    <3>. QED
      BY <1>3, <1>4, <3>2, <3>5 DEF IsPrefixOf, state_qty
  <2>2. CASE ~unended
    BY <1>2, <1>4, <2>2, ConcatEmptySeq
  <2>. QED
    BY <2>1, <2>2
<1>6. FlushedMap' = dmap'
  BY <1>2, <1>5, ConcatEmptySeq DEF FlushedMap
<1>7. dtrailer' \in BOOLEAN
  BY <1>2
<1>8. TypeOK'
  <2>1. FilesTyped' /\ MapsTyped'
    BY <1>1, <1>2, <1>5, EmptySeq DEF TypeOK, FilesTyped, MapsTyped
  <2>2. FlagsTyped'
    BY <1>1, <1>2, <1>7 DEF TypeOK, FlagsTyped
  <2>3. CountsTyped' /\ CallTyped'
    BY <1>1, <1>2 DEF TypeOK, CountsTyped, CallTyped
  <2>. QED
    BY <2>1, <2>2, <2>3 DEF TypeOK
<1>9. MapInv'
  <2>1. IsPrefixOf(FlushedMap', state_map') /\ Len(tbuf') = 0
    BY <1>2, <1>5, <1>6 DEF IsPrefixOf
  <2>. QED
    BY <1>1, <1>2, <1>3, <2>1 DEF MapInv, Empty
<1>10. OrderInv'
  <2>1. Ordered(dmap')
    BY <1>1, <1>5, PrefixOrdered DEF OrderInv, TypeOK, MapsTyped
  <2>. QED
    BY <1>1, <1>2, <2>1 DEF OrderInv
<1>11. FileInv'
  BY <1>1, <1>2 DEF FileInv, state_qty
<1>12. CountInv'
  BY <1>1, <1>2, CountKept
<1>. QED
  BY <1>8, <1>9, <1>10, <1>11, <1>12 DEF IInv

LEMMA CloseFileInv ==
    ASSUME IInv, CloseFile
    PROVE  IInv'
<1>1. TypeOK /\ open /\ Forget /\ dfile' = Flushed /\ sbuf' = Empty
      /\ UNCHANGED <<dmap, dtrailer, dlimit, clock>>
  BY DEF IInv, CloseFile, Forget
<1>2. FilesTyped' /\ DOMAIN dfile' = DOMAIN dfile
  BY <1>1, FlushTyped
<1>3. dmap' \in Seq(Descriptor) /\ dlimit' \in Nat
  BY <1>1 DEF TypeOK, MapsTyped, CountsTyped
<1>4. dtrailer' \in BOOLEAN
  BY <1>1 DEF TypeOK, FlagsTyped
<1>5. /\ Ordered(dmap')
      /\ \A g \in DOMAIN dfile' : \A i \in 1..Len(dmap') :
             g <= dmap'[i].file => 0..g \subseteq DOMAIN dfile'
  BY <1>1, <1>2, <1>3, PrefixOfFlushed, MapFiles
<1>. QED
  BY <1>1, <1>2, <1>3, <1>4, <1>5, ForgetInv

LEMMA CrashInv ==
    ASSUME IInv, NEW written, NEW mapped, Crash(written, mapped)
    PROVE  IInv'
<1>1. /\ TypeOK /\ open /\ Forget /\ sbuf' = Empty /\ UNCHANGED <<dlimit, clock>>
      /\ dfile' = Flushed \/ dfile' = dfile
      /\ \/ dmap' = FlushedMap /\ dtrailer' = FlushedTrailer
         \/ UNCHANGED <<dmap, dtrailer>>
  BY DEF IInv, Crash, Forget
<1>2. FilesTyped' /\ DOMAIN dfile' = DOMAIN dfile
  <2>1. CASE dfile' = Flushed
    BY <1>1, <2>1, FlushTyped
  <2>2. CASE dfile' = dfile
    BY <1>1, <2>2, EmptySeq DEF TypeOK, FilesTyped, Empty
  <2>. QED
    BY <1>1, <2>1, <2>2
<1>3. dmap' \in Seq(Descriptor) /\ IsPrefixOf(dmap', state_map)
  BY <1>1, PrefixOfFlushed
<1>4. dtrailer' \in BOOLEAN
  BY <1>1 DEF TypeOK, FlagsTyped, FlushedTrailer
<1>5. dlimit' \in Nat
  BY <1>1 DEF TypeOK, CountsTyped
<1>6. /\ Ordered(dmap')
      /\ \A g \in DOMAIN dfile' : \A i \in 1..Len(dmap') :
             g <= dmap'[i].file => 0..g \subseteq DOMAIN dfile'
  BY <1>1, <1>2, <1>3, MapFiles
<1>. QED
  BY <1>1, <1>2, <1>3, <1>4, <1>5, <1>6, ForgetInv

LEMMA ReopenInv ==
    ASSUME IInv, Reopen
    PROVE  IInv'
<1>1. TypeOK /\ MapInv /\ OrderInv /\ FileInv /\ ~open /\ dmap \in Seq(Descriptor)
  BY DEF IInv, Reopen, TypeOK, MapsTyped
<1>2. PICK count \in {0} \cup {d.file + 1 : d \in Range(dmap)} :
          /\ \A d \in Range(dmap) : d.file < count
          /\ count = 0 \/ count - 1 \in DOMAIN dfile
          /\ state_map' = dmap
          /\ file_map' = [f \in 1..count |-> StatesIn(dmap, f - 1)]
          /\ st_file_count' = count
          /\ cur_st_index' = count - 1
          /\ file_st_qty' = IF count = 0 THEN 0 ELSE StatesIn(dmap, count - 1)
          /\ cur_st_file_size' = IF count = 0 THEN 0 ELSE Len(dfile[count - 1])
  BY DEF Reopen
<1>3. /\ open' = TRUE /\ states_per_file' = dlimit /\ state_closed' = TRUE
      /\ UNCHANGED <<dfile, dmap, dtrailer, dlimit, cur_srec_id, state_dirty, sbuf, tbuf,
                     call, target, todo, clock>>
  BY DEF Reopen, disk, stdio, caller
<1>4. call = "none" /\ tbuf = << >> /\ todo = {}
  BY <1>1 DEF MapInv, Empty
<1>5. Len(dmap) \in Nat /\ \A i \in 1..Len(dmap) : dmap[i] \in Range(dmap)
                                                 /\ dmap[i].file \in Nat
  <2>1. Len(dmap) \in Nat /\ \A i \in 1..Len(dmap) : dmap[i] \in Descriptor
    BY <1>1, ElementOfSeq, LenProperties
  <2>2. \A i \in 1..Len(dmap) : dmap[i].file \in Nat
    BY <2>1 DEF Descriptor
  <2>3. \A i \in 1..Len(dmap) : dmap[i] \in Range(dmap)
    BY <1>1, LenProperties DEF Range
  <2>. QED
    BY <2>1, <2>2, <2>3
<1>6. /\ count \in Nat
      /\ count > 0 => \E i \in 1..Len(dmap) : dmap[i].file = count - 1
  <2>1. CASE count = 0
    BY <2>1
  <2>2. CASE count # 0
    <3>1. PICK d \in Range(dmap) : count = d.file + 1
      BY <1>2, <2>2
    <3>2. PICK i \in 1..Len(dmap) : dmap[i] = d
      BY <1>1, <3>1, LenProperties DEF Range
    <3>. QED
      BY <1>5, <3>1, <3>2
  <2>. QED
    BY <2>1, <2>2
<1>7. \A f : StatesIn(dmap, f) \in Nat
  BY <1>1, StatesInSet
<1>8. file_map' \in Seq(Nat) /\ Len(file_map') = count
      /\ \A f \in 1..count : file_map'[f] = StatesIn(dmap, f - 1)
  <2>1. file_map' \in [1..count -> Nat]
    BY <1>2, <1>6, <1>7
  <2>. QED
    BY <1>2, <1>6, <2>1
<1>9. TypeOK'
  <2>1. FilesTyped'
    BY <1>1, <1>3 DEF TypeOK, FilesTyped
  <2>2. MapsTyped'
    BY <1>1, <1>2, <1>3 DEF TypeOK, MapsTyped
  <2>3. FlagsTyped'
    BY <1>1, <1>3 DEF TypeOK, FlagsTyped
  <2>4. CallTyped'
    BY <1>1, <1>3 DEF TypeOK, CallTyped
  <2>5. CountsTyped'
    <3>1. cur_st_file_size' \in Nat
      BY <1>1, <1>2, LenProperties DEF TypeOK, FilesTyped
    <3>2. cur_st_index' \in Nat \cup {NoFile} /\ file_st_qty' \in Nat
      BY <1>2, <1>6, <1>7 DEF NoFile
    <3>. QED
      BY <1>1, <1>2, <1>3, <1>6, <1>8, <3>1, <3>2 DEF TypeOK, CountsTyped
  <2>. QED
    BY <2>1, <2>2, <2>3, <2>4, <2>5 DEF TypeOK
<1>10. MapInv'
  <2>1. FlushedMap' = dmap /\ state_map' = dmap
    BY <1>1, <1>2, <1>3, <1>4, ConcatEmptySeq DEF FlushedMap
  <2>. QED
    BY <1>3, <1>4, <1>5, <2>1 DEF MapInv, IsPrefixOf, Empty, state_qty
<1>11. OrderInv'
  BY <1>1, <1>2, <1>3 DEF OrderInv
<1>12. FileInv'
  <2>1. count > 0 => /\ 0..count - 1 \subseteq DOMAIN dfile
                     /\ Len(dmap) > 0 /\ dmap[Len(dmap)].file = count - 1
    <3>. SUFFICES ASSUME count > 0
                  PROVE  /\ 0..count - 1 \subseteq DOMAIN dfile
                         /\ Len(dmap) > 0 /\ dmap[Len(dmap)].file = count - 1
      OBVIOUS
    <3>1. PICK i \in 1..Len(dmap) : dmap[i].file = count - 1
      BY <1>6
    <3>2. count - 1 \in DOMAIN dfile
      BY <1>2, <1>6
    <3>3. 0..count - 1 \subseteq DOMAIN dfile
      BY <1>1, <1>6, <3>1, <3>2 DEF FileInv
    <3>4. Len(dmap) > 0 /\ dmap[i].file <= dmap[Len(dmap)].file
      BY <1>1, <1>5, <3>1 DEF OrderInv, Ordered
    <3>5. dmap[Len(dmap)].file < count
      BY <1>2, <1>5, <3>4
    <3>. QED
      BY <1>5, <1>6, <3>1, <3>3, <3>4, <3>5
  <2>2. \A g \in DOMAIN dfile : g < count => 0..g \subseteq DOMAIN dfile
    BY <1>1, <1>6, <2>1 DEF TypeOK, FilesTyped
  <2>3. 0..count - 1 \subseteq DOMAIN dfile
    BY <1>6, <2>1
  <2>4. \A i \in 1..Len(dmap) : dmap[i].file < count
    BY <1>2, <1>5
  <2>5. cur_st_index' # NoFile => count > 0 /\ file_st_qty' = file_map'[count]
    BY <1>2, <1>6, <1>8 DEF NoFile
  <2>. QED
    BY <1>2, <1>3, <1>4, <1>8, <2>1, <2>2, <2>3, <2>4, <2>5 DEF FileInv, state_qty
<1>13. CountInv'
  BY <1>2, <1>8 DEF CountInv
<1>. QED
  BY <1>9, <1>10, <1>11, <1>12, <1>13 DEF IInv

-----------------------------------------------------------------------------
(***************************************************************************)
(* The theorems                                                            *)
(***************************************************************************)
LEMMA StutterInv ==
    ASSUME IInv, UNCHANGED vars
    PROVE  IInv'
<1>1. UNCHANGED <<dfile, dmap, dtrailer, dlimit, open, state_map, file_map, st_file_count,
                  file_st_qty, cur_st_index, cur_st_file_size, cur_srec_id,
                  states_per_file, state_dirty, state_closed, sbuf, tbuf, call, target,
                  todo, clock>>
  BY DEF vars, disk, files, flags, stdio, caller
<1>2. TypeOK'
  <2>1. FilesTyped' /\ MapsTyped' /\ FlagsTyped'
    BY <1>1 DEF IInv, TypeOK, FilesTyped, MapsTyped, FlagsTyped
  <2>2. CountsTyped' /\ CallTyped'
    BY <1>1 DEF IInv, TypeOK, CountsTyped, CallTyped
  <2>. QED
    BY <2>1, <2>2 DEF TypeOK
<1>3. MapInv' /\ OrderInv' /\ CountInv'
  BY <1>1, MapKept, OrderKept, CountKept DEF IInv
<1>4. FileInv'
  BY <1>1, FileKept DEF IInv
<1>. QED
  BY <1>2, <1>3, <1>4 DEF IInv

\* Every call, every step of a restart or a close, every crash and every
\* reopening preserves the invariant.
THEOREM NextInv ==
    ASSUME RestartsClosed, IInv, [Next]_vars
    PROVE  IInv'
<1>1. ASSUME NEW s \in Srecs, NewState(s) PROVE IInv'
  BY <1>1, NewStateInv
<1>2. ASSUME NEW k \in todo, WriteSubrec(k) PROVE IInv'
  BY <1>2, WriteSubrecInv
<1>3. CASE EndState
  BY <1>3, EndStateInv
<1>4. ASSUME NEW i \in 1..state_qty, NEW k \in 1..SrecSize[state_map[i].srec],
             RewriteSubrec(i, k)
      PROVE  IInv'
  BY <1>4, RewriteSubrecInv
<1>5. CASE Partition
  BY <1>5, CloseStateFileInv DEF Partition
<1>6. ASSUME NEW n \in Limits, LimitStates(n) PROVE IInv'
  BY <1>6, LimitStatesInv
<1>7. ASSUME NEW f, NEW i, RestartAtState(f, i) PROVE IInv'
  BY <1>7, RestartAtStateInv
<1>8. ASSUME NEW f, RestartAtFile(f) PROVE IInv'
  BY <1>8, RestartAtFileInv
<1>9. CASE TruncUnlink
  BY <1>9, TruncUnlinkInv
<1>10. CASE TruncFile
  BY <1>10, TruncFileInv
<1>11. CASE TruncMap
  BY <1>11, TruncMapInv
<1>12. CASE TruncEnd
  BY <1>12, TruncEndInv
<1>13. CASE CloseMap
  BY <1>13, CloseMapInv
<1>14. CASE CloseFile
  BY <1>14, CloseFileInv
<1>15. ASSUME NEW written, NEW mapped, Crash(written, mapped) PROVE IInv'
  BY <1>15, CrashInv
<1>16. CASE Reopen
  BY <1>16, ReopenInv
<1>17. CASE UNCHANGED vars
  BY <1>17, StutterInv
<1>. QED
  BY <1>1, <1>2, <1>3, <1>4, <1>5, <1>6, <1>7, <1>8, <1>9, <1>10, <1>11, <1>12, <1>13,
     <1>14, <1>15, <1>16, <1>17 DEF Next

\* The invariant holds in every behaviour.
THEOREM Invariant ==
    ASSUME RestartsClosed
    PROVE  Spec => []IInv
<1>1. Init => IInv
  BY InitInv
<1>2. IInv /\ [Next]_vars => IInv'
  BY NextInv
<1>. QED
  BY <1>1, <1>2, PTL DEF Spec

\* Every variable of the writer keeps to what its C field can hold.
THEOREM TypeCorrect ==
    ASSUME RestartsClosed
    PROVE  Spec => []TypeOK
<1>1. IInv => TypeOK
  BY DEF IInv
<1>. QED
  BY <1>1, Invariant, PTL

LEMMA MapInvExact ==
    ASSUME TypeOK, MapInv
    PROVE  MapIsMemory
<1>. SUFFICES ASSUME Idle
              PROVE  FlushedMap = Ended
  BY DEF MapIsMemory
<1>1. /\ FlushedMap \in Seq(Descriptor) /\ state_map \in Seq(Descriptor)
      /\ Len(FlushedMap) \in Nat /\ Len(state_map) = state_qty /\ state_qty \in Nat
      /\ IsPrefixOf(FlushedMap, state_map) /\ open /\ call = "none"
  BY FlushedMapType, LenProperties DEF TypeOK, MapsTyped, state_qty, MapInv, Idle
<1>. DEFINE n == IF state_closed THEN state_qty ELSE state_qty - 1
<1>2. CASE n >= 0
  <2>1. Len(FlushedMap) = n
    BY <1>1, <1>2 DEF MapInv
  <2>2. /\ SubSeq(state_map, 1, n) \in Seq(Descriptor) /\ Len(SubSeq(state_map, 1, n)) = n
        /\ \A i \in 1..n : SubSeq(state_map, 1, n)[i] = state_map[i]
    BY <1>1, <1>2, SubSeqFacts
  <2>3. FlushedMap = SubSeq(state_map, 1, n)
    BY <1>1, <1>2, <2>1, <2>2, SeqEqual DEF IsPrefixOf
  <2>. QED
    BY <2>3 DEF Ended
<1>3. CASE n < 0
  <2>1. FlushedMap = << >>
    BY <1>1, <1>3, EmptySeq DEF IsPrefixOf
  <2>2. SubSeq(state_map, 1, n) = << >>
    BY <1>1, <1>3, SubSeqEmpty
  <2>. QED
    BY <2>1, <2>2 DEF Ended
<1>. QED
  BY <1>1, <1>2, <1>3

\* Between calls the map on disk, with what stdio holds back, lists exactly the
\* states that have been ended, whatever was restarted, lost or reopened.
THEOREM MapExact ==
    ASSUME RestartsClosed
    PROVE  Spec => []MapIsMemory
<1>1. IInv => MapIsMemory
  BY MapInvExact DEF IInv
<1>. QED
  BY <1>1, Invariant, PTL

\* The counts that place the next record and decide when a file is full agree
\* with the state map and with the files there are.
THEOREM CountsCorrect ==
    ASSUME RestartsClosed
    PROVE  Spec => []CountsAgree
<1>1. IInv => CountsAgree
  <2>. SUFFICES ASSUME IInv, Idle
                PROVE  /\ st_file_count = Len(file_map)
                       /\ \A f \in 1..st_file_count :
                              file_map[f] = StatesIn(state_map, f - 1)
                       /\ \A d \in Range(state_map) : d.file < st_file_count
                       /\ cur_st_index \in {NoFile, st_file_count - 1}
                       /\ cur_st_index # NoFile => file_st_qty = file_map[st_file_count]
                       /\ 0..st_file_count - 1 \subseteq DOMAIN dfile
    BY DEF CountsAgree
  <2>1. TypeOK /\ FileInv /\ CountInv /\ open /\ call = "none"
    BY DEF IInv, Idle
  <2>2. \A d \in Range(state_map) : d.file < Len(file_map)
    BY <2>1, LenProperties DEF Range, FileInv, TypeOK, MapsTyped, state_qty
  <2>. QED
    BY <2>1, <2>2 DEF FileInv, CountInv
<1>. QED
  BY <1>1, Invariant, PTL

LEMMA StatesInBounds ==
    ASSUME NEW map \in Seq(Descriptor), NEW n \in 1..Len(map), NEW f, map[n].file = f
    PROVE  StatesIn(map, f) \in 1..Len(map)
<1>. DEFINE S == {i \in 1..Len(map) : map[i].file = f}
<1>1. Len(map) \in Nat
  BY LenProperties
<1>2. IsFiniteSet(1..Len(map)) /\ Cardinality(1..Len(map)) = Len(map)
  BY <1>1, FS_Interval
<1>3. S \subseteq 1..Len(map) /\ n \in S
  OBVIOUS
<1>4. IsFiniteSet(S) /\ Cardinality(S) <= Len(map) /\ Cardinality(S) \in Nat
  BY <1>2, <1>3, FS_Subset, FS_CardinalityType
<1>5. Cardinality(S) # 0
  BY <1>3, <1>4, FS_EmptySet
<1>6. Cardinality(S) \in 1..Len(map)
  BY <1>1, <1>4, <1>5
<1>. QED
  BY <1>6 DEF StatesIn

\* prep_for_new_data finds the record it places the next one after in the map,
\* whatever was restarted, partitioned or reopened before: it never reads
\* state_map[-1], nor beyond the map's end.
THEOREM PreviousIsKnown ==
    ASSUME RestartsClosed
    PROVE  Spec => []PreviousKnown
<1>1. IInv => PreviousKnown
  <2>. SUFFICES ASSUME IInv, Idle, ~OpenNext
                PROVE  file_st_qty \in 1..state_qty
    BY DEF PreviousKnown
  <2>1. /\ TypeOK /\ FileInv /\ CountInv /\ open /\ call = "none"
        /\ cur_st_index # NoFile
    BY DEF IInv, Idle, OpenNext
  <2>2. /\ st_file_count = Len(file_map) /\ cur_st_index = st_file_count - 1
        /\ cur_st_index \in Nat /\ st_file_count \in Nat
        /\ file_st_qty = file_map[st_file_count]
    BY <2>1 DEF FileInv, TypeOK, CountsTyped
  <2>3. st_file_count \in 1..Len(file_map)
    BY <2>2
  <2>4. state_qty > 0 /\ state_map[state_qty].file = st_file_count - 1
    BY <2>1, <2>2, <2>3 DEF FileInv
  <2>5. state_map \in Seq(Descriptor) /\ state_qty = Len(state_map)
        /\ state_qty \in 1..Len(state_map)
    BY <2>1, <2>4, LenProperties DEF TypeOK, MapsTyped, state_qty
  <2>6. StatesIn(state_map, st_file_count - 1) \in 1..state_qty
    BY <2>4, <2>5, StatesInBounds
  <2>. QED
    BY <2>1, <2>2, <2>3, <2>6 DEF CountInv
<1>. QED
  BY <1>1, Invariant, PTL

-----------------------------------------------------------------------------
(***************************************************************************)
(* The family keeps the promise of StateArchive: StateLog, for             *)
(* applications that end their states before they restart, implements it   *)
(* under the refinement mapping of StateLog's instance Archive.            *)
(***************************************************************************)
\* What Archive's variables stand for.
Log == Times(FlushedMap)
Current == IF Unended THEN state_map[state_qty].time ELSE 0

LEMMA TimesType ==
    ASSUME NEW map \in Seq(Descriptor)
    PROVE  Times(map) \in Seq(Nat) /\ Len(Times(map)) = Len(map)
<1>1. Len(map) \in Nat /\ DOMAIN map = 1..Len(map)
  BY LenProperties
<1>2. \A i \in 1..Len(map) : map[i].time \in Nat
  <2>1. \A i \in 1..Len(map) : map[i] \in Descriptor
    BY ElementOfSeq
  <2>. QED
    BY <2>1 DEF Descriptor
<1>. QED
  BY <1>1, <1>2 DEF Times

LEMMA TimesAppend ==
    ASSUME NEW map \in Seq(Descriptor), NEW d \in Descriptor
    PROVE  Times(Append(map, d)) = Append(Times(map), d.time)
<1>. DEFINE new == Append(map, d)
            s == Times(new)
            t == Append(Times(map), d.time)
<1>1. /\ new \in Seq(Descriptor) /\ Len(new) = Len(map) + 1 /\ new[Len(map) + 1] = d
      /\ \A i \in 1..Len(map) : new[i] = map[i]
      /\ Len(map) \in Nat
  BY AppendProperties, LenProperties
<1>2. s \in Seq(Nat) /\ Len(s) = Len(map) + 1
  BY <1>1, TimesType
<1>3. d.time \in Nat
  BY DEF Descriptor
<1>4. /\ t \in Seq(Nat) /\ Len(t) = Len(map) + 1 /\ t[Len(map) + 1] = d.time
      /\ \A i \in 1..Len(map) : t[i] = Times(map)[i]
  BY <1>3, TimesType, AppendProperties
<1>5. \A i \in 1..Len(map) : Times(map)[i] = map[i].time
  BY LenProperties DEF Times
<1>6. \A i \in 1..Len(map) + 1 : s[i] = new[i].time
  BY <1>1, LenProperties DEF Times
<1>. HIDE DEF s, t, new
<1>7. \A i \in 1..Len(map) + 1 : s[i] = t[i]
  BY <1>1, <1>4, <1>5, <1>6
<1>8. s = t
  BY <1>2, <1>4, <1>7, SeqEqual
<1>. QED
  BY <1>8 DEF s, t, new

LEMMA TimesPrefix ==
    ASSUME NEW map \in Seq(Descriptor), NEW n \in 0..Len(map)
    PROVE  Times(SubSeq(map, 1, n)) = SubSeq(Times(map), 1, n)
<1>. DEFINE short == SubSeq(map, 1, n)
            s == Times(short)
            t == SubSeq(Times(map), 1, n)
<1>1. /\ short \in Seq(Descriptor) /\ Len(short) = n
      /\ \A i \in 1..n : short[i] = map[i]
      /\ Len(map) \in Nat
  BY SubSeqFacts, LenProperties
<1>2. s \in Seq(Nat) /\ Len(s) = n
  BY <1>1, TimesType
<1>3. /\ t \in Seq(Nat) /\ Len(t) = n
      /\ \A i \in 1..n : t[i] = Times(map)[i]
  BY TimesType, SubSeqFacts
<1>4. \A i \in 1..Len(map) : Times(map)[i] = map[i].time
  BY LenProperties DEF Times
<1>5. \A i \in 1..n : s[i] = short[i].time
  BY <1>1, LenProperties DEF Times
<1>. HIDE DEF s, t, short
<1>6. \A i \in 1..n : s[i] = t[i]
  <2>. SUFFICES ASSUME NEW i \in 1..n PROVE s[i] = t[i]
    OBVIOUS
  <2>1. i \in 1..Len(map)
    BY <1>1
  <2>. QED
    BY <2>1, <1>1, <1>3, <1>4, <1>5
<1>7. s = t
  BY <1>2, <1>3, <1>6, SeqEqual
<1>. QED
  BY <1>7 DEF s, t, short

\* Current tells whether a state is being written.
LEMMA CurrentFacts ==
    ASSUME TypeOK
    PROVE  /\ Unended => Current \in Nat /\ Current # 0
                         /\ Current = state_map[state_qty].time
           /\ ~Unended => Current = 0
<1>1. Unended => state_qty \in 1..state_qty
  BY LenProperties DEF Unended, TypeOK, MapsTyped, state_qty
<1>2. CASE Unended
  <2>1. Current = state_map[state_qty].time
    BY <1>2 DEF Current
  <2>2. state_map[state_qty].time \in Nat \ {0}
    BY <1>1, <1>2, DescriptorFields
  <2>. QED
    BY <1>2, <2>1, <2>2
<1>3. CASE ~Unended
  BY <1>3 DEF Current
<1>. QED
  BY <1>2, <1>3

\* The mapped form of Archive's operators.
LEMMA ArchiveDefs ==
    /\ Archive!Init <=> (Log = << >> /\ Current = 0)
    /\ Archive!Begin <=> /\ Current' \in Nat \ {0}
                         /\ Log' = IF Current = 0 THEN Log ELSE Append(Log, Current)
    /\ Archive!End <=> /\ Current # 0
                       /\ Log' = (IF Current = 0 THEN Log ELSE Append(Log, Current))
                       /\ Current' = 0
    /\ \A i : Archive!Restart(i) <=> /\ Current = 0
                                     /\ Log' = SubSeq(Log, 1, i)
                                     /\ Current' = Current
    /\ Archive!Fail <=> /\ \/ Log' = Log
                           \/ write_tfile /\ Log # << >>
                              /\ Log' = SubSeq(Log, 1, Len(Log) - 1)
                        /\ Current' = 0
BY DEF Archive!Init, Archive!Begin, Archive!End, Archive!Restart, Archive!Fail,
       Archive!Ended, Archive!None, Log, Current

-----------------------------------------------------------------------------
(***************************************************************************)
(* One lemma for each kind of step                                         *)
(***************************************************************************)
\* A step that changes neither map, nor which states have been ended.
LEMMA MapsStutter ==
    ASSUME UNCHANGED <<dmap, tbuf, state_map, open, state_closed>>,
           \/ UNCHANGED call
           \/ state_closed \/ state_qty = 0
    PROVE  Log' = Log /\ Current' = Current
<1>1. Log' = Log
  BY DEF Log, FlushedMap
<1>2. Unended' <=> Unended
  BY DEF Unended, Idle, state_qty
<1>3. Current' = Current
  BY <1>2 DEF Current, state_qty
<1>. QED
  BY <1>1, <1>3

LEMMA NewStateArchive ==
    ASSUME IInv, IInv', NEW s \in Srecs, NewState(s)
    PROVE  Archive!Begin
<1>1. /\ TypeOK /\ TypeOK' /\ MapInv /\ Idle /\ CloseLastState /\ ~state_closed'
      /\ open' /\ call' = "none" /\ Len(state_map') = Len(state_map) + 1
  <2>1. \E d : state_map' = Append(state_map, d) /\ d \in Descriptor
    <3>1. PICK d : state_map' = Append(state_map, d)
      BY DEF NewState
    <3>2. state_map \in Seq(Descriptor) /\ state_map' \in Seq(Descriptor)
      BY DEF IInv, TypeOK, MapsTyped
    <3>3. d \in Descriptor
      BY <3>1, <3>2, ElementOfSeq, LenProperties
    <3>. QED
      BY <3>1, <3>3
  <2>2. Len(state_map') = Len(state_map) + 1
    BY <2>1, AppendProperties DEF IInv, TypeOK, MapsTyped
  <2>. QED
    BY <2>2 DEF NewState, IInv, Idle, caller
<1>2. Unended'
  BY <1>1, LenProperties DEF Unended, Idle, state_qty, TypeOK, MapsTyped
<1>3. Current' \in Nat /\ Current' # 0
  <2>1. state_map' \in Seq(Descriptor) /\ state_qty' > 0 /\ state_qty' = Len(state_map')
    BY <1>1, <1>2 DEF TypeOK, MapsTyped, Unended, state_qty
  <2>2. state_map'[state_qty'] \in Descriptor
    BY <2>1, LenProperties, ElementOfSeq
  <2>3. Current' = state_map'[state_qty'].time
    BY <1>2 DEF Current
  <2>. QED
    BY <2>2, <2>3 DEF Descriptor
<1>4. /\ Unended => FlushedMap' = Append(FlushedMap, state_map[state_qty])
      /\ ~Unended => FlushedMap' = FlushedMap
  BY <1>1, CloseLastStateMap DEF Unended
<1>5. Log' = IF Current = 0 THEN Log ELSE Append(Log, Current)
  <2>1. CASE Unended
    <3>1. state_qty \in 1..state_qty
      BY <1>1, <2>1, LenProperties DEF Unended, TypeOK, MapsTyped, state_qty
    <3>2. state_map[state_qty] \in Descriptor /\ FlushedMap \in Seq(Descriptor)
      BY <1>1, <3>1, DescriptorFields, FlushedMapType
    <3>3. Times(FlushedMap') = Append(Times(FlushedMap), state_map[state_qty].time)
      BY <1>4, <2>1, <3>2, TimesAppend
    <3>. QED
      BY <1>1, <2>1, <3>3, CurrentFacts DEF Log
  <2>2. CASE ~Unended
    BY <1>1, <1>4, <2>2, CurrentFacts DEF Log
  <2>. QED
    BY <2>1, <2>2
<1>. QED
  BY <1>3, <1>5, ArchiveDefs

LEMMA EndStateArchive ==
    ASSUME IInv, EndState
    PROVE  Archive!End \/ (Log' = Log /\ Current' = Current)
<1>1. TypeOK /\ MapInv /\ Idle /\ CloseLastState /\ state_closed'
  BY DEF IInv, EndState
<1>2. ~Unended' /\ Current' = 0
  BY <1>1 DEF Unended, Current
<1>3. CASE Unended
  <2>1. Current # 0 /\ Current = state_map[state_qty].time
    BY <1>1, <1>3, CurrentFacts
  <2>2. FlushedMap' = Append(FlushedMap, state_map[state_qty])
    BY <1>1, <1>3, CloseLastStateMap DEF Unended
  <2>3. state_qty \in 1..state_qty
    BY <1>1, <1>3, LenProperties DEF Unended, TypeOK, MapsTyped, state_qty
  <2>4. state_map[state_qty] \in Descriptor /\ FlushedMap \in Seq(Descriptor)
    BY <1>1, <2>3, DescriptorFields, FlushedMapType
  <2>5. Log' = Append(Log, Current)
    BY <2>1, <2>2, <2>4, TimesAppend DEF Log
  <2>6. QED
    BY <1>2, <2>1, <2>5, ArchiveDefs
<1>4. CASE ~Unended
  <2>1. Current = 0
    BY <1>4 DEF Current
  <2>2. FlushedMap' = FlushedMap
    BY <1>1, <1>4, CloseLastStateMap DEF Unended
  <2>3. QED
    BY <1>2, <2>1, <2>2 DEF Log
<1>5. QED
  BY <1>3, <1>4

LEMMA TruncMapArchive ==
    ASSUME IInv, TruncMap
    PROVE  \E i \in 0..Len(Log) : Archive!Restart(i)
<1>1. /\ TypeOK /\ MapInv /\ open /\ call = "cut_map" /\ call' = "end_map"
      /\ dmap' = SubSeq(FlushedMap, 1, target) /\ tbuf' = << >>
  BY DEF IInv, TruncMap, Kept, Empty
<1>2. target \in 0..state_qty /\ Len(FlushedMap) = state_qty /\ FlushedMap \in Seq(Descriptor)
  BY <1>1, TargetFacts, FlushedMapType DEF MapInv
<1>3. dmap' \in Seq(Descriptor)
  BY <1>1, <1>2, SubSeqFacts
<1>4. FlushedMap' = SubSeq(FlushedMap, 1, target)
  BY <1>1, <1>3, ConcatEmptySeq DEF FlushedMap
<1>5. Log' = SubSeq(Log, 1, target) /\ target \in 0..Len(Log)
  BY <1>2, <1>4, TimesPrefix, TimesType DEF Log
<1>6. ~Unended /\ ~Unended'
  BY <1>1 DEF Unended, Idle
<1>7. Current = 0 /\ Current' = 0
  BY <1>6 DEF Current
<1>. QED
  BY <1>5, <1>7, ArchiveDefs

LEMMA CloseMapArchive ==
    ASSUME IInv, CloseMap
    PROVE  Archive!End \/ Archive!Fail
<1>1. /\ TypeOK /\ MapInv /\ open /\ Idle /\ call' = "close" /\ tbuf' = << >>
      /\ dmap' = FlushedMap \o (IF state_dirty /\ ~state_closed /\ state_qty > 0
                               THEN <<state_map[state_qty]>> ELSE << >>)
  BY DEF IInv, CloseMap, Idle, Empty
<1>2. FlushedMap \in Seq(Descriptor)
  BY <1>1, FlushedMapType
<1>3. Current' = 0
  BY <1>1 DEF Current, Unended, Idle
<1>4. CASE state_dirty /\ Unended
  <2>1. state_qty \in 1..state_qty
    BY <1>1, <1>4, LenProperties DEF Unended, TypeOK, MapsTyped, state_qty
  <2>2. state_map[state_qty] \in Descriptor
    BY <1>1, <2>1, DescriptorFields
  <2>3. dmap' = FlushedMap \o <<state_map[state_qty]>>
    BY <1>1, <1>4 DEF Unended
  <2>4. dmap' = Append(FlushedMap, state_map[state_qty]) /\ dmap' \in Seq(Descriptor)
    BY <1>2, <2>2, <2>3, AppendIsConcat, AppendProperties
  <2>5. FlushedMap' = dmap'
    BY <1>1, <2>4, ConcatEmptySeq DEF FlushedMap
  <2>6. Current # 0 /\ Current = state_map[state_qty].time
    BY <1>1, <1>4, CurrentFacts
  <2>7. Log' = Append(Log, Current)
    BY <1>2, <2>2, <2>4, <2>5, <2>6, TimesAppend DEF Log
  <2>. QED
    BY <1>3, <2>6, <2>7, ArchiveDefs
<1>5. CASE ~(state_dirty /\ Unended)
  <2>1. dmap' = FlushedMap \o << >>
    BY <1>1, <1>5 DEF Unended
  <2>2. dmap' = FlushedMap
    BY <1>2, <2>1, ConcatEmptySeq
  <2>3. FlushedMap' = FlushedMap
    BY <1>1, <1>2, <2>2, ConcatEmptySeq DEF FlushedMap
  <2>4. Log' = Log
    BY <2>3 DEF Log
  <2>. QED
    BY <1>3, <2>4, ArchiveDefs
<1>. QED
  BY <1>4, <1>5

\* A process that is gone has kept its map, or has lost what stdio held back.
LEMMA ForgetArchive ==
    ASSUME IInv, open, Forget, \/ dmap' = FlushedMap
                             \/ dmap' = dmap
    PROVE  Archive!Fail
<1>1. TypeOK /\ MapInv /\ ~open' /\ tbuf' = << >>
  BY DEF IInv, Forget, Empty
<1>2. dmap \in Seq(Descriptor) /\ tbuf \in Seq(Descriptor) /\ FlushedMap \in Seq(Descriptor)
      /\ Len(dmap) \in Nat /\ Len(tbuf) \in Nat
      /\ Len(FlushedMap) = Len(dmap) + Len(tbuf)
  BY <1>1, FlushedMapType, LenProperties DEF TypeOK, MapsTyped
<1>3. Current' = 0
  BY <1>1 DEF Current, Unended, Idle
<1>4. FlushedMap' = dmap'
  BY <1>1, <1>2, ConcatEmptySeq DEF FlushedMap
<1>5. CASE dmap' = FlushedMap
  <2>1. Log' = Log
    BY <1>4, <1>5 DEF Log
  <2>. QED
    BY <1>3, <2>1, ArchiveDefs
<1>6. CASE dmap' = dmap /\ tbuf = << >>
  <2>1. FlushedMap = dmap
    BY <1>2, <1>6, ConcatEmptySeq DEF FlushedMap
  <2>2. Log' = Log
    BY <1>4, <1>6, <2>1 DEF Log
  <2>. QED
    BY <1>3, <2>2, ArchiveDefs
<1>7. CASE dmap' = dmap /\ tbuf # << >>
  <2>1. write_tfile
    BY <1>1, <1>7 DEF MapInv, Empty
  <2>2. Len(FlushedMap) = Len(dmap) + 1
    <3>1. Len(tbuf) <= 1
      BY <1>1 DEF MapInv
    <3>2. Len(tbuf) >= 1
      BY <1>2, <1>7, FirstElement
    <3>. QED
      BY <1>2, <3>1, <3>2
  <2>3. \A i \in 1..Len(dmap) : FlushedMap[i] = dmap[i]
    BY <1>2, ConcatProperties DEF FlushedMap
  <2>4. /\ SubSeq(FlushedMap, 1, Len(dmap)) \in Seq(Descriptor)
        /\ Len(SubSeq(FlushedMap, 1, Len(dmap))) = Len(dmap)
        /\ \A i \in 1..Len(dmap) : SubSeq(FlushedMap, 1, Len(dmap))[i] = FlushedMap[i]
    BY <1>2, <2>2, SubSeqFacts
  <2>5. SubSeq(FlushedMap, 1, Len(dmap)) = dmap
    BY <1>2, <2>3, <2>4, SeqEqual
  <2>6. /\ Log \in Seq(Nat) /\ Len(Log) = Len(dmap) + 1
        /\ Log' = SubSeq(Log, 1, Len(Log) - 1)
    <3>1. Log \in Seq(Nat) /\ Len(Log) = Len(dmap) + 1
      BY <1>2, <2>2, TimesType DEF Log
    <3>2. Times(dmap) = SubSeq(Log, 1, Len(dmap))
      <4>1. Len(dmap) \in 0..Len(FlushedMap)
        BY <1>2, <2>2
      <4>2. Times(SubSeq(FlushedMap, 1, Len(dmap))) = SubSeq(Times(FlushedMap), 1, Len(dmap))
        BY <1>2, <4>1, TimesPrefix
      <4>. QED
        BY <2>5, <4>2 DEF Log
    <3>3. Log' = Times(dmap)
      BY <1>4, <1>7 DEF Log
    <3>. QED
      BY <1>2, <3>1, <3>2, <3>3
  <2>7. Log # << >>
    BY <1>2, <2>6, EmptySeq
  <2>. QED
    BY <1>3, <2>1, <2>6, <2>7, ArchiveDefs
<1>. QED
  BY <1>5, <1>6, <1>7

LEMMA ReopenArchive ==
    ASSUME IInv, Reopen
    PROVE  Log' = Log /\ Current' = Current
<1>1. ~open /\ dmap' = dmap /\ tbuf' = tbuf /\ state_closed'
  BY DEF Reopen, disk, stdio
<1>2. ~Unended /\ ~Unended'
  BY <1>1 DEF Unended, Idle
<1>. QED
  BY <1>1, <1>2 DEF Log, FlushedMap, Current

LEMMA BeginTruncateArchive ==
    ASSUME state_closed \/ state_qty = 0, NEW i, BeginTruncate(i)
    PROVE  Log' = Log /\ Current' = Current
<1>1. UNCHANGED <<dmap, tbuf, state_map, open, state_closed>>
  BY DEF BeginTruncate, flags
<1>. QED
  BY <1>1, MapsStutter

\* Every step of the family is a step of the archive, or none.
LEMMA NextArchive ==
    ASSUME RestartsClosed, IInv, IInv', [Next]_vars
    PROVE  [Archive!Next]_<<Log, Current>>
<1>. SUFFICES Archive!Next \/ (Log' = Log /\ Current' = Current)
  OBVIOUS
<1>1. ASSUME NEW s \in Srecs, NewState(s) PROVE Archive!Next
  BY <1>1, NewStateArchive DEF Archive!Next
<1>2. ASSUME NEW k \in todo, WriteSubrec(k) PROVE Log' = Log /\ Current' = Current
  BY <1>2, MapsStutter DEF WriteSubrec, flags, caller
<1>3. CASE EndState
  BY <1>3, EndStateArchive DEF Archive!Next
<1>4. ASSUME NEW i, NEW k, RewriteSubrec(i, k) PROVE Log' = Log /\ Current' = Current
  BY <1>4, MapsStutter DEF RewriteSubrec, flags, caller
<1>5. CASE Partition
  BY <1>5, MapsStutter DEF Partition, flags, caller
<1>6. ASSUME NEW n \in Limits, LimitStates(n) PROVE Log' = Log /\ Current' = Current
  BY <1>6, MapsStutter DEF LimitStates, flags, stdio, caller
<1>7. ASSUME NEW f, NEW j, RestartAtState(f, j) PROVE Log' = Log /\ Current' = Current
  BY <1>7, BeginTruncateArchive DEF RestartAtState, MayRestart, RestartsClosed
<1>8. ASSUME NEW f, RestartAtFile(f) PROVE Log' = Log /\ Current' = Current
  <2>1. state_closed \/ state_qty = 0
    BY <1>8 DEF RestartAtFile, MayRestart, RestartsClosed
  <2>2. CASE \E i : BeginTruncate(i)
    BY <2>1, <2>2, BeginTruncateArchive
  <2>3. CASE UNCHANGED <<dmap, dtrailer, dlimit, open, state_map, file_map,
                         st_file_count, file_st_qty, cur_st_file_size, cur_srec_id,
                         states_per_file, flags, tbuf, caller, todo, clock>>
    BY <2>3, MapsStutter DEF flags, caller
  <2>. QED
    BY <1>8, <2>2, <2>3 DEF RestartAtFile
<1>9. CASE TruncUnlink
  BY <1>9, MapsStutter DEF TruncUnlink, flags, stdio, caller
<1>10. CASE TruncFile
  <2>1. state_closed
    BY <1>10, TargetFacts DEF TruncFile
  <2>. QED
    BY <1>10, <2>1, MapsStutter DEF TruncFile, flags, stdio
<1>11. CASE TruncMap
  <2>1. PICK i \in 0..Len(Log) : Archive!Restart(i)
    BY <1>11, TruncMapArchive
  <2>2. \E j \in 0..Len(Times(FlushedMap)) : Archive!Restart(j)
    BY <2>1 DEF Log
  <2>. QED
    BY <2>2 DEF Archive!Next
<1>12. CASE TruncEnd
  <2>1. state_closed /\ call = "end_map"
    BY <1>12, TargetFacts DEF TruncEnd
  <2>2. /\ dmap' = dmap /\ tbuf' = tbuf /\ state_closed' = state_closed
    BY <1>12 DEF TruncEnd, flags, stdio
  <2>3. ~Unended /\ ~Unended'
    BY <2>1, <2>2 DEF Unended, Idle
  <2>. QED
    BY <2>2, <2>3 DEF Log, FlushedMap, Current
<1>13. CASE CloseMap
  BY <1>13, CloseMapArchive DEF Archive!Next
<1>14. CASE CloseFile
  BY <1>14, ForgetArchive DEF CloseFile, Archive!Next
<1>15. ASSUME NEW written, NEW mapped, Crash(written, mapped) PROVE Archive!Next
  BY <1>15, ForgetArchive DEF Crash, Archive!Next
<1>16. CASE Reopen
  BY <1>16, ReopenArchive
<1>17. CASE UNCHANGED vars
  BY <1>17, MapsStutter DEF vars, disk, flags, stdio, caller
<1>. QED
  BY <1>1, <1>2, <1>3, <1>4, <1>5, <1>6, <1>7, <1>8, <1>9, <1>10, <1>11, <1>12, <1>13,
     <1>14, <1>15, <1>16, <1>17 DEF Next

LEMMA InitArchive ==
    ASSUME Init
    PROVE  Archive!Init
<1>1. dmap = << >> /\ tbuf = << >> /\ state_map = << >>
  BY DEF Init, Empty
<1>2. FlushedMap = << >>
  BY <1>1 DEF FlushedMap
<1>3. Log = << >>
  BY <1>2 DEF Log, Times
<1>4. ~Unended
  BY <1>1 DEF Unended, state_qty
<1>. QED
  BY <1>3, <1>4, ArchiveDefs DEF Current

\* StateLog implements StateArchive: seen through the map on disk the family is
\* a log that only a restart shortens and of which a dying process loses at most
\* the state being written and, with a T-file, the last one ended.
THEOREM Refinement ==
    ASSUME RestartsClosed
    PROVE  Spec => KeepsArchive
<1>1. Init => Archive!Init
  BY InitArchive
<1>2. IInv /\ IInv' /\ [Next]_vars => [Archive!Next]_<<Log, Current>>
  BY NextArchive
<1>. QED
  BY <1>1, <1>2, Invariant, PTL DEF Spec, KeepsArchive, Archive!Spec, Log, Current

-----------------------------------------------------------------------------
(***************************************************************************)
(* The data: where states are, that nothing takes them away, and that a    *)
(* family whose writer is gone can be opened again.                        *)
(***************************************************************************)
\* How an application uses the library when its states stay where they are
\* written: files are filled one after the other, to a limit that does not
\* change, and no record is written but at its own place.
FilledUse == /\ RestartsClosed
             /\ {"limits", "partition"} \cap App = {}
             /\ bytes_per_file_limit = 0

PlainUse == /\ FilledUse
            /\ {"rewrite_any", "crash_inside"} \cap App = {}
            /\ \A s \in Srecs : SrecSize[s] = SrecSize[0]

\* The states before file f.
Before(f) == dlimit * f

\* Where the state after k others of its file is.
Place(k) == k * RecordSize(0)

\* A file is not begun before the one before it is full.
Filled(map) ==
    \A i \in 1..Len(map) :
        /\ Before(map[i].file) < i
        /\ dlimit = 0 => map[i].file = 0
        /\ dlimit > 0 => i <= Before(map[i].file) + dlimit

\* After n states the last of the files is full.
LastFull(n) == Before(st_file_count) <= n /\ (dlimit = 0 => st_file_count = 0)

FillInv ==
    /\ open => states_per_file = dlimit /\ Filled(state_map)
    /\ ~open => Filled(dmap)
    /\ open /\ call \in {"none", "close"} /\ cur_st_index = NoFile => LastFull(state_qty)
    /\ call \in {"cut_map", "end_map"} /\ cur_st_index = NoFile /\ target > 0 => LastFull(target)

\* Records of one size follow each other without a gap.
Placed(map) == \A i \in 1..Len(map) : map[i].offset = Place(i - 1 - Before(map[i].file))

PlaceInv == /\ open => Placed(state_map)
            /\ ~open => Placed(dmap)

Missing(i) == IF i = state_qty THEN {state_map[i].offset + HDR + k : k \in todo} ELSE {}

Restarting == call \in {"unlink", "cut_map", "end_map"}

\* stdio holds nothing back for a file that is closed, nor during a
\* restart.
BufferInv == ~open \/ cur_st_index = NoFile \/ Restarting => sbuf = Empty

\* Subrecords are awaited for the state in progress, in the file that is open.
TodoInv == todo # {} => /\ ~state_closed /\ cur_st_index = state_map[state_qty].file
                        /\ todo \subseteq 1..SrecSize[state_map[state_qty].srec]

\* The data of the states that the map on disk has, when nobody writes;
AfterInv == ~open => \A i \in 1..Len(dmap) : Written(dfile, dmap[i])

\* of those that were ended, between calls: on disk already;
EndedInv == Idle => \A i \in 1..Len(FlushedMap) : Written(dfile, state_map[i])

\* of all, but for what is awaited: on disk with what stdio holds back;
HeldInv == open /\ ~Restarting =>
               \A i \in 1..state_qty : \A u \in Extent(state_map[i]) \ Missing(i) :
                   Holds(Flushed, state_map[i], u)

\* of those a restart keeps.
KeptInv == Restarting => \A i \in 1..target : Written(dfile, state_map[i])

DataInv == BufferInv /\ TodoInv /\ AfterInv /\ EndedInv /\ HeldInv /\ KeptInv

\* Whoever comes after the writer finds the map's trailer and the map's files.
LoadInv == /\ dtrailer \/ call = "end_map"
           /\ ~open => \A i \in 1..Len(dmap) : dmap[i].file \in DOMAIN dfile
-----------------------------------------------------------------------------
(***************************************************************************)
(* Places                                                                  *)
(***************************************************************************)
\* Files follow each other at distances of the limit.
LEMMA BeforeFacts ==
    ASSUME dlimit \in Nat
    PROVE  /\ Before(0) = 0
           /\ \A f \in Nat : Before(f) \in Nat /\ Before(f + 1) = Before(f) + dlimit
           /\ \A f, g \in Nat : f < g => Before(f) + dlimit <= Before(g)
<1>1. \A f \in Nat : Before(f) \in Nat /\ Before(f + 1) = Before(f) + dlimit
  BY DEF Before
<1>2. ASSUME NEW f \in Nat, NEW g \in Nat, f < g PROVE Before(f) + dlimit <= Before(g)
  <2>1. PICK k \in Nat : g = f + 1 + k
    <3>1. g - f - 1 \in Nat /\ g = f + 1 + (g - f - 1)
      BY <1>2
    <3>2. QED
      BY <3>1
  <2>2. dlimit * (f + 1 + k) = dlimit * f + dlimit + dlimit * k
    OBVIOUS
  <2>3. dlimit * k \in Nat /\ dlimit * f \in Nat
    OBVIOUS
  <2>4. QED
    BY <2>1, <2>2, <2>3 DEF Before
<1>3. QED
  BY <1>1, <1>2 DEF Before

\* Records of one size do too.
LEMMA PlaceFacts ==
    /\ RecordSize(0) \in Nat \ {0}
    /\ Place(0) = 0
    /\ \A k \in Int : Place(k) \in Int /\ Place(k + 1) = Place(k) + RecordSize(0)
    /\ \A k, l \in Int : k < l => Place(k) + RecordSize(0) <= Place(l)
<1> DEFINE r == RecordSize(0)
<1>1. r \in Nat \ {0}
  BY SrecAssumption DEF RecordSize, HDR
<1> HIDE DEF r
<1>2. \A k \in Int : k * r \in Int /\ (k + 1) * r = k * r + r
  BY <1>1
<1>3. ASSUME NEW k \in Int, NEW l \in Int, k < l PROVE k * r + r <= l * r
  <2>1. PICK m \in Nat : l = k + 1 + m
    <3>1. l - k - 1 \in Nat /\ l = k + 1 + (l - k - 1)
      BY <1>3
    <3>2. QED
      BY <3>1
  <2>2. (k + 1 + m) * r = k * r + r + m * r
    BY <1>1
  <2>3. m * r \in Nat /\ k * r \in Int
    BY <1>1
  <2>4. QED
    BY <1>1, <2>1, <2>2, <2>3
<1>4. 0 * r = 0
  BY <1>1
<1>5. QED
  BY <1>1, <1>2, <1>3, <1>4 DEF Place, r

\* The states of a file that is not the last are as many as the limit; those of
\* the last are the rest.
LEMMA FilledCounts ==
    ASSUME dlimit \in Nat, NEW map \in Seq(Descriptor), Filled(map), map # << >>
    PROVE  /\ \A f \in Nat : f < map[Len(map)].file /\ dlimit > 0 => StatesIn(map, f) = dlimit
           /\ StatesIn(map, map[Len(map)].file) = Len(map) - Before(map[Len(map)].file)
<1> DEFINE n == Len(map)
           last == map[n].file
<1>1. n \in Nat /\ n >= 1 /\ \A i \in 1..n : map[i].file \in Nat
  <2>1. n \in Nat /\ n >= 1
    BY EmptySeq, LenProperties
  <2>2. \A i \in 1..n : map[i] \in Descriptor
    BY ElementOfSeq
  <2>3. QED
    BY <2>1, <2>2 DEF Descriptor
<1>2. ASSUME NEW i \in 1..n
      PROVE  /\ Before(map[i].file) < i
             /\ dlimit = 0 => map[i].file = 0
             /\ dlimit > 0 => i <= Before(map[i].file) + dlimit
  BY DEF Filled
<1>3. last \in Nat /\ Before(last) \in Nat /\ Before(last) < n
      /\ (dlimit = 0 => last = 0) /\ (dlimit > 0 => n <= Before(last) + dlimit)
  <2>1. n \in 1..n
    BY <1>1
  <2>2. last \in Nat
    BY <1>1, <2>1
  <2>3. Before(last) \in Nat
    BY <2>2, BeforeFacts
  <2>4. /\ Before(map[n].file) < n
        /\ dlimit = 0 => map[n].file = 0
        /\ dlimit > 0 => n <= Before(map[n].file) + dlimit
    BY <1>2, <2>1
  <2>5. QED
    BY <2>2, <2>3, <2>4
<1> HIDE DEF last, n
<1>4. ASSUME NEW f \in Nat, f < last, dlimit > 0 PROVE StatesIn(map, f) = dlimit
  <2>1. Before(f) \in Nat /\ Before(f) + dlimit <= Before(last)
    BY <1>3, <1>4, BeforeFacts
  <2>2. ASSUME NEW i \in 1..n
        PROVE  map[i].file = f <=> i \in Before(f) + 1 .. Before(f) + dlimit
    <3> DEFINE g == map[i].file
    <3>1. g \in Nat /\ Before(g) \in Nat /\ Before(g) < i /\ i <= Before(g) + dlimit
      BY <1>1, <1>2, <1>4, BeforeFacts
    <3> HIDE DEF g
    <3>2. CASE g < f
      <4>1. Before(g) + dlimit <= Before(f)
        BY <3>1, <3>2, BeforeFacts
      <4>2. QED
        BY <2>1, <3>1, <3>2, <4>1 DEF g
    <3>3. CASE f < g
      <4>1. Before(f) + dlimit <= Before(g)
        BY <3>1, <3>3, BeforeFacts
      <4>2. QED
        BY <2>1, <3>1, <3>3, <4>1 DEF g
    <3>4. CASE f = g
      BY <2>1, <3>1, <3>4 DEF g
    <3>5. QED
      BY <3>1, <3>2, <3>3, <3>4
  <2>3. {i \in 1..n : map[i].file = f} = Before(f) + 1 .. Before(f) + dlimit
    <3>1. Before(f) + 1 .. Before(f) + dlimit \subseteq 1..n
      BY <1>1, <1>3, <2>1
    <3>2. QED
      BY <2>2, <3>1
  <2>4. Cardinality(Before(f) + 1 .. Before(f) + dlimit) = dlimit
    BY <1>4, <2>1, FS_Interval
  <2>5. QED
    BY <2>3, <2>4 DEF StatesIn, n
<1>5. StatesIn(map, last) = n - Before(last)
  <2>1. ASSUME NEW i \in 1..n PROVE map[i].file = last <=> i \in Before(last) + 1 .. n
    <3> DEFINE g == map[i].file
    <3>1. g \in Nat /\ Before(g) \in Nat /\ Before(g) < i
          /\ (dlimit = 0 => g = 0) /\ (dlimit > 0 => i <= Before(g) + dlimit)
      BY <1>1, <1>2, BeforeFacts
    <3> HIDE DEF g
    <3>2. CASE dlimit = 0
      BY <1>1, <1>3, <3>1, <3>2 DEF g
    <3>3. CASE dlimit > 0 /\ g < last
      <4>1. Before(g) + dlimit <= Before(last)
        BY <1>3, <3>1, <3>3, BeforeFacts
      <4>2. QED
        BY <1>3, <3>1, <3>3, <4>1 DEF g
    <3>4. CASE dlimit > 0 /\ last < g
      <4>1. Before(last) + dlimit <= Before(g)
        BY <1>3, <3>1, <3>4, BeforeFacts
      <4>2. QED
        BY <1>1, <1>3, <3>1, <3>4, <4>1
    <3>5. CASE last = g
      BY <1>1, <1>3, <3>1, <3>5 DEF g
    <3>6. QED
      BY <1>3, <3>1, <3>2, <3>3, <3>4, <3>5
  <2>2. {i \in 1..n : map[i].file = last} = Before(last) + 1 .. n
    <3>1. Before(last) + 1 .. n \subseteq 1..n
      BY <1>1, <1>3
    <3>2. QED
      BY <2>1, <3>1
  <2>3. Cardinality(Before(last) + 1 .. n) = n - Before(last)
    BY <1>1, <1>3, FS_Interval
  <2>4. QED
    BY <2>2, <2>3 DEF StatesIn, n
<1>6. QED
  BY <1>4, <1>5 DEF n, last

\* What is in order stays so when its end is cut off.
LEMMA FilledPrefix ==
    ASSUME NEW p \in Seq(Descriptor), NEW q \in Seq(Descriptor), IsPrefixOf(p, q)
    PROVE  (Filled(q) => Filled(p)) /\ (Placed(q) => Placed(p))
<1>1. \A i \in 1..Len(p) : i \in 1..Len(q) /\ p[i] = q[i]
  BY LenProperties DEF IsPrefixOf
<1>2. QED
  BY <1>1 DEF Filled, Placed

-----------------------------------------------------------------------------
(***************************************************************************)
(* Files are filled one after the other.                                   *)
(***************************************************************************)
\* What the writer's counts say of the place of the next state.
LEMMA NextPlace ==
    ASSUME FilledUse, IInv, FillInv, Idle, ~HardLimit,
           OpenNext \/ file_st_qty \in DOMAIN state_map
    PROVE  /\ dlimit \in Nat /\ state_qty \in Nat /\ st_file_count \in Nat
           /\ OpenNext => /\ Before(st_file_count) = state_qty
                          /\ dlimit = 0 => st_file_count = 0
           /\ ~OpenNext => /\ cur_st_index = st_file_count - 1 /\ cur_st_index \in Nat
                           /\ state_qty > 0 /\ state_map[state_qty].file = cur_st_index
                           /\ Before(cur_st_index) \in Nat
                           /\ Before(cur_st_index) < state_qty
                           /\ file_st_qty = state_qty - Before(cur_st_index)
                           /\ dlimit = 0 => cur_st_index = 0
                           /\ dlimit > 0 => file_st_qty < dlimit
<1>1. /\ TypeOK /\ FileInv /\ CountInv /\ open /\ call = "none"
      /\ bytes_per_file_limit = 0 /\ states_per_file = dlimit /\ Filled(state_map)
  BY DEF IInv, Idle, FilledUse, FillInv
<1>2. /\ dlimit \in Nat /\ state_map \in Seq(Descriptor) /\ state_qty = Len(state_map)
      /\ state_qty \in Nat /\ st_file_count \in Nat /\ cur_st_index \in Nat \cup {NoFile}
  BY <1>1, LenProperties DEF TypeOK, CountsTyped, MapsTyped, state_qty
<1>3. /\ st_file_count = Len(file_map)
      /\ cur_st_index \in {NoFile, st_file_count - 1}
      /\ cur_st_index # NoFile => file_st_qty = file_map[st_file_count]
      /\ st_file_count > 0 => state_qty > 0 /\ state_map[state_qty].file = st_file_count - 1
      /\ \A i \in 1..state_qty : state_map[i].file < st_file_count
  BY <1>1 DEF FileInv
<1>4. state_qty > 0 => st_file_count > 0
  <2>1. SUFFICES ASSUME state_qty > 0 PROVE st_file_count > 0
    OBVIOUS
  <2>2. state_qty \in 1..state_qty
    BY <1>2, <2>1
  <2>3. state_map[state_qty].file \in Nat /\ state_map[state_qty].file < st_file_count
    <3>1. state_map[state_qty] \in Descriptor
      BY <1>2, <2>2, ElementOfSeq
    <3>2. QED
      BY <1>3, <2>2, <3>1 DEF Descriptor
  <2>4. QED
    BY <1>2, <2>3
<1>5. ASSUME st_file_count > 0
      PROVE  /\ st_file_count - 1 \in Nat /\ state_qty > 0
             /\ Before(st_file_count - 1) \in Nat
             /\ Before(st_file_count) = Before(st_file_count - 1) + dlimit
             /\ Before(st_file_count - 1) < state_qty
             /\ dlimit > 0 => state_qty <= Before(st_file_count)
             /\ dlimit = 0 => st_file_count = 1
             /\ cur_st_index # NoFile => file_st_qty = state_qty - Before(st_file_count - 1)
  <2>1. /\ st_file_count - 1 \in Nat /\ state_qty > 0 /\ state_qty \in 1..state_qty
        /\ state_map[state_qty].file = st_file_count - 1
    BY <1>2, <1>3, <1>5
  <2>2. /\ Before(st_file_count - 1) \in Nat
        /\ Before((st_file_count - 1) + 1) = Before(st_file_count - 1) + dlimit
    BY <1>2, <2>1, BeforeFacts
  <2>3. (st_file_count - 1) + 1 = st_file_count
    BY <1>2
  <2>4. /\ Before(state_map[state_qty].file) < state_qty
        /\ dlimit = 0 => state_map[state_qty].file = 0
        /\ dlimit > 0 => state_qty <= Before(state_map[state_qty].file) + dlimit
    BY <1>1, <1>2, <2>1 DEF Filled
  <2>5. StatesIn(state_map, st_file_count - 1) = state_qty - Before(st_file_count - 1)
    <3>1. state_map # << >>
      BY <1>2, <2>1
    <3>2. QED
      BY <1>1, <1>2, <2>1, <3>1, FilledCounts
  <2>6. cur_st_index # NoFile => file_st_qty = StatesIn(state_map, st_file_count - 1)
    <3>1. st_file_count \in 1..Len(file_map)
      BY <1>2, <1>3, <1>5
    <3>2. file_map[st_file_count] = StatesIn(state_map, st_file_count - 1)
      BY <1>1, <3>1 DEF CountInv
    <3>3. QED
      BY <1>3, <3>2
  <2>7. QED
    BY <1>2, <2>1, <2>2, <2>3, <2>4, <2>5, <2>6
<1>6. ASSUME OpenNext
      PROVE  Before(st_file_count) = state_qty /\ (dlimit = 0 => st_file_count = 0)
  <2>1. CASE cur_st_index = NoFile
    <3>1. Before(st_file_count) <= state_qty /\ (dlimit = 0 => st_file_count = 0)
      BY <1>1, <2>1 DEF FillInv, LastFull
    <3>2. CASE st_file_count = 0
      BY <1>2, <1>4, <3>2, BeforeFacts
    <3>3. CASE st_file_count > 0
      BY <1>2, <1>5, <3>1, <3>3
    <3>4. QED
      BY <1>2, <3>2, <3>3
  <2>2. CASE cur_st_index # NoFile
    <3>1. dlimit > 0 /\ file_st_qty >= dlimit
      BY <1>1, <1>6, <2>2 DEF OpenNext, FileFull
    <3>2. st_file_count > 0
      BY <1>2, <1>3, <2>2 DEF NoFile
    <3>3. file_st_qty = state_qty - Before(st_file_count - 1)
      BY <1>5, <2>2, <3>2
    <3>4. QED
      BY <1>2, <1>5, <3>1, <3>2, <3>3
  <2>3. QED
    BY <2>1, <2>2
<1>7. ASSUME ~OpenNext
      PROVE  /\ cur_st_index = st_file_count - 1 /\ cur_st_index \in Nat
             /\ state_qty > 0 /\ state_map[state_qty].file = cur_st_index
             /\ Before(cur_st_index) \in Nat
             /\ Before(cur_st_index) < state_qty
             /\ file_st_qty = state_qty - Before(cur_st_index)
             /\ dlimit = 0 => cur_st_index = 0
             /\ dlimit > 0 => file_st_qty < dlimit
  <2>1. cur_st_index # NoFile /\ (dlimit > 0 => ~(file_st_qty >= dlimit))
    BY <1>1, <1>7 DEF OpenNext, FileFull
  <2>2. cur_st_index = st_file_count - 1 /\ cur_st_index \in Nat /\ st_file_count > 0
    BY <1>2, <1>3, <2>1 DEF NoFile
  <2>3. QED
    BY <1>2, <1>3, <1>5, <2>1, <2>2
<1>8. QED
  BY <1>2, <1>6, <1>7

\* A step within a session that adds no state, nor cuts one off.
LEMMA FillKept ==
    ASSUME FillInv, open, UNCHANGED <<dlimit, states_per_file, state_map, st_file_count, target, open>>,
           cur_st_index' = NoFile => cur_st_index = NoFile \/ call' = "unlink",
           call' \in {"none", "close"} => call \in {"none", "close"},
           call' \in {"cut_map", "end_map"} => call \in {"cut_map", "end_map"}
    PROVE  FillInv'
BY DEF FillInv, Filled, LastFull, Before, state_qty

\* mc_new_state puts the next state where the files are filled.
LEMMA NewStateFills ==
    ASSUME FilledUse, IInv, FillInv, ~HardLimit, NEW s \in Srecs, NewState(s)
    PROVE  FillInv'
<1> DEFINE file == IF OpenNext THEN st_file_count ELSE cur_st_index
           offset == IF OpenNext THEN 0 ELSE NextOffset
           d == [file |-> file, offset |-> offset, time |-> clock + 1, srec |-> s]
<1>1. /\ Idle /\ clock < MaxStates
      /\ OpenNext \/ file_st_qty \in DOMAIN state_map
      /\ state_map' = Append(state_map, d) /\ cur_st_index' = file
      /\ UNCHANGED <<dlimit, states_per_file, open, call>>
  BY DEF NewState, caller
<1>2. /\ dlimit \in Nat /\ state_qty \in Nat /\ st_file_count \in Nat
      /\ OpenNext => /\ Before(st_file_count) = state_qty
                     /\ dlimit = 0 => st_file_count = 0
      /\ ~OpenNext => /\ cur_st_index = st_file_count - 1 /\ cur_st_index \in Nat
                      /\ state_qty > 0 /\ state_map[state_qty].file = cur_st_index
                      /\ Before(cur_st_index) \in Nat
                      /\ Before(cur_st_index) < state_qty
                      /\ file_st_qty = state_qty - Before(cur_st_index)
                      /\ dlimit = 0 => cur_st_index = 0
                      /\ dlimit > 0 => file_st_qty < dlimit
  BY <1>1, NextPlace
<1>3. d \in Descriptor
  BY <1>1, NewPlace
<1>4. file \in Nat /\ d.file = file
  BY <1>3 DEF Descriptor
<1>5. /\ Before(file) <= state_qty
      /\ dlimit = 0 => file = 0
      /\ dlimit > 0 => state_qty + 1 <= Before(file) + dlimit
  BY <1>2
<1> HIDE DEF d, file, offset
<1>6. /\ state_map \in Seq(Descriptor) /\ Len(state_map') = state_qty + 1
      /\ \A i \in 1..state_qty : state_map'[i] = state_map[i]
      /\ state_map'[state_qty + 1] = d
  <2>1. state_map \in Seq(Descriptor) /\ state_qty = Len(state_map)
    BY DEF IInv, TypeOK, MapsTyped, state_qty
  <2>2. QED
    BY <1>1, <1>3, <2>1, AppendProperties
<1>7. \A f : Before(f)' = Before(f)
  BY <1>1 DEF Before
<1>8. ASSUME NEW i \in 1..Len(state_map')
      PROVE  /\ Before(state_map'[i].file) < i
             /\ dlimit = 0 => state_map'[i].file = 0
             /\ dlimit > 0 => i <= Before(state_map'[i].file) + dlimit
  <2>1. CASE i \in 1..state_qty
    <3>1. open /\ i \in 1..Len(state_map)
      BY <1>1, <2>1 DEF Idle, state_qty
    <3>2. /\ Before(state_map[i].file) < i
          /\ dlimit = 0 => state_map[i].file = 0
          /\ dlimit > 0 => i <= Before(state_map[i].file) + dlimit
      BY <3>1 DEF FillInv, Filled
    <3>3. QED
      BY <1>6, <2>1, <3>2
  <2>2. CASE i = state_qty + 1
    <3>1. state_map'[i].file = file
      BY <1>4, <1>6, <2>2
    <3>2. Before(file) \in Nat
      BY <1>2, <1>4, BeforeFacts
    <3>3. QED
      BY <1>2, <1>5, <2>2, <3>1, <3>2
  <2>3. QED
    BY <1>2, <1>6, <2>1, <2>2
<1>9. Filled(state_map)'
  BY <1>1, <1>7, <1>8 DEF Filled
<1>10. QED
  BY <1>1, <1>4, <1>9 DEF FillInv, Idle, NoFile

\* A restart cuts the target's file off where the one before it is full, or leaves
\* it to be filled.
LEMMA TruncFileFills ==
    ASSUME IInv, FillInv, TruncFile
    PROVE  FillInv'
<1>1. /\ open /\ call = "unlink" /\ call' = "cut_map"
      /\ UNCHANGED <<dlimit, states_per_file, state_map, target, open>>
  BY DEF TruncFile
<1>2. ASSUME cur_st_index' = NoFile, target > 0 PROVE LastFull(target)'
  <2>1. /\ state_qty \in Nat /\ target \in Nat /\ target + 1 \in 1..state_qty
        /\ TargetFile \in Nat
    BY <1>1, TargetFacts
  <2>2. st_file_count' = TargetFile
    BY <1>2, <2>1 DEF TruncFile, NoFile
  <2>3. target + 1 \in 1..Len(state_map) /\ Filled(state_map)
    BY <1>1, <2>1 DEF state_qty, FillInv
  <2>4. Before(TargetFile) < target + 1 /\ (dlimit = 0 => TargetFile = 0)
    BY <2>3 DEF Filled, TargetFile
  <2>5. dlimit \in Nat
    BY DEF IInv, TypeOK, CountsTyped
  <2>6. Before(TargetFile) \in Nat
    BY <2>1, <2>5, BeforeFacts
  <2>7. Before(st_file_count') <= target
    BY <2>1, <2>2, <2>4, <2>6
  <2>8. QED
    BY <1>1, <2>2, <2>4, <2>7 DEF LastFull, Before
<1>3. QED
  BY <1>1, <1>2 DEF FillInv, Filled, Before

\* Its last step cuts the map in memory: what is left fills the files.
LEMMA TruncEndFills ==
    ASSUME IInv, FillInv, TruncEnd
    PROVE  FillInv'
<1>1. /\ open /\ call = "end_map" /\ call' = "none"
      /\ state_map' = SubSeq(state_map, 1, target)
      /\ target = 0 => st_file_count' = 0
      /\ target # 0 => st_file_count' = st_file_count
      /\ UNCHANGED <<dlimit, states_per_file, open, cur_st_index>>
  BY DEF TruncEnd
<1>2. /\ state_qty \in Nat /\ target \in Nat /\ target + 1 \in 1..state_qty
  BY <1>1, TargetFacts
<1>3. state_map \in Seq(Descriptor) /\ target \in 0..Len(state_map) /\ dlimit \in Nat
  BY <1>2 DEF IInv, TypeOK, MapsTyped, CountsTyped, state_qty
<1>4. /\ state_map' \in Seq(Descriptor) /\ Len(state_map') = target
      /\ IsPrefixOf(state_map', state_map)
  BY <1>1, <1>2, <1>3, SubSeqFacts DEF IsPrefixOf
<1>5. Filled(state_map')
  BY <1>1, <1>3, <1>4, FilledPrefix DEF FillInv
<1>6. Filled(state_map)'
  BY <1>1, <1>5 DEF Filled, Before
<1>7. ASSUME cur_st_index' = NoFile PROVE LastFull(state_qty)'
  <2>1. CASE target = 0
    <3>1. Before(st_file_count') = 0
      BY <1>1, <1>3, <2>1, BeforeFacts
    <3>2. QED
      BY <1>1, <1>4, <2>1, <3>1 DEF LastFull, Before, state_qty
  <2>2. CASE target # 0
    <3>1. LastFull(target)
      BY <1>1, <1>2, <1>7, <2>2 DEF FillInv
    <3>2. QED
      BY <1>1, <1>4, <2>2, <3>1 DEF LastFull, Before, state_qty
  <2>3. QED
    BY <2>1, <2>2
<1>8. QED
  BY <1>1, <1>6, <1>7 DEF FillInv

\* What a process that ends leaves in the map is in order.
LEMMA EndFills ==
    ASSUME IInv, IInv', FillInv, open, ~open', IsPrefixOf(dmap', state_map), dlimit' = dlimit
    PROVE  FillInv'
<1>1. dmap' \in Seq(Descriptor) /\ state_map \in Seq(Descriptor) /\ call' = "none"
  BY DEF IInv, TypeOK, MapsTyped, MapInv
<1>2. Filled(dmap')
  BY <1>1, FilledPrefix DEF FillInv
<1>3. Filled(dmap)'
  BY <1>2 DEF Filled, Before
<1>4. QED
  BY <1>1, <1>3 DEF FillInv

\* A family is opened again with the counts that its map gives.
LEMMA ReopenFills ==
    ASSUME IInv, FillInv, Reopen
    PROVE  FillInv'
<1>1. /\ ~open /\ open' /\ state_map' = dmap /\ states_per_file' = dlimit /\ dlimit' = dlimit
      /\ UNCHANGED call /\ call = "none"
  BY DEF IInv, MapInv, Reopen, disk, caller
<1>2. ASSUME cur_st_index' = NoFile PROVE LastFull(state_qty)'
  <2>1. PICK count \in {0} \cup {d.file + 1 : d \in Range(dmap)} :
            /\ st_file_count' = count
            /\ cur_st_index' = count - 1
    BY DEF Reopen
  <2>2. dmap \in Seq(Descriptor) /\ dlimit \in Nat
    BY DEF IInv, TypeOK, MapsTyped, CountsTyped
  <2>3. count \in Nat
    <3>1. ASSUME NEW d \in Range(dmap) PROVE d.file \in Nat
      <4>1. PICK i \in 1..Len(dmap) : d = dmap[i]
        BY <2>2, LenProperties DEF Range
      <4>2. d \in Descriptor
        BY <2>2, <4>1, ElementOfSeq
      <4>3. QED
        BY <4>2 DEF Descriptor
    <3>2. QED
      BY <2>1, <3>1
  <2>4. st_file_count' = 0
    BY <1>2, <2>1, <2>3 DEF NoFile
  <2>5. Before(0) = 0 /\ Len(dmap) \in Nat
    BY <2>2, BeforeFacts, LenProperties
  <2>6. QED
    BY <1>1, <2>4, <2>5 DEF LastFull, Before, state_qty
<1>3. QED
  BY <1>1, <1>2 DEF FillInv, Filled, Before

\* Each call, each step of one, each crash and each reopening keeps the files
\* filled, while none reaches the library's own limit.
LEMMA FillNext ==
    ASSUME FilledUse, IInv, IInv', FillInv, ~HardLimit, [Next]_vars
    PROVE  FillInv'
<1>1. ASSUME NEW s \in Srecs, NewState(s) PROVE FillInv'
  BY <1>1, NewStateFills
<1>2. ASSUME NEW k \in todo, WriteSubrec(k) PROVE FillInv'
  BY <1>2, FillKept DEF WriteSubrec, Idle, caller
<1>3. CASE EndState
  <2>1. ASSUME cur_st_index' = NoFile PROVE cur_st_index = NoFile
    BY <1>3, <2>1 DEF EndState
  <2>2. QED
    BY <1>3, <2>1, FillKept DEF EndState, Idle, caller
<1>4. ASSUME NEW i, NEW k, RewriteSubrec(i, k) PROVE FillInv'
  BY <1>4, FillKept DEF RewriteSubrec, Idle, caller, files
<1>5. ASSUME Partition PROVE FALSE
  BY <1>5 DEF Partition, FilledUse
<1>6. ASSUME NEW n, LimitStates(n) PROVE FALSE
  BY <1>6 DEF LimitStates, FilledUse
<1>7. ASSUME NEW i, BeginTruncate(i), Idle PROVE FillInv'
  <2>1. /\ open /\ call = "none" /\ call' = "unlink"
        /\ UNCHANGED <<dlimit, states_per_file, state_map, st_file_count, open>>
    BY <1>7 DEF BeginTruncate, Idle
  <2>2. QED
    BY <2>1 DEF FillInv, Filled, Before
<1>8. ASSUME NEW f, NEW i, RestartAtState(f, i) PROVE FillInv'
  BY <1>7, <1>8 DEF RestartAtState, MayRestart
<1>9. ASSUME NEW f, RestartAtFile(f) PROVE FillInv'
  BY <1>7, <1>9 DEF RestartAtFile, MayRestart, FilledUse
<1>10. CASE TruncUnlink
  BY <1>10, FillKept DEF TruncUnlink, caller, files
<1>11. CASE TruncFile
  BY <1>11, TruncFileFills
<1>12. CASE TruncMap
  BY <1>12, FillKept DEF TruncMap, files
<1>13. CASE TruncEnd
  BY <1>13, TruncEndFills
<1>14. CASE CloseMap
  BY <1>14, FillKept DEF CloseMap, Idle, files
<1>15. CASE CloseFile
  <2>1. open /\ ~open' /\ dmap' = dmap /\ dlimit' = dlimit
    BY <1>15 DEF CloseFile, Forget
  <2>2. QED
    BY <2>1, PrefixOfFlushed, EndFills
<1>16. ASSUME NEW written, NEW mapped, Crash(written, mapped) PROVE FillInv'
  <2>1. open /\ ~open' /\ dmap' \in {dmap, FlushedMap} /\ dlimit' = dlimit
    BY <1>16 DEF Crash, Forget
  <2>2. QED
    BY <2>1, PrefixOfFlushed, EndFills
<1>17. CASE Reopen
  BY <1>17, ReopenFills
<1>18. CASE UNCHANGED vars
  <2>1. UNCHANGED <<dlimit, states_per_file, state_map, dmap, st_file_count, target, open,
                    cur_st_index, call>>
    BY <1>18 DEF vars, disk, files, caller
  <2>2. QED
    BY <2>1 DEF FillInv, Filled, LastFull, Before, state_qty
<1>19. QED
  BY <1>1, <1>2, <1>3, <1>4, <1>5, <1>6, <1>8, <1>9, <1>10, <1>11, <1>12, <1>13, <1>14, <1>15,
     <1>16, <1>17, <1>18 DEF Next

\* A new family has no state.
LEMMA InitFills == Init => FillInv
<1>1. SUFFICES ASSUME Init PROVE FillInv
  OBVIOUS
<1>2. dlimit \in Nat
  BY <1>1, LimitAssumption DEF Init
<1>3. Before(0) = 0
  BY <1>2, BeforeFacts
<1>4. QED
  BY <1>1, <1>3 DEF Init, FillInv, Filled, LastFull, state_qty

\* So the files are filled in every state, while none reaches the library's limit.
LEMMA AlwaysFilled ==
    ASSUME FilledUse
    PROVE  Spec /\ []~HardLimit => []FillInv
<1>1. RestartsClosed
  BY DEF FilledUse
<1>2. Spec => []IInv
  BY <1>1, Invariant
<1>3. IInv /\ IInv' /\ FillInv /\ ~HardLimit /\ [Next]_vars => FillInv'
  BY FillNext
<1>4. QED
  BY <1>2, <1>3, InitFills, PTL DEF Spec

\* If the limit on states per file never changes, no file is closed early and none
\* reaches the library's own limit, then every file but the last has exactly the
\* states of the limit, and the last has no more: whatever the application
\* restarted, and however often its process died, within a call too.
THEOREM FilesAreFilled ==
    ASSUME FilledUse
    PROVE  Spec /\ []~HardLimit => []FilesFilled
<1>1. ASSUME IInv, FillInv PROVE FilesFilled
  <2>1. SUFFICES ASSUME Idle, states_per_file > 0, NEW f \in 1..st_file_count
                 PROVE  IF f < st_file_count THEN file_map[f] = states_per_file
                        ELSE file_map[f] \in 1..states_per_file
    BY DEF FilesFilled
  <2>2. /\ TypeOK /\ FileInv /\ CountInv /\ open /\ call = "none"
        /\ states_per_file = dlimit /\ Filled(state_map)
    BY <1>1, <2>1 DEF IInv, Idle, FillInv
  <2>3. /\ dlimit \in Nat /\ dlimit > 0 /\ state_map \in Seq(Descriptor)
        /\ state_qty = Len(state_map) /\ state_qty \in Nat /\ st_file_count \in Nat
    BY <2>1, <2>2, LenProperties DEF TypeOK, CountsTyped, MapsTyped, state_qty
  <2>4. /\ st_file_count = Len(file_map) /\ f - 1 \in Nat /\ f \in 1..Len(file_map)
        /\ state_qty > 0 /\ state_map[state_qty].file = st_file_count - 1
    BY <2>1, <2>2, <2>3 DEF FileInv
  <2>5. file_map[f] = StatesIn(state_map, f - 1)
    BY <2>2, <2>4 DEF CountInv
  <2>6. state_map # << >>
    BY <2>3, <2>4
  <2>7. /\ f - 1 < st_file_count - 1 => StatesIn(state_map, f - 1) = dlimit
        /\ StatesIn(state_map, st_file_count - 1) = state_qty - Before(st_file_count - 1)
    BY <2>2, <2>3, <2>4, <2>6, FilledCounts
  <2>8. CASE f < st_file_count
    BY <2>2, <2>3, <2>4, <2>5, <2>7, <2>8
  <2>9. CASE ~(f < st_file_count)
    <3>1. f = st_file_count /\ st_file_count - 1 \in Nat
      BY <2>1, <2>3, <2>4, <2>9
    <3>2. Before(st_file_count - 1) \in Nat
      BY <2>3, <3>1, BeforeFacts
    <3>3. state_qty \in 1..Len(state_map)
      BY <2>3, <2>4
    <3>4. Before(st_file_count - 1) < state_qty /\ state_qty <= Before(st_file_count - 1) + dlimit
      BY <2>2, <2>3, <2>4, <3>3 DEF Filled
    <3>5. QED
      BY <2>2, <2>3, <2>5, <2>7, <2>9, <3>1, <3>2, <3>4
  <2>10. QED
    BY <2>8, <2>9
<1>2. RestartsClosed
  BY DEF FilledUse
<1>3. Spec => []IInv
  BY <1>2, Invariant
<1>4. Spec /\ []~HardLimit => []FillInv
  BY AlwaysFilled
<1>5. IInv /\ FillInv => FilesFilled
  BY <1>1
<1>6. QED
  BY <1>3, <1>4, <1>5, PTL

-----------------------------------------------------------------------------
(***************************************************************************)
(* Records of one size follow each other in each file.                     *)
(***************************************************************************)
\* mc_new_state puts a record behind the one before it in the file, although it
\* takes the place of another file's record of the same number.
LEMMA NewStatePlaced ==
    ASSUME PlainUse, IInv, FillInv, PlaceInv, ~HardLimit, NEW s \in Srecs, NewState(s)
    PROVE  PlaceInv'
<1> DEFINE file == IF OpenNext THEN st_file_count ELSE cur_st_index
           offset == IF OpenNext THEN 0 ELSE NextOffset
           d == [file |-> file, offset |-> offset, time |-> clock + 1, srec |-> s]
<1>1. /\ Idle /\ clock < MaxStates
      /\ OpenNext \/ file_st_qty \in DOMAIN state_map
      /\ state_map' = Append(state_map, d)
      /\ UNCHANGED <<dlimit, open>>
  BY DEF NewState
<1>2. /\ dlimit \in Nat /\ state_qty \in Nat /\ st_file_count \in Nat
      /\ OpenNext => Before(st_file_count) = state_qty
      /\ ~OpenNext => /\ cur_st_index \in Nat /\ Before(cur_st_index) \in Nat
                      /\ Before(cur_st_index) < state_qty
                      /\ file_st_qty = state_qty - Before(cur_st_index)
                      /\ dlimit = 0 => cur_st_index = 0
                      /\ dlimit > 0 => file_st_qty < dlimit
  BY <1>1, NextPlace DEF PlainUse
<1>3. d \in Descriptor
  BY <1>1, NewPlace
<1>4. d.file = file /\ d.offset = offset
  OBVIOUS
<1>5. /\ Filled(state_map) /\ Placed(state_map) /\ open
      /\ state_map \in Seq(Descriptor) /\ state_qty = Len(state_map)
      /\ cur_srec_id \in Srecs
  BY <1>1 DEF IInv, FillInv, PlaceInv, Idle, TypeOK, MapsTyped, CountsTyped, state_qty
<1>6. offset = Place(state_qty - Before(file))
  <2>1. CASE OpenNext
    BY <1>2, <2>1, PlaceFacts
  <2>2. CASE ~OpenNext
    <3> DEFINE c == file_st_qty
               g == state_map[c].file
    <3>1. c \in 1..state_qty /\ c = state_qty - Before(cur_st_index)
      BY <1>2, <2>2
    <3>2. state_map[c] \in Descriptor
      BY <1>5, <3>1, ElementOfSeq
    <3>3. g \in Nat
      BY <3>2 DEF Descriptor
    <3>4. Before(g) < c /\ (dlimit = 0 => g = 0)
      BY <1>5, <3>1 DEF Filled
    <3>5. state_map[c].offset = Place(c - 1 - Before(g))
      BY <1>5, <3>1 DEF Placed
    <3>6. RecordSize(cur_srec_id) = RecordSize(0)
      BY <1>5, SrecAssumption DEF PlainUse, RecordSize
    <3>7. NextOffset = state_map[c].offset + RecordSize(0)
      BY <3>6 DEF NextOffset
    <3> HIDE DEF c, g
    <3>8. g = 0
      <4>1. ASSUME 0 < g, dlimit > 0 PROVE FALSE
        <5>1. Before(0) = 0 /\ Before(0) + dlimit <= Before(g) /\ Before(g) \in Nat
          BY <1>2, <3>3, <4>1, BeforeFacts
        <5>2. c < dlimit
          BY <1>2, <2>2, <4>1 DEF c
        <5>3. QED
          BY <1>2, <3>1, <3>4, <4>1, <5>1, <5>2
      <4>2. QED
        BY <1>2, <3>3, <3>4, <4>1
    <3>9. Before(g) = 0
      BY <1>2, <3>8, BeforeFacts
    <3>10. c \in Nat /\ c - 1 \in Int /\ c - 1 - 0 = c - 1 /\ (c - 1) + 1 = c
      BY <1>2, <3>1
    <3>11. Place((c - 1) + 1) = Place(c - 1) + RecordSize(0)
      BY <3>10, PlaceFacts
    <3>12. NextOffset = Place(c)
      BY <3>5, <3>7, <3>9, <3>10, <3>11
    <3>13. QED
      BY <2>2, <3>1, <3>12
  <2>3. QED
    BY <2>1, <2>2
<1> HIDE DEF d, file, offset
<1>7. /\ Len(state_map') = state_qty + 1
      /\ \A i \in 1..state_qty : state_map'[i] = state_map[i]
      /\ state_map'[state_qty + 1] = d
  BY <1>1, <1>3, <1>5, AppendProperties
<1>8. ASSUME NEW i \in 1..Len(state_map')
      PROVE  state_map'[i].offset = Place(i - 1 - Before(state_map'[i].file))
  <2>1. CASE i \in 1..state_qty
    BY <1>5, <1>7, <2>1 DEF Placed
  <2>2. CASE i = state_qty + 1
    <3>1. i - 1 = state_qty
      BY <1>2, <2>2
    <3>2. QED
      BY <1>4, <1>6, <1>7, <2>2, <3>1
  <2>3. QED
    BY <1>2, <1>7, <2>1, <2>2
<1>9. QED
  BY <1>1, <1>5, <1>8 DEF PlaceInv, Placed, Before, Place

\* A process that ends, or a restart, leaves the first states where they are.
LEMMA PrefixPlaced ==
    ASSUME PlaceInv, open, IInv, IInv', dlimit' = dlimit,
           IF open' THEN IsPrefixOf(state_map', state_map) ELSE IsPrefixOf(dmap', state_map)
    PROVE  PlaceInv'
<1>1. dmap' \in Seq(Descriptor) /\ state_map \in Seq(Descriptor) /\ state_map' \in Seq(Descriptor)
      /\ Placed(state_map) /\ open' \in BOOLEAN
  BY DEF IInv, TypeOK, MapsTyped, FlagsTyped, PlaceInv
<1>2. IF open' THEN Placed(state_map') ELSE Placed(dmap')
  BY <1>1, FilledPrefix
<1>3. QED
  BY <1>1, <1>2 DEF PlaceInv, Placed, Before, Place

\* Each step of PlainUse keeps states at their places.
LEMMA PlaceNext ==
    ASSUME PlainUse, IInv, IInv', FillInv, PlaceInv, ~HardLimit, [Next]_vars
    PROVE  PlaceInv'
<1>1. ASSUME open, open' = open, UNCHANGED <<state_map, dlimit>> PROVE PlaceInv'
  BY <1>1 DEF PlaceInv, Placed, Before, Place
<1>2. ASSUME NEW s \in Srecs, NewState(s) PROVE PlaceInv'
  BY <1>2, NewStatePlaced
<1>3. ASSUME NEW k \in todo, WriteSubrec(k) PROVE PlaceInv'
  BY <1>1, <1>3 DEF WriteSubrec, Idle
<1>4. CASE EndState
  BY <1>1, <1>4 DEF EndState, Idle
<1>5. ASSUME NEW i, NEW k, RewriteSubrec(i, k) PROVE PlaceInv'
  BY <1>1, <1>5 DEF RewriteSubrec, Idle
<1>6. CASE Partition
  BY <1>1, <1>6 DEF Partition, Idle
<1>7. ASSUME NEW n, LimitStates(n) PROVE FALSE
  BY <1>7 DEF LimitStates, FilledUse, PlainUse
<1>8. ASSUME NEW f, NEW i, RestartAtState(f, i) PROVE PlaceInv'
  BY <1>1, <1>8 DEF RestartAtState, BeginTruncate, MayRestart, Idle
<1>9. ASSUME NEW f, RestartAtFile(f) PROVE PlaceInv'
  BY <1>1, <1>9 DEF RestartAtFile, BeginTruncate, MayRestart, Idle
<1>10. CASE TruncUnlink
  BY <1>1, <1>10 DEF TruncUnlink
<1>11. CASE TruncFile
  BY <1>1, <1>11 DEF TruncFile
<1>12. CASE TruncMap
  BY <1>1, <1>12 DEF TruncMap
<1>13. CASE TruncEnd
  <2>1. open /\ call = "end_map" /\ open' = open /\ dlimit' = dlimit
        /\ state_map' = SubSeq(state_map, 1, target)
    BY <1>13 DEF TruncEnd
  <2>2. target \in Nat /\ state_qty \in Nat /\ target + 1 \in 1..state_qty
    BY <2>1, TargetFacts
  <2>3. state_map \in Seq(Descriptor) /\ target \in 0..Len(state_map)
    BY <2>2 DEF IInv, TypeOK, MapsTyped, state_qty
  <2>4. IsPrefixOf(state_map', state_map)
    BY <2>1, <2>3, SubSeqFacts DEF IsPrefixOf
  <2>5. QED
    BY <2>1, <2>4, PrefixPlaced
<1>14. CASE CloseMap
  BY <1>1, <1>14 DEF CloseMap, Idle
<1>15. CASE CloseFile
  <2>1. open /\ ~open' /\ dmap' = dmap /\ dlimit' = dlimit
    BY <1>15 DEF CloseFile, Forget
  <2>2. QED
    BY <2>1, PrefixOfFlushed, PrefixPlaced
<1>16. ASSUME NEW written, NEW mapped, Crash(written, mapped) PROVE PlaceInv'
  <2>1. open /\ ~open' /\ dmap' \in {dmap, FlushedMap} /\ dlimit' = dlimit
    BY <1>16 DEF Crash, Forget
  <2>2. QED
    BY <2>1, PrefixOfFlushed, PrefixPlaced
<1>17. CASE Reopen
  <2>1. ~open /\ open' /\ state_map' = dmap /\ dlimit' = dlimit
    BY <1>17 DEF Reopen, disk
  <2>2. QED
    BY <2>1 DEF PlaceInv, Placed, Before, Place
<1>18. CASE UNCHANGED vars
  BY <1>18 DEF vars, disk, PlaceInv, Placed, Before, Place
<1>19. QED
  BY <1>2, <1>3, <1>4, <1>5, <1>6, <1>7, <1>8, <1>9, <1>10, <1>11, <1>12, <1>13, <1>14, <1>15,
     <1>16, <1>17, <1>18 DEF Next

-----------------------------------------------------------------------------
(***************************************************************************)
(* Units.                                                                  *)
(***************************************************************************)
\* A write changes its own unit, and what it skips.
LEMMA PutFacts ==
    ASSUME NEW file \in Seq(Nat), NEW w \in [at : Nat, time : Nat]
    PROVE  /\ Put(file, w) \in Seq(Nat)
           /\ w.at + 1 \in DOMAIN Put(file, w) /\ Put(file, w)[w.at + 1] = w.time
           /\ \A u \in DOMAIN file : /\ u \in DOMAIN Put(file, w)
                                     /\ u # w.at + 1 => Put(file, w)[u] = file[u]
<1> DEFINE len == IF w.at < Len(file) THEN Len(file) ELSE w.at + 1
           g == Truncated(file, len)
<1>1. /\ w.at \in Nat /\ w.time \in Nat /\ Len(file) \in Nat /\ DOMAIN file = 1..Len(file)
      /\ len \in Nat /\ w.at + 1 \in 1..len /\ Len(file) <= len
  BY LenProperties
<1>2. g = [u \in 1..len |-> IF u <= Len(file) THEN file[u] ELSE 0]
  BY DEF Truncated
<1>3. Put(file, w) = [g EXCEPT ![w.at + 1] = w.time]
  BY DEF Put
<1> HIDE DEF len, g
<1>4. DOMAIN Put(file, w) = 1..len
  BY <1>2, <1>3
<1>5. Put(file, w)[w.at + 1] = w.time
  BY <1>1, <1>2, <1>3
<1>6. ASSUME NEW u \in DOMAIN file
      PROVE  u \in 1..len /\ (u # w.at + 1 => Put(file, w)[u] = file[u])
  <2>1. u \in 1..len /\ u <= Len(file)
    BY <1>1
  <2>2. QED
    BY <1>1, <1>2, <1>3, <2>1
<1>7. QED
  BY <1>1, <1>4, <1>5, <1>6, PutType

\* Flushed, of any files and any write.
FlushOf(fs, f, buf) ==
    IF f = NoFile \/ buf = Empty THEN fs ELSE [fs EXCEPT ![f] = Put(@, buf[1])]

\* What is on disk once stdio has written what it holds back;
LEMMA FlushedIs == Flushed = FlushOf(dfile, cur_st_index, sbuf)
BY DEF Flushed, FlushOf

\* the same after a step.
LEMMA FlushedIsNext == Flushed' = FlushOf(dfile', cur_st_index', sbuf')
BY DEF Flushed, FlushOf

\* A state keeps its units when another unit is written, and gets the one that is
\* written for it.
LEMMA FlushHolds ==
    ASSUME NEW fs, \A f \in DOMAIN fs : fs[f] \in Seq(Nat), NEW c \in DOMAIN fs, c # NoFile,
           NEW w \in [at : Nat, time : Nat], NEW d, NEW u
    PROVE  /\ Holds(fs, d, u) /\ (d.file = c => u # w.at + 1 \/ w.time = d.time)
                  => Holds(FlushOf(fs, c, <<w>>), d, u)
           /\ d.file = c /\ u = w.at + 1 /\ w.time = d.time => Holds(FlushOf(fs, c, <<w>>), d, u)
<1> DEFINE g == FlushOf(fs, c, <<w>>)
<1>1. g = [fs EXCEPT ![c] = Put(fs[c], w)]
  BY DEF FlushOf, Empty
<1>2. /\ w.at + 1 \in DOMAIN Put(fs[c], w) /\ Put(fs[c], w)[w.at + 1] = w.time
      /\ \A v \in DOMAIN fs[c] : /\ v \in DOMAIN Put(fs[c], w)
                                 /\ v # w.at + 1 => Put(fs[c], w)[v] = fs[c][v]
  BY PutFacts
<1> DEFINE p == Put(fs[c], w)
<1> HIDE DEF g, p
<1>3. DOMAIN g = DOMAIN fs /\ g[c] = p /\ \A f \in DOMAIN fs : f # c => g[f] = fs[f]
  BY <1>1 DEF p
<1>4. /\ w.at + 1 \in DOMAIN p /\ p[w.at + 1] = w.time
      /\ \A v \in DOMAIN fs[c] : v \in DOMAIN p /\ (v # w.at + 1 => p[v] = fs[c][v])
  BY <1>2 DEF p
<1>5. ASSUME Holds(fs, d, u), d.file = c => u # w.at + 1 \/ w.time = d.time PROVE Holds(g, d, u)
  <2>1. d.file \in DOMAIN fs /\ u \in DOMAIN fs[d.file] /\ fs[d.file][u] = d.time
    BY <1>5 DEF Holds
  <2>2. CASE d.file # c
    BY <1>3, <2>1, <2>2 DEF Holds
  <2>3. CASE d.file = c
    BY <1>3, <1>4, <1>5, <2>1, <2>3 DEF Holds
  <2>4. QED
    BY <2>2, <2>3
<1>6. ASSUME d.file = c, u = w.at + 1, w.time = d.time PROVE Holds(g, d, u)
  BY <1>3, <1>4, <1>6 DEF Holds
<1>7. QED
  BY <1>5, <1>6 DEF g

\* The units of a record, of the one size.
LEMMA ExtentIs ==
    ASSUME PlainUse, NEW d \in Descriptor
    PROVE  /\ d.offset \in Nat /\ d.file \in Nat
           /\ RecordSize(0) = 1 + SrecSize[0] /\ SrecSize[0] \in Nat
           /\ SrecSize[d.srec] = SrecSize[0]
           /\ Extent(d) = d.offset + 1 .. d.offset + RecordSize(0)
<1>1. d.offset \in Nat /\ d.file \in Nat /\ d.srec \in Srecs
  BY DEF Descriptor
<1>2. SrecSize[0] \in Nat /\ SrecSize[d.srec] = SrecSize[0]
  BY <1>1, SrecAssumption DEF PlainUse
<1>3. QED
  BY <1>1, <1>2 DEF Extent, RecordSize, HDR

\* A state's record ends before that of a later state of the same file begins.
LEMMA Apart ==
    ASSUME NEW step \in Nat, NEW map \in Seq(Descriptor),
           \A l \in 1..Len(map) : map[l].offset = Place(l - 1 - step * map[l].file),
           NEW i \in 1..Len(map), NEW j \in 1..Len(map), i < j, map[i].file = map[j].file
    PROVE  map[i].offset + RecordSize(0) <= map[j].offset
<1>1. i \in Nat /\ j \in Nat /\ map[i] \in Descriptor
  BY ElementOfSeq, LenProperties
<1>2. map[i].file \in Nat
  BY <1>1 DEF Descriptor
<1> DEFINE b == step * map[i].file
<1>3. b \in Nat
  <2>1. \A x, y \in Nat : x * y \in Nat
    OBVIOUS
  <2>2. QED
    BY <1>2, <2>1
<1>4. map[i].offset = Place(i - 1 - b) /\ map[j].offset = Place(j - 1 - b)
  OBVIOUS
<1> HIDE DEF b
<1>5. i - 1 - b \in Int /\ j - 1 - b \in Int /\ i - 1 - b < j - 1 - b
  BY <1>1, <1>3
<1>6. QED
  BY <1>4, <1>5, PlaceFacts

-----------------------------------------------------------------------------
(***************************************************************************)
(* Where the data is, step by step.                                        *)
(***************************************************************************)
\* What a session has to begin with.
LEMMA Session ==
    ASSUME IInv, PlaceInv, open
    PROVE  /\ state_map \in Seq(Descriptor) /\ state_qty = Len(state_map) /\ state_qty \in Nat
           /\ dlimit \in Nat /\ Placed(state_map)
           /\ DOMAIN dfile \subseteq Nat /\ \A f \in DOMAIN dfile : dfile[f] \in Seq(Nat)
           /\ DOMAIN Flushed = DOMAIN dfile /\ \A f \in DOMAIN Flushed : Flushed[f] \in Seq(Nat)
           /\ \A i \in 1..state_qty : state_map[i] \in Descriptor
           /\ call = "none" => \A i \in 1..state_qty : state_map[i].file < st_file_count
           /\ FlushedMap \in Seq(Descriptor) /\ IsPrefixOf(FlushedMap, state_map)
           /\ Len(FlushedMap) \in Nat
<1>1. TypeOK /\ FileInv
  BY DEF IInv
<1>2. /\ state_map \in Seq(Descriptor) /\ state_qty = Len(state_map) /\ state_qty \in Nat
      /\ dlimit \in Nat
  BY <1>1, LenProperties DEF TypeOK, MapsTyped, CountsTyped, state_qty
<1>3. DOMAIN dfile \subseteq Nat /\ \A f \in DOMAIN dfile : dfile[f] \in Seq(Nat)
  BY <1>1 DEF TypeOK, FilesTyped
<1>4. DOMAIN Flushed = DOMAIN dfile /\ \A f \in DOMAIN Flushed : Flushed[f] \in Seq(Nat)
  BY <1>1, FlushedType
<1>5. \A i \in 1..state_qty : state_map[i] \in Descriptor
  BY <1>1, DescriptorFields
<1>6. call = "none" => \A i \in 1..state_qty : state_map[i].file < st_file_count
  BY <1>1 DEF FileInv
<1>7. FlushedMap \in Seq(Descriptor) /\ IsPrefixOf(FlushedMap, state_map) /\ Len(FlushedMap) \in Nat
  BY PrefixOfFlushed, LenProperties
<1>8. QED
  BY <1>2, <1>3, <1>4, <1>5, <1>6, <1>7 DEF PlaceInv

\* A state nothing is awaited for is on disk once stdio's buffer is.
LEMMA AllWritten ==
    ASSUME DataInv, open, ~Restarting
    PROVE  /\ \A i \in 1..state_qty : i # state_qty \/ todo = {} => Written(Flushed, state_map[i])
<1>1. ASSUME NEW i \in 1..state_qty, i # state_qty \/ todo = {} PROVE Written(Flushed, state_map[i])
  <2>1. Missing(i) = {}
    BY <1>1 DEF Missing
  <2>2. \A u \in Extent(state_map[i]) \ Missing(i) : Holds(Flushed, state_map[i], u)
    BY <1>1 DEF DataInv, HeldInv
  <2>3. QED
    BY <2>1, <2>2 DEF Written
<1>2. QED
  BY <1>1

\* So is every state that was ended.
LEMMA EndedHeld ==
    ASSUME IInv, DataInv, PlaceInv, Idle
    PROVE  \A i \in 1..Len(FlushedMap) : i \in 1..state_qty /\ Written(Flushed, state_map[i])
<1>1. open /\ ~Restarting /\ call = "none"
  BY DEF Idle, Restarting
<1>2. state_qty \in Nat /\ Len(FlushedMap) \in Nat /\ Len(FlushedMap) <= state_qty
  BY <1>1, Session DEF IsPrefixOf, state_qty
<1>3. todo # {} /\ state_qty > 0 => Len(FlushedMap) = state_qty - 1
  <2>1. todo # {} => ~state_closed
    BY DEF DataInv, TodoInv
  <2>2. QED
    BY <1>1, <2>1 DEF IInv, MapInv
<1>4. ASSUME NEW i \in 1..Len(FlushedMap)
      PROVE  i \in 1..state_qty /\ (i # state_qty \/ todo = {})
  BY <1>2, <1>3
<1>5. QED
  BY <1>1, <1>4, AllWritten

\* A session's step after which stdio holds one write back, for a unit of state n.
LEMMA WriteHeld ==
    ASSUME PlainUse, IInv', PlaceInv', open', NEW w \in [at : Nat, time : Nat], sbuf' = <<w>>,
           cur_st_index' \in DOMAIN dfile', NEW n \in 1..Len(state_map'),
           w.time = state_map'[n].time, state_map'[n].file = cur_st_index',
           w.at + 1 \in Extent(state_map'[n]),
           NEW i \in 1..Len(state_map'), NEW u \in Extent(state_map'[i])
    PROVE  /\ Holds(dfile', state_map'[i], u) => Holds(Flushed', state_map'[i], u)
           /\ i = n /\ u = w.at + 1 => Holds(Flushed', state_map'[i], u)
<1>1. /\ state_map' \in Seq(Descriptor) /\ dlimit' \in Nat /\ DOMAIN dfile' \subseteq Nat
      /\ \A f \in DOMAIN dfile' : dfile'[f] \in Seq(Nat)
      /\ Placed(state_map)'
  BY DEF IInv, TypeOK, MapsTyped, CountsTyped, FilesTyped, PlaceInv
<1>2. cur_st_index' # NoFile
  BY <1>1 DEF NoFile
<1>3. Flushed' = FlushOf(dfile', cur_st_index', <<w>>)
  BY FlushedIsNext
<1>4. state_map'[i] \in Descriptor /\ state_map'[n] \in Descriptor
  BY <1>1, ElementOfSeq
<1>5. /\ state_map'[i].offset \in Nat /\ state_map'[n].offset \in Nat
      /\ RecordSize(0) \in Nat
      /\ u \in state_map'[i].offset + 1 .. state_map'[i].offset + RecordSize(0)
      /\ w.at + 1 \in state_map'[n].offset + 1 .. state_map'[n].offset + RecordSize(0)
  BY <1>4, ExtentIs, PlaceFacts
<1>6. ASSUME i # n, state_map'[i].file = state_map'[n].file
      PROVE  \/ state_map'[i].offset + RecordSize(0) <= state_map'[n].offset
             \/ state_map'[n].offset + RecordSize(0) <= state_map'[i].offset
  <2>2. \A l \in 1..Len(state_map') :
            state_map'[l].offset = Place(l - 1 - dlimit' * state_map'[l].file)
    BY <1>1 DEF Placed, Place, Before, RecordSize
  <2>3. i < n \/ n < i
    BY <1>1, <1>6, LenProperties
  <2>4. QED
    BY <1>1, <1>6, <2>2, <2>3, Apart
<1>7. ASSUME state_map'[i].file = cur_st_index', u = w.at + 1
      PROVE  w.time = state_map'[i].time
  <2>1. i = n
    <3>1. SUFFICES ASSUME i # n PROVE FALSE
      OBVIOUS
    <3>2. PICK a, b, r \in Nat : a = state_map'[i].offset /\ b = state_map'[n].offset
                                 /\ r = RecordSize(0)
      BY <1>5
    <3>3. a + r <= b \/ b + r <= a
      BY <1>6, <1>7, <3>1, <3>2
    <3>4. u \in a + 1 .. a + r /\ u \in b + 1 .. b + r
      BY <1>5, <1>7, <3>2
    <3>5. QED
      BY <3>3, <3>4
  <2>2. QED
    BY <2>1
<1>8. \/ Holds(dfile', state_map'[i], u) /\ (state_map'[i].file = cur_st_index' => u # w.at + 1 \/ w.time = state_map'[i].time)
      \/ ~Holds(dfile', state_map'[i], u)
  BY <1>7
<1>9. QED
  BY <1>1, <1>2, <1>3, <1>8, FlushHolds

-----------------------------------------------------------------------------
(***************************************************************************)
(* The data, call by call.                                                 *)
(***************************************************************************)
\* What has to be there between two calls.
LEMMA BetweenCalls ==
    ASSUME open', call' = "none", cur_st_index' = NoFile => sbuf' = Empty,
           TodoInv', EndedInv', HeldInv'
    PROVE  DataInv'
BY DEF DataInv, BufferInv, AfterInv, KeptInv, Restarting

\* mc_new_state flushes the file it leaves, and begins a record behind all others.
LEMMA NewStateData ==
    ASSUME PlainUse, IInv, IInv', FillInv, PlaceInv, PlaceInv', DataInv, NEW s \in Srecs, NewState(s)
    PROVE  DataInv'
<1> DEFINE file == IF OpenNext THEN st_file_count ELSE cur_st_index
           offset == IF OpenNext THEN 0 ELSE NextOffset
           d == [file |-> file, offset |-> offset, time |-> clock + 1, srec |-> s]
           w == [at |-> offset, time |-> clock + 1]
<1>1. /\ Idle /\ clock < MaxStates /\ CloseLastState /\ todo = {}
      /\ OpenNext \/ file_st_qty \in DOMAIN state_map
      /\ state_map' = Append(state_map, d) /\ sbuf' = <<w>> /\ cur_st_index' = file
      /\ dfile' = IF OpenNext THEN Created(Flushed, file) ELSE Flushed
      /\ state_closed' = FALSE /\ todo' = 1..SrecSize[s]
      /\ UNCHANGED <<open, call>>
  BY DEF NewState, caller
<1>2. /\ state_map \in Seq(Descriptor) /\ state_qty = Len(state_map) /\ state_qty \in Nat
      /\ DOMAIN Flushed = DOMAIN dfile /\ open /\ call = "none" /\ ~Restarting
      /\ \A i \in 1..state_qty : state_map[i] \in Descriptor /\ state_map[i].file < st_file_count
  BY <1>1, Session DEF Idle, Restarting
<1>3. /\ d \in Descriptor /\ st_file_count \in Nat
      /\ 0..st_file_count - 1 \subseteq DOMAIN dfile
      /\ ~OpenNext => cur_st_index = st_file_count - 1 /\ st_file_count > 0
  BY <1>1, NewPlace
<1>4. /\ d.file = file /\ d.offset = offset /\ d.time = clock + 1 /\ d.srec = s
      /\ w.at = offset /\ w.time = clock + 1
  OBVIOUS
<1>5. file \in Nat /\ offset \in Nat /\ clock + 1 \in Nat /\ w \in [at : Nat, time : Nat]
  BY <1>3 DEF Descriptor
<1>6. ASSUME NEW i \in 1..state_qty PROVE Written(dfile', state_map[i])
  <2>1. Written(Flushed, state_map[i])
    BY <1>1, <1>2, AllWritten
  <2>2. CASE OpenNext
    <3>1. dfile' = [g \in DOMAIN Flushed \cup {file} |-> IF g = file THEN Empty ELSE Flushed[g]]
      BY <1>1, <2>2 DEF Created
    <3>2. state_map[i].file # file
      <4>1. state_map[i].file \in Nat /\ state_map[i].file < st_file_count
        BY <1>2 DEF Descriptor
      <4>2. QED
        BY <1>3, <2>2, <4>1
    <3> HIDE DEF file
    <3>3. QED
      BY <2>1, <3>1, <3>2 DEF Written, Holds
  <2>3. CASE ~OpenNext
    BY <1>1, <2>1, <2>3
  <2>4. QED
    BY <2>2, <2>3
<1>7. file \in DOMAIN dfile'
  <2>1. CASE OpenNext
    BY <1>1, <2>1 DEF Created
  <2>2. CASE ~OpenNext
    BY <1>1, <1>2, <1>3, <2>2
  <2>3. QED
    BY <2>1, <2>2
<1> HIDE DEF d, w, file, offset
<1>8. /\ Len(state_map') = state_qty + 1 /\ state_qty' = state_qty + 1
      /\ \A i \in 1..state_qty : state_map'[i] = state_map[i]
      /\ state_map'[state_qty + 1] = d
  BY <1>1, <1>2, <1>3, AppendProperties DEF state_qty
<1>9. EndedInv'
  <2>1. Len(FlushedMap') = state_qty
    BY <1>1, CloseLastStateMap DEF IInv
  <2>2. \A i \in 1..state_qty : Written(dfile', state_map'[i])
    BY <1>6, <1>8
  <2>3. QED
    BY <2>1, <2>2 DEF EndedInv, Written, Holds, Extent, RecordSize
<1>10. TodoInv'
  <2>1. state_map'[state_qty'] = d
    BY <1>8
  <2>2. QED
    BY <1>1, <1>4, <2>1 DEF TodoInv
<1>11. /\ w.at + 1 \in Extent(d)
       /\ \A u \in Extent(d) : u \notin {d.offset + HDR + k : k \in 1..SrecSize[s]} => u = w.at + 1
  <2>1. /\ RecordSize(0) = 1 + SrecSize[0] /\ SrecSize[0] \in Nat /\ SrecSize[s] = SrecSize[0]
        /\ Extent(d) = d.offset + 1 .. d.offset + RecordSize(0)
    BY <1>3, <1>4, ExtentIs
  <2>2. w.at + 1 \in Extent(d)
    BY <1>4, <1>5, <2>1
  <2>3. ASSUME NEW u \in Extent(d), u # w.at + 1
        PROVE  \E k \in 1..SrecSize[s] : u = d.offset + HDR + k
    <3>1. u \in Int /\ u > offset + 1 /\ u <= offset + 1 + SrecSize[0]
      BY <1>4, <1>5, <2>1, <2>3
    <3>2. u - offset - 1 \in 1..SrecSize[s] /\ u = d.offset + HDR + (u - offset - 1)
      BY <1>4, <1>5, <2>1, <3>1 DEF HDR
    <3>3. QED
      BY <3>2
  <2>4. QED
    BY <2>2, <2>3
<1>12. ASSUME NEW i \in 1..Len(state_map'), NEW u \in Extent(state_map'[i])
       PROVE  /\ Holds(dfile', state_map'[i], u) => Holds(Flushed', state_map'[i], u)
              /\ i = state_qty + 1 /\ u = w.at + 1 => Holds(Flushed', state_map'[i], u)
  <2>1. /\ open' /\ cur_st_index' \in DOMAIN dfile' /\ state_qty + 1 \in 1..Len(state_map')
        /\ w.time = state_map'[state_qty + 1].time
        /\ state_map'[state_qty + 1].file = cur_st_index'
        /\ w.at + 1 \in Extent(state_map'[state_qty + 1])
    BY <1>1, <1>2, <1>4, <1>7, <1>8, <1>11
  <2>2. QED
    BY <1>1, <1>5, <2>1, WriteHeld
<1>13. HeldInv'
  <2>1. ASSUME NEW i \in 1..state_qty', NEW u \in Extent(state_map'[i]) \ Missing(i)'
        PROVE  Holds(Flushed', state_map'[i], u)
    <3>1. i \in 1..Len(state_map') /\ u \in Extent(state_map'[i])
      BY <1>8, <2>1
    <3>2. CASE i \in 1..state_qty
      <4>1. Holds(dfile', state_map'[i], u)
        BY <1>6, <1>8, <3>1, <3>2 DEF Written
      <4>2. QED
        BY <1>12, <3>1, <4>1
    <3>3. CASE i = state_qty + 1
      <4>1. state_map'[i] = d /\ i = state_qty'
        BY <1>8, <3>3
      <4>2. u \notin {d.offset + HDR + k : k \in 1..SrecSize[s]}
        BY <1>1, <2>1, <4>1 DEF Missing
      <4>3. u = w.at + 1
        BY <1>11, <3>1, <4>1, <4>2
      <4>4. QED
        BY <1>12, <3>1, <3>3, <4>3
    <3>4. QED
      BY <1>2, <1>8, <3>2, <3>3
  <2>2. QED
    BY <2>1 DEF HeldInv, Holds, Extent, RecordSize
<1>14. QED
  BY <1>1, <1>2, <1>5, <1>9, <1>10, <1>13, BetweenCalls DEF NoFile

\* A step that writes a unit of state n after a flush, and changes no map.
LEMMA WriteData ==
    ASSUME PlainUse, IInv, IInv', PlaceInv, PlaceInv', DataInv, Idle, NEW n \in 1..state_qty,
           NEW k \in 1..SrecSize[state_map[n].srec], cur_st_index = state_map[n].file,
           dfile' = Flushed,
           sbuf' = <<[at |-> state_map[n].offset + HDR + k - 1, time |-> state_map[n].time]>>,
           todo' = todo \/ (n = state_qty /\ todo' = todo \ {k}),
           UNCHANGED <<open, call, state_map, state_closed, cur_st_index, dmap, tbuf>>
    PROVE  DataInv'
<1> DEFINE w == [at |-> state_map[n].offset + HDR + k - 1, time |-> state_map[n].time]
<1>1. /\ state_map \in Seq(Descriptor) /\ state_qty = Len(state_map) /\ state_qty \in Nat
      /\ DOMAIN Flushed = DOMAIN dfile /\ open /\ call = "none" /\ ~Restarting
      /\ state_map[n] \in Descriptor /\ state_map[n].file < st_file_count
      /\ state_qty' = state_qty
  BY Session DEF Idle, Restarting, state_qty
<1>2. /\ state_map[n].file \in Nat /\ state_map[n].offset \in Nat /\ state_map[n].time \in Nat
  BY <1>1 DEF Descriptor
<1>3. cur_st_index' \in DOMAIN dfile' /\ cur_st_index' \in Nat
  <2>1. 0..st_file_count - 1 \subseteq DOMAIN dfile /\ st_file_count \in Nat
    BY <1>1 DEF IInv, FileInv, TypeOK, CountsTyped
  <2>2. QED
    BY <1>1, <1>2, <2>1
<1>4. /\ w \in [at : Nat, time : Nat] /\ w.time = state_map[n].time
      /\ w.at + 1 = state_map[n].offset + HDR + k
      /\ w.at + 1 \in Extent(state_map[n])
  <2>1. k \in Nat /\ k >= 1 /\ k <= SrecSize[0] /\ SrecSize[0] \in Nat
        /\ Extent(state_map[n]) = state_map[n].offset + 1 .. state_map[n].offset + RecordSize(0)
        /\ RecordSize(0) = 1 + SrecSize[0]
    BY <1>1, ExtentIs
  <2>2. w.time = state_map[n].time /\ w.at = state_map[n].offset + HDR + k - 1
    OBVIOUS
  <2>3. state_map[n].offset + HDR + k - 1 \in Nat
    BY <1>2, <2>1 DEF HDR
  <2>4. w \in [at : Nat, time : Nat]
    BY <1>2, <2>3
  <2> HIDE DEF w
  <2>5. w.at + 1 = state_map[n].offset + HDR + k
    BY <1>2, <2>1, <2>2, <2>3 DEF HDR
  <2>6. w.at + 1 \in Extent(state_map[n])
    <3>1. PICK a \in Nat : a = state_map[n].offset
      BY <1>2
    <3>2. PICK r \in Nat : r = SrecSize[0]
      BY <2>1
    <3>3. a + HDR + k \in a + 1 .. a + (1 + r)
      BY <2>1, <3>2 DEF HDR
    <3>4. w.at + 1 = a + HDR + k
      BY <2>5, <3>1
    <3>5. Extent(state_map[n]) = a + 1 .. a + (1 + r)
      BY <2>1, <3>1, <3>2
    <3>6. QED
      BY <3>3, <3>4, <3>5
  <2>7. QED
    BY <2>2, <2>4, <2>5, <2>6
<1> HIDE DEF w
<1>5. ASSUME NEW i \in 1..Len(state_map'), NEW u \in Extent(state_map'[i])
      PROVE  /\ Holds(dfile', state_map'[i], u) => Holds(Flushed', state_map'[i], u)
             /\ i = n /\ u = w.at + 1 => Holds(Flushed', state_map'[i], u)
  <2>1. sbuf' = <<w>> /\ n \in 1..Len(state_map') /\ open'
    BY <1>1 DEF w
  <2>2. w.time = state_map'[n].time /\ state_map'[n].file = cur_st_index'
        /\ w.at + 1 \in Extent(state_map'[n])
    BY <1>4
  <2>3. QED
    BY <1>3, <1>4, <2>1, <2>2, WriteHeld
<1>6. EndedInv'
  <2>1. FlushedMap' = FlushedMap
    BY DEF FlushedMap
  <2>2. \A i \in 1..Len(FlushedMap) : Written(dfile', state_map'[i])
    BY EndedHeld
  <2>3. QED
    BY <2>1, <2>2 DEF EndedInv, Written, Holds, Extent, RecordSize
<1>7. TodoInv'
  <2>1. todo' \subseteq todo
    OBVIOUS
  <2>2. QED
    BY <1>1, <2>1 DEF DataInv, TodoInv
<1>8. HeldInv'
  <2>1. ASSUME NEW i \in 1..state_qty', NEW u \in Extent(state_map'[i]) \ Missing(i)'
        PROVE  Holds(Flushed', state_map'[i], u)
    <3>1. i \in 1..Len(state_map') /\ u \in Extent(state_map'[i]) /\ i \in 1..state_qty
          /\ u \in Extent(state_map[i])
      BY <1>1, <2>1
    <3>2. CASE u \notin Missing(i)
      <4>1. Holds(Flushed, state_map[i], u)
        BY <1>1, <3>1, <3>2 DEF DataInv, HeldInv
      <4>2. QED
        BY <1>5, <3>1, <4>1
    <3>3. CASE u \in Missing(i)
      <4>1. i = state_qty /\ \E j \in todo : u = state_map[i].offset + HDR + j
        BY <3>3 DEF Missing
      <4>2. PICK j \in todo : u = state_map[i].offset + HDR + j
        BY <4>1
      <4>3. j \notin todo'
        BY <1>1, <2>1, <4>1, <4>2 DEF Missing
      <4>4. n = state_qty /\ j = k
        BY <4>2, <4>3
      <4>5. QED
        BY <1>4, <1>5, <3>1, <4>1, <4>2, <4>4
    <3>4. QED
      BY <3>2, <3>3
  <2>2. QED
    BY <2>1 DEF HeldInv, Holds, Extent, RecordSize
<1>9. QED
  BY <1>1, <1>2, <1>3, <1>6, <1>7, <1>8, BetweenCalls DEF NoFile

\* A call that flushes: nothing is held back after it.
LEMMA FlushData ==
    ASSUME PlainUse, IInv, IInv', PlaceInv, DataInv, Idle, todo = {}, todo' = {}, dfile' = Flushed,
           sbuf' = Empty, UNCHANGED <<open, state_map>>, call' \in {"none", "close"},
           IsPrefixOf(FlushedMap', state_map)
    PROVE  DataInv'
<1>1. /\ state_qty \in Nat /\ state_qty' = state_qty /\ open /\ open' /\ ~Restarting
      /\ state_qty = Len(state_map)
  BY Session DEF Idle, Restarting, state_qty
<1>2. \A i \in 1..state_qty : Written(dfile', state_map'[i])
  BY <1>1, AllWritten
<1>3. Flushed' = dfile'
  BY DEF Flushed
<1>4. EndedInv'
  <2>1. Len(FlushedMap') <= state_qty /\ Len(FlushedMap') \in Nat
    <3>1. FlushedMap' \in Seq(Descriptor)
      BY <1>1, ConcatProperties DEF IInv, TypeOK, MapsTyped, FlushedMap
    <3>2. QED
      BY <1>1, <3>1, LenProperties DEF IsPrefixOf
  <2>2. \A i \in 1..Len(FlushedMap') : i \in 1..state_qty
    BY <1>1, <2>1
  <2>3. QED
    BY <1>2, <2>2 DEF EndedInv, Written, Holds, Extent, RecordSize
<1>5. HeldInv'
  BY <1>1, <1>2, <1>3 DEF HeldInv, Written, Holds, Extent, RecordSize
<1>6. QED
  BY <1>1, <1>4, <1>5 DEF DataInv, BufferInv, TodoInv, AfterInv, KeptInv, Restarting

-----------------------------------------------------------------------------
(***************************************************************************)
(* The data during restarts, and from process to process.                  *)
(***************************************************************************)
\* A restart begins with everything on disk.
LEMMA BeginData ==
    ASSUME PlainUse, IInv, PlaceInv, DataInv, Idle, state_closed \/ state_qty = 0,
           NEW i \in 0..state_qty - 1, BeginTruncate(i)
    PROVE  DataInv'
<1>1. /\ open /\ open' /\ call' = "unlink" /\ target' = i /\ todo' = {}
      /\ state_map' = state_map
      /\ IF cur_st_index >= state_map[i + 1].file
         THEN dfile' = Flushed /\ sbuf' = Empty
         ELSE UNCHANGED <<dfile, sbuf, cur_st_index>>
  BY DEF BeginTruncate, StateFileClose, Idle
<1>2. /\ state_qty \in Nat /\ ~Restarting
      /\ \A j \in 1..state_qty : state_map[j] \in Descriptor /\ state_map[j].file < st_file_count
  BY <1>1, Session DEF Idle, Restarting
<1>3. todo = {}
  <2>1. state_closed
    BY <1>2
  <2>2. QED
    BY <2>1 DEF DataInv, TodoInv
<1>4. dfile' = Flushed /\ sbuf' = Empty
  <2>1. CASE cur_st_index >= state_map[i + 1].file
    BY <1>1, <2>1
  <2>2. CASE ~(cur_st_index >= state_map[i + 1].file)
    <3>1. i + 1 \in 1..state_qty /\ i + 1 \in Nat
      BY <1>2
    <3>2. state_map[i + 1].file \in Nat /\ state_map[i + 1].file < st_file_count
      BY <1>2, <3>1 DEF Descriptor
    <3>3. cur_st_index \in {NoFile, st_file_count - 1} /\ st_file_count \in Nat
      BY <1>1 DEF IInv, FileInv, Idle, TypeOK, CountsTyped
    <3>4. cur_st_index = NoFile
      BY <2>2, <3>2, <3>3
    <3>5. sbuf = Empty
      BY <3>4 DEF DataInv, BufferInv
    <3>6. QED
      BY <1>1, <2>2, <3>5 DEF Flushed
  <2>3. QED
    BY <2>1, <2>2
<1>5. ASSUME NEW j \in 1..i PROVE Written(dfile', state_map'[j])
  <2>1. j \in 1..state_qty
    BY <1>2
  <2>2. QED
    BY <1>1, <1>2, <1>3, <1>4, <2>1, AllWritten
<1>6. KeptInv'
  BY <1>1, <1>5 DEF KeptInv, Written, Holds, Extent, RecordSize
<1>7. QED
  BY <1>1, <1>4, <1>6 DEF DataInv, BufferInv, TodoInv, AfterInv, EndedInv, HeldInv, Idle, Restarting

\* A step of a restart that leaves the kept states' units alone.
LEMMA RestartData ==
    ASSUME MapInv, DataInv, Restarting, Restarting', open', sbuf' = sbuf, state_map' = state_map,
           target' = target, todo' = todo,
           \A i \in 1..target : \A u \in Extent(state_map[i]) :
               Holds(dfile, state_map[i], u) => Holds(dfile', state_map[i], u)
    PROVE  DataInv'
<1>1. \A i \in 1..target : Written(dfile', state_map[i])
  BY DEF DataInv, KeptInv, Written
<1>2. KeptInv'
  BY <1>1 DEF KeptInv, Written, Holds, Extent, RecordSize
<1>3. sbuf' = Empty /\ todo' = {} /\ call' # "none"
  BY DEF DataInv, BufferInv, MapInv, Restarting
<1>4. QED
  BY <1>2, <1>3 DEF DataInv, BufferInv, TodoInv, AfterInv, EndedInv, HeldInv, Idle

\* The states a restart keeps are in files up to the target's, and end before it.
LEMMA KeptPlace ==
    ASSUME IInv, PlaceInv, open, Restarting, NEW i \in 1..target
    PROVE  /\ i \in 1..state_qty /\ state_map[i] \in Descriptor
           /\ state_map[i].file \in Nat /\ state_map[i].file <= TargetFile
           /\ TargetOffset = 0 => state_map[i].file < TargetFile
           /\ state_map[i].file = TargetFile => state_map[i].offset + RecordSize(0) <= TargetOffset
<1>1. /\ state_qty \in Nat /\ target \in Nat /\ target + 1 \in 1..state_qty
  BY TargetFacts DEF Restarting
<1>2. /\ state_map \in Seq(Descriptor) /\ state_qty = Len(state_map) /\ dlimit \in Nat
      /\ Placed(state_map) /\ Ordered(state_map)
  BY Session DEF IInv, OrderInv
<1>3. i \in 1..state_qty /\ i < target + 1 /\ i \in 1..(target + 1) /\ i \in 1..(target + 1) - 1
  BY <1>1
<1>4. state_map[i] \in Descriptor /\ state_map[i].file \in Nat
  <2>1. state_map[i] \in Descriptor
    BY <1>2, <1>3, ElementOfSeq
  <2>2. QED
    BY <2>1 DEF Descriptor
<1>5. /\ state_map[i].file <= TargetFile
      /\ TargetOffset = 0 => state_map[i].file < TargetFile
  BY <1>1, <1>2, <1>3 DEF Ordered, TargetFile, TargetOffset
<1>6. state_map[i].file = TargetFile => state_map[i].offset + RecordSize(0) <= TargetOffset
  <2>1. \A l \in 1..Len(state_map) :
            state_map[l].offset = Place(l - 1 - dlimit * state_map[l].file)
    BY <1>2 DEF Placed, Before
  <2>2. QED
    BY <1>1, <1>2, <1>3, <2>1, Apart DEF TargetFile, TargetOffset
<1>7. QED
  BY <1>3, <1>4, <1>5, <1>6

\* mc_restart_at_* removes the files behind the target's;
LEMMA TruncUnlinkData ==
    ASSUME IInv, PlaceInv, DataInv, TruncUnlink
    PROVE  DataInv'
<1>1. /\ open /\ open' /\ call = "unlink" /\ call' = "unlink" /\ Restarting /\ Restarting'
      /\ UNCHANGED <<sbuf, state_map, target, todo>>
  BY DEF TruncUnlink, Restarting, stdio, caller
<1>2. PICK f \in Later : dfile' = Restrict(dfile, DOMAIN dfile \ {f})
  BY DEF TruncUnlink
<1>3. f \in Nat /\ TargetFile < f
  BY DEF Later, IInv, TypeOK, FilesTyped
<1>4. ASSUME NEW i \in 1..target, NEW u, Holds(dfile, state_map[i], u)
      PROVE  Holds(dfile', state_map[i], u)
  <2>1. state_map[i].file \in Nat /\ state_map[i].file <= TargetFile
    BY <1>1, KeptPlace
  <2>2. TargetFile \in Nat
    BY <1>1, TargetFacts
  <2>3. state_map[i].file # f
    BY <1>3, <2>1, <2>2
  <2>4. QED
    BY <1>2, <1>4, <2>3 DEF Holds, Restrict
<1>5. QED
  BY <1>1, <1>4, RestartData DEF IInv

\* cuts the target's file, or removes it too;
LEMMA TruncFileData ==
    ASSUME PlainUse, IInv, PlaceInv, DataInv, TruncFile
    PROVE  DataInv'
<1>1. /\ open /\ open' /\ call = "unlink" /\ call' = "cut_map" /\ Restarting /\ Restarting'
      /\ UNCHANGED <<sbuf, state_map, target, todo>>
  BY DEF TruncFile, Restarting, stdio
<1>2. TargetFile \in Nat /\ TargetOffset \in Nat
  BY <1>1, TargetFacts
<1>3. ASSUME NEW i \in 1..target, NEW u \in Extent(state_map[i]), Holds(dfile, state_map[i], u)
      PROVE  Holds(dfile', state_map[i], u)
  <2>1. /\ state_map[i] \in Descriptor
        /\ state_map[i].file \in Nat /\ state_map[i].file <= TargetFile
        /\ TargetOffset = 0 => state_map[i].file < TargetFile
        /\ state_map[i].file = TargetFile => state_map[i].offset + RecordSize(0) <= TargetOffset
    BY <1>1, KeptPlace
  <2>2. /\ state_map[i].offset \in Nat /\ RecordSize(0) \in Nat
        /\ u \in state_map[i].offset + 1 .. state_map[i].offset + RecordSize(0)
    BY <2>1, ExtentIs, PlaceFacts
  <2>3. CASE target = 0 \/ TargetOffset = 0
    <3>1. TargetOffset = 0 \/ target = 0
      BY <2>3
    <3>2. state_map[i].file # TargetFile
      <4>1. target # 0
        BY <1>1, TargetFacts
      <4>2. QED
        BY <1>2, <2>1, <3>1, <4>1
    <3>3. dfile' = Restrict(dfile, DOMAIN dfile \ {TargetFile})
      BY <2>3 DEF TruncFile
    <3>4. QED
      BY <1>3, <3>2, <3>3 DEF Holds, Restrict
  <2>4. CASE ~(target = 0 \/ TargetOffset = 0)
    <3>1. dfile' = [dfile EXCEPT ![TargetFile] = Truncated(dfile[TargetFile], TargetOffset)]
      BY <2>4 DEF TruncFile
    <3>2. /\ state_map[i].file \in DOMAIN dfile /\ u \in DOMAIN dfile[state_map[i].file]
          /\ dfile[state_map[i].file][u] = state_map[i].time
          /\ dfile[state_map[i].file] \in Seq(Nat)
      BY <1>3 DEF Holds, IInv, TypeOK, FilesTyped
    <3>3. CASE state_map[i].file # TargetFile
      BY <3>1, <3>2, <3>3 DEF Holds
    <3>4. CASE state_map[i].file = TargetFile
      <4> DEFINE g == Truncated(dfile[TargetFile], TargetOffset)
      <4> HIDE DEF g
      <4>1. u \in 1..TargetOffset /\ u <= Len(dfile[TargetFile])
        <5>1. PICK o \in Nat, r \in Nat :
                  o = state_map[i].offset /\ r = RecordSize(0)
          BY <2>2
        <5>2. u \in o + 1 .. o + r /\ o + r <= TargetOffset
          BY <2>1, <2>2, <3>4, <5>1
        <5>3. u \in 1..TargetOffset
          BY <1>2, <5>1, <5>2
        <5>4. DOMAIN dfile[TargetFile] = 1..Len(dfile[TargetFile])
          BY <3>2, <3>4, LenProperties
        <5>5. u \in 1..Len(dfile[TargetFile]) /\ Len(dfile[TargetFile]) \in Nat
          BY <3>2, <3>4, <5>4, LenProperties
        <5>6. QED
          BY <5>3, <5>5
      <4>2. u \in DOMAIN g /\ g[u] = dfile[TargetFile][u]
        BY <4>1 DEF Truncated, g
      <4>3. dfile'[TargetFile] = g /\ DOMAIN dfile' = DOMAIN dfile
        BY <3>1, <3>2, <3>4 DEF g
      <4>4. QED
        BY <3>2, <3>4, <4>2, <4>3 DEF Holds
    <3>5. QED
      BY <3>3, <3>4
  <2>5. QED
    BY <2>3, <2>4
<1>4. QED
  BY <1>1, <1>3, RestartData DEF IInv

\* cuts the map on disk;
LEMMA TruncMapData ==
    ASSUME IInv, DataInv, TruncMap
    PROVE  DataInv'
<1>1. /\ open' /\ Restarting /\ Restarting'
      /\ UNCHANGED <<dfile, sbuf, state_map, target, todo>>
  BY DEF TruncMap, Restarting
<1>2. QED
  BY <1>1, RestartData DEF IInv

\* and cuts the map in memory.
LEMMA TruncEndData ==
    ASSUME IInv, PlaceInv, DataInv, TruncEnd
    PROVE  DataInv'
<1>1. /\ open /\ open' /\ call = "end_map" /\ call' = "none" /\ Restarting
      /\ state_map' = SubSeq(state_map, 1, target)
      /\ UNCHANGED <<dfile, sbuf, dmap, tbuf, todo>>
  BY DEF TruncEnd, stdio, Restarting
<1>2. sbuf' = Empty /\ todo' = {} /\ Len(FlushedMap) = target
  BY <1>1 DEF DataInv, BufferInv, IInv, MapInv
<1>3. /\ state_qty \in Nat /\ target \in Nat /\ target + 1 \in 1..state_qty
  BY <1>1, TargetFacts
<1>4. state_map \in Seq(Descriptor) /\ target \in 0..Len(state_map)
  BY <1>3 DEF IInv, TypeOK, MapsTyped, state_qty
<1>5. Len(state_map') = target /\ \A i \in 1..target : state_map'[i] = state_map[i]
  BY <1>1, <1>4, SubSeqFacts
<1>6. \A i \in 1..target : Written(dfile', state_map'[i])
  BY <1>1, <1>5 DEF DataInv, KeptInv
<1>7. EndedInv'
  BY <1>1, <1>2, <1>6 DEF EndedInv, FlushedMap, Written, Holds, Extent, RecordSize
<1>8. HeldInv'
  <2>1. Flushed' = dfile'
    BY <1>2 DEF Flushed
  <2>2. QED
    BY <1>5, <1>6, <2>1 DEF HeldInv, Written, Holds, Extent, RecordSize, state_qty
<1>9. QED
  BY <1>1, <1>2, <1>7, <1>8, BetweenCalls DEF TodoInv

\* mc_close writes the map first: the data waits.
LEMMA CloseMapData ==
    ASSUME IInv, DataInv, CloseMap
    PROVE  DataInv'
<1>1. /\ open /\ open' /\ ~Restarting /\ call' = "close" /\ todo = {} /\ todo' = {}
      /\ UNCHANGED <<dfile, sbuf, state_map, cur_st_index>>
  BY DEF CloseMap, Idle, Restarting, files
<1>2. Flushed' = Flushed
  BY <1>1 DEF Flushed
<1>3. HeldInv'
  BY <1>1, <1>2 DEF DataInv, HeldInv, Missing, Holds, Extent, RecordSize, state_qty
<1>4. BufferInv'
  BY <1>1 DEF DataInv, BufferInv, Restarting
<1>5. QED
  BY <1>1, <1>3, <1>4 DEF DataInv, TodoInv, AfterInv, EndedInv, KeptInv, Idle, Restarting

\* A process that ends leaves the data of what it leaves in the map.
LEMMA EndData ==
    ASSUME Forget, \A i \in 1..Len(dmap') : Written(dfile', dmap'[i])
    PROVE  DataInv'
<1>1. ~open' /\ sbuf' = Empty /\ todo' = {} /\ call' = "none"
  BY DEF Forget
<1>2. AfterInv'
  BY DEF AfterInv, Written, Holds, Extent, RecordSize
<1>3. QED
  BY <1>1, <1>2 DEF DataInv, BufferInv, TodoInv, EndedInv, HeldInv, KeptInv, Idle, Restarting

\* mc_close flushes the state file in its last step.
LEMMA CloseFileData ==
    ASSUME IInv, PlaceInv, DataInv, CloseFile
    PROVE  DataInv'
<1>1. /\ open /\ ~Restarting /\ Forget /\ dfile' = Flushed /\ dmap' = dmap /\ todo = {}
  BY DEF CloseFile, Restarting, IInv, MapInv
<1>2. dmap \in Seq(Descriptor) /\ IsPrefixOf(dmap, state_map) /\ state_qty \in Nat
  BY <1>1, PrefixOfFlushed, Session
<1>3. \A i \in 1..Len(dmap) : i \in 1..state_qty /\ dmap[i] = state_map[i]
  BY <1>2, LenProperties DEF IsPrefixOf, state_qty
<1>4. \A i \in 1..Len(dmap) : Written(Flushed, dmap[i])
  BY <1>1, <1>3, AllWritten
<1>5. QED
  BY <1>1, <1>4, EndData

\* A process dies between calls: stdio's buffer may be lost, or written by chance.
LEMMA CrashData ==
    ASSUME PlainUse, IInv, PlaceInv, DataInv, NEW written, NEW mapped, Crash(written, mapped)
    PROVE  DataInv'
<1>1. /\ Idle /\ open /\ call = "none" /\ Forget /\ dfile' \in {dfile, Flushed}
      /\ dmap' \in {dmap, FlushedMap}
  BY DEF PlainUse, Crash, Idle
<1>2. /\ dmap \in Seq(Descriptor) /\ IsPrefixOf(dmap, FlushedMap)
      /\ FlushedMap \in Seq(Descriptor) /\ IsPrefixOf(FlushedMap, state_map)
  <2>1. dmap \in Seq(Descriptor) /\ tbuf \in Seq(Descriptor)
    BY DEF IInv, TypeOK, MapsTyped
  <2>2. IsPrefixOf(dmap, FlushedMap)
    BY <2>1, ConcatProperties, LenProperties DEF IsPrefixOf, FlushedMap
  <2>3. QED
    BY <1>1, <2>1, <2>2, PrefixOfFlushed
<1>3. \A i \in 1..Len(dmap') : i \in 1..Len(FlushedMap) /\ dmap'[i] = state_map[i]
  <2>1. Len(dmap) \in Nat /\ Len(FlushedMap) \in Nat
    BY <1>2, LenProperties
  <2>2. QED
    BY <1>1, <1>2, <2>1 DEF IsPrefixOf
<1>4. \A i \in 1..Len(FlushedMap) : Written(dfile, state_map[i]) /\ Written(Flushed, state_map[i])
  BY <1>1, EndedHeld DEF DataInv, EndedInv
<1>5. \A i \in 1..Len(dmap') : Written(dfile', dmap'[i])
  BY <1>1, <1>3, <1>4
<1>6. QED
  BY <1>1, <1>5, EndData

\* A process opens the family and reads its map.
LEMMA ReopenData ==
    ASSUME IInv, DataInv, Reopen
    PROVE  DataInv'
<1>1. /\ ~open /\ open' /\ state_map' = dmap /\ call = "none" /\ call' = "none" /\ todo = {}
      /\ UNCHANGED <<dfile, dmap, sbuf, tbuf, todo>> /\ tbuf = Empty
  BY DEF Reopen, IInv, MapInv, disk, stdio, caller
<1>2. \A i \in 1..Len(dmap) : Written(dfile, dmap[i])
  BY <1>1 DEF DataInv, AfterInv
<1>4. sbuf = Empty
  BY <1>1 DEF DataInv, BufferInv
<1>5. FlushedMap' = dmap /\ Flushed' = dfile
  <2>1. dmap \in Seq(Descriptor) /\ tbuf' = << >>
    BY <1>1 DEF IInv, TypeOK, MapsTyped, Empty
  <2>2. FlushedMap' = dmap
    BY <1>1, <2>1, ConcatEmptySeq DEF FlushedMap
  <2>3. QED
    BY <1>1, <1>4, <2>2 DEF Flushed
<1>6. EndedInv'
  BY <1>1, <1>2, <1>5 DEF EndedInv, Written, Holds, Extent, RecordSize
<1>7. HeldInv'
  BY <1>1, <1>2, <1>5 DEF HeldInv, Written, Holds, Extent, RecordSize, state_qty
<1>8. QED
  BY <1>1, <1>4, <1>6, <1>7, BetweenCalls DEF TodoInv

\* Each call, each step of one, each crash between calls and each reopening.
LEMMA DataNext ==
    ASSUME PlainUse, IInv, IInv', FillInv, PlaceInv, PlaceInv', DataInv, [Next]_vars
    PROVE  DataInv'
<1>1. ASSUME NEW s \in Srecs, NewState(s) PROVE DataInv'
  BY <1>1, NewStateData
<1>2. ASSUME NEW k \in todo, WriteSubrec(k) PROVE DataInv'
  <2>1. /\ Idle /\ dfile' = Flushed
        /\ sbuf' = <<[at |-> state_map[state_qty].offset + HDR + k - 1,
                      time |-> state_map[state_qty].time]>>
        /\ todo' = todo \ {k}
        /\ UNCHANGED <<open, call, state_map, state_closed, cur_st_index, dmap, tbuf>>
    BY <1>2 DEF WriteSubrec, flags, caller
  <2>2. /\ cur_st_index = state_map[state_qty].file
        /\ k \in 1..SrecSize[state_map[state_qty].srec]
    BY <1>2 DEF DataInv, TodoInv
  <2>3. state_qty \in 1..state_qty
    <3>1. state_qty \in Nat
      BY <2>1, Session DEF Idle
    <3>2. state_qty > 0
      BY <1>2 DEF IInv, MapInv
    <3>3. QED
      BY <3>1, <3>2
  <2>4. QED
    BY <2>1, <2>2, <2>3, WriteData
<1>3. CASE EndState
  <2>1. /\ Idle /\ todo = {} /\ todo' = {} /\ dfile' = Flushed /\ sbuf' = Empty
        /\ UNCHANGED <<open, call, state_map>> /\ CloseLastState
    BY <1>3 DEF EndState, FlushStateFile, caller
  <2>2. IsPrefixOf(FlushedMap', state_map)
    BY <2>1, CloseLastStateMap DEF IInv
  <2>3. call' = "none"
    BY <2>1 DEF Idle
  <2>4. QED
    BY <2>1, <2>2, <2>3, FlushData
<1>4. ASSUME NEW i \in 1..state_qty, NEW k \in 1..SrecSize[state_map[i].srec], RewriteSubrec(i, k)
      PROVE  DataInv'
  <2>1. /\ Idle /\ dfile' = Flushed /\ cur_st_index = state_map[i].file
        /\ sbuf' = <<[at |-> state_map[i].offset + HDR + k - 1, time |-> state_map[i].time]>>
        /\ UNCHANGED <<open, call, state_map, state_closed, cur_st_index, dmap, tbuf, todo>>
    BY <1>4 DEF RewriteSubrec, PlainUse, flags, caller, files
  <2>2. QED
    BY <2>1, WriteData
<1>5. ASSUME Partition PROVE FALSE
  BY <1>5 DEF Partition, PlainUse, FilledUse
<1>6. ASSUME NEW n, LimitStates(n) PROVE FALSE
  BY <1>6 DEF LimitStates, PlainUse, FilledUse
<1>7. MayRestart => Idle /\ (state_closed \/ state_qty = 0)
  BY DEF MayRestart, PlainUse, FilledUse, RestartsClosed
<1>8. ASSUME NEW f, NEW i, RestartAtState(f, i) PROVE DataInv'
  BY <1>7, <1>8, BeginData DEF RestartAtState
<1>9. ASSUME NEW f, RestartAtFile(f) PROVE DataInv'
  <2>1. \E i \in 0..state_qty - 1 : BeginTruncate(i)
    BY <1>9 DEF RestartAtFile, PlainUse, FilledUse
  <2>2. MayRestart
    BY <1>9 DEF RestartAtFile
  <2>3. QED
    BY <1>7, <2>1, <2>2, BeginData
<1>10. CASE TruncUnlink
  BY <1>10, TruncUnlinkData
<1>11. CASE TruncFile
  BY <1>11, TruncFileData
<1>12. CASE TruncMap
  BY <1>12, TruncMapData
<1>13. CASE TruncEnd
  BY <1>13, TruncEndData
<1>14. CASE CloseMap
  BY <1>14, CloseMapData
<1>15. CASE CloseFile
  BY <1>15, CloseFileData
<1>16. ASSUME NEW written, NEW mapped, Crash(written, mapped) PROVE DataInv'
  BY <1>16, CrashData
<1>17. CASE Reopen
  BY <1>17, ReopenData
<1>18. CASE UNCHANGED vars
  <2>1. UNCHANGED <<dfile, dmap, tbuf, sbuf, open, state_map, cur_st_index, call, target, todo,
                    state_closed>>
    BY <1>18 DEF vars, disk, files, stdio, flags, caller
  <2>2. UNCHANGED <<Flushed, FlushedMap>>
    BY <2>1 DEF Flushed, FlushedMap
  <2>3. QED
    BY <2>1, <2>2 DEF DataInv, BufferInv, TodoInv, AfterInv, EndedInv, HeldInv, KeptInv, Restarting,
       Idle, Missing, Written, Holds, Extent, RecordSize, state_qty
<1>19. QED
  BY <1>1, <1>2, <1>3, <1>4, <1>5, <1>6, <1>8, <1>9, <1>10, <1>11, <1>12, <1>13, <1>14, <1>15,
     <1>16, <1>17, <1>18 DEF Next

\* A new family has no data.
LEMMA InitData == Init => PlaceInv /\ DataInv
BY DEF Init, PlaceInv, Placed, DataInv, BufferInv, TodoInv, AfterInv, EndedInv, HeldInv, KeptInv,
   Restarting, Idle, FlushedMap, state_qty, Empty

\* The whole invariant, of the files, the places and the data.
Safe == IInv /\ FillInv /\ PlaceInv /\ DataInv

\* So all of it holds in every state, while no file reaches the library's limit.
LEMMA AlwaysSafe ==
    ASSUME PlainUse
    PROVE  Spec /\ []~HardLimit => []Safe
<1>1. FilledUse /\ RestartsClosed
  BY DEF PlainUse, FilledUse
<1>2. Spec => []IInv
  BY <1>1, Invariant
<1>3. Spec /\ []~HardLimit => []FillInv
  BY <1>1, AlwaysFilled
<1>4. IInv /\ IInv' /\ FillInv /\ PlaceInv /\ ~HardLimit /\ [Next]_vars => PlaceInv'
  BY PlaceNext
<1>5. IInv /\ IInv' /\ FillInv /\ PlaceInv /\ PlaceInv' /\ DataInv /\ [Next]_vars => DataInv'
  BY DataNext
<1>6. Init => PlaceInv /\ DataInv
  BY InitData
<1>7. Safe <=> IInv /\ FillInv /\ PlaceInv /\ DataInv
  BY DEF Safe
<1>8. QED
  BY <1>2, <1>3, <1>4, <1>5, <1>6, <1>7, PTL DEF Spec

\* Whoever reads the map on disk finds the data of every state it lists in the
\* files on disk: between any two calls, and after any crash between two calls.
\* The state files are flushed before the map says what is in them.
THEOREM ListedIsWritten ==
    ASSUME PlainUse
    PROVE  Spec /\ []~HardLimit => []MappedIsWritten
<1>1. ASSUME Safe PROVE MappedIsWritten
  <2>1. SUFFICES ASSUME call = "none", NEW d \in Range(dmap) PROVE Written(dfile, d)
    BY DEF MappedIsWritten
  <2>2. IInv /\ DataInv /\ PlaceInv /\ dmap \in Seq(Descriptor)
    BY <1>1 DEF Safe, IInv, TypeOK, MapsTyped
  <2>3. PICK i \in 1..Len(dmap) : d = dmap[i]
    BY <2>2, LenProperties DEF Range
  <2>4. CASE ~open
    BY <2>2, <2>3, <2>4 DEF DataInv, AfterInv
  <2>5. CASE open
    <3>1. tbuf \in Seq(Descriptor)
      BY <2>2 DEF IInv, TypeOK, MapsTyped
    <3>2. i \in 1..Len(FlushedMap) /\ FlushedMap[i] = dmap[i]
      BY <2>2, <2>3, <3>1, ConcatProperties, LenProperties DEF FlushedMap
    <3>3. IsPrefixOf(FlushedMap, state_map)
      BY <2>2, <2>5, PrefixOfFlushed
    <3>4. dmap[i] = state_map[i]
      BY <3>2, <3>3 DEF IsPrefixOf
    <3>5. Idle
      BY <2>1, <2>5 DEF Idle
    <3>6. QED
      BY <2>2, <2>3, <3>2, <3>4, <3>5 DEF DataInv, EndedInv
  <2>6. open \in BOOLEAN
    BY <2>2 DEF IInv, TypeOK, FlagsTyped
  <2>7. QED
    BY <2>4, <2>5, <2>6
<1>2. Spec /\ []~HardLimit => []Safe
  BY AlwaysSafe
<1>3. QED
  BY <1>1, <1>2, PTL

\* Nothing that is written into the family is ever overwritten: whatever was
\* begun, left open, restarted, rewritten or lost before, each state that the
\* writer lists reads back from its place. The place of a new record is taken from
\* the wrong file's record (prep_for_new_data), and this is the use of the library
\* in which that record is at the same place.
THEOREM StatesStay ==
    ASSUME PlainUse
    PROVE  Spec /\ []~HardLimit => []StatesIntact
<1>1. ASSUME Safe PROVE StatesIntact
  <2>1. ASSUME Idle, NEW i \in 1..state_qty, NEW u \in Extent(state_map[i]) \ Missing(i)
        PROVE  Holds(Flushed, state_map[i], u)
    BY <1>1, <2>1 DEF Safe, DataInv, HeldInv, Idle, Restarting
  <2>2. QED
    BY <2>1 DEF StatesIntact, Missing
<1>2. Spec /\ []~HardLimit => []Safe
  BY AlwaysSafe
<1>3. QED
  BY <1>1, <1>2, PTL

-----------------------------------------------------------------------------
(***************************************************************************)
(* No step takes a listed state away.                                      *)
(***************************************************************************)
\* The step that PublishedIsKept allows.
MapGrows == Len(dmap) <= Len(dmap') /\ SubSeq(dmap', 1, Len(dmap)) = dmap

Keeps == /\ \/ Len(dmap) <= Len(dmap') /\ SubSeq(dmap', 1, Len(dmap)) = dmap
            \/ call = "cut_map" /\ dmap' = SubSeq(FlushedMap, 1, target)
         /\ \A i \in DOMAIN dmap :
               Written(dfile, dmap[i]) =>
                   \/ Written(dfile', dmap[i])
                   \/ call = "unlink" /\ i > target

\* A map that grew by states that are written, or that did not change, with its files.
LEMMA Grown ==
    ASSUME dmap \in Seq(Descriptor), NEW more \in Seq(Descriptor), dmap' = dmap \o more
    PROVE  MapGrows /\ \A i \in DOMAIN dmap : i \in DOMAIN dmap' /\ dmap'[i] = dmap[i]
<1>1. /\ dmap' \in Seq(Descriptor) /\ Len(dmap) \in Nat /\ Len(dmap') = Len(dmap) + Len(more)
      /\ Len(more) \in Nat /\ \A i \in 1..Len(dmap) : dmap'[i] = dmap[i]
  BY ConcatProperties, LenProperties
<1>2. /\ SubSeq(dmap', 1, Len(dmap)) \in Seq(Descriptor)
      /\ Len(SubSeq(dmap', 1, Len(dmap))) = Len(dmap)
      /\ \A i \in 1..Len(dmap) : SubSeq(dmap', 1, Len(dmap))[i] = dmap'[i]
  BY <1>1, SubSeqFacts
<1>3. SubSeq(dmap', 1, Len(dmap)) = dmap
  BY <1>1, <1>2, SeqEqual
<1>4. DOMAIN dmap = 1..Len(dmap) /\ DOMAIN dmap' = 1..Len(dmap')
  BY <1>1, LenProperties
<1>5. QED
  BY <1>1, <1>3, <1>4 DEF MapGrows

\* A step that leaves map and files on disk.
LEMMA Same ==
    ASSUME dmap \in Seq(Descriptor), dmap' = dmap
    PROVE  MapGrows /\ \A i \in DOMAIN dmap : i \in DOMAIN dmap' /\ dmap'[i] = dmap[i]
<1>1. << >> \in Seq(Descriptor) /\ dmap' = dmap \o << >>
  BY EmptySeq, ConcatEmptySeq
<1>2. QED
  BY <1>1, Grown

\* What mc_new_state and mc_end_state add to the map on disk.
LEMMA CloseGrows ==
    ASSUME TypeOK, MapInv, Idle, CloseLastState
    PROVE  MapGrows /\ \A i \in DOMAIN dmap : i \in DOMAIN dmap' /\ dmap'[i] = dmap[i]
<1>1. dmap \in Seq(Descriptor) /\ tbuf \in Seq(Descriptor) /\ state_map \in Seq(Descriptor)
  BY DEF TypeOK, MapsTyped
<1>2. CASE ~state_closed /\ state_qty > 0
  <2>1. UpdateStaticMap(state_map[state_qty])
    BY <1>2 DEF CloseLastState
  <2>2. state_map[state_qty] \in Descriptor
    <3>1. state_qty \in 1..state_qty
      BY <1>1, <1>2, LenProperties DEF state_qty
    <3>2. QED
      BY <3>1, DescriptorFields
  <2>3. CASE write_tfile
    BY <1>1, <2>1, <2>3, Grown DEF UpdateStaticMap, FlushedMap
  <2>4. CASE ~write_tfile
    <3>1. dmap' = Append(dmap, state_map[state_qty])
      BY <2>1, <2>4 DEF UpdateStaticMap
    <3>2. dmap' = dmap \o <<state_map[state_qty]>>
      BY <1>1, <2>2, <3>1, AppendIsConcat
    <3>3. <<state_map[state_qty]>> \in Seq(Descriptor)
      BY <2>2
    <3>4. QED
      BY <1>1, <3>2, <3>3, Grown
  <2>5. QED
    BY <2>3, <2>4
<1>3. CASE ~(~state_closed /\ state_qty > 0)
  BY <1>1, <1>3, Same DEF CloseLastState, KeepMap
<1>4. QED
  BY <1>2, <1>3

\* A map that grows, and whose states are on disk afterwards.
LEMMA GrownKeeps ==
    ASSUME MapGrows, \A i \in DOMAIN dmap : i \in DOMAIN dmap' /\ dmap'[i] = dmap[i],
           call' = "none", MappedIsWritten'
    PROVE  Keeps
<1>1. ASSUME NEW i \in DOMAIN dmap PROVE Written(dfile', dmap[i])
  <2>1. \A d \in Range(dmap') : Written(dfile', d)
    BY DEF MappedIsWritten, Written, Holds, Extent, RecordSize
  <2>2. dmap'[i] \in Range(dmap')
    BY DEF Range
  <2>3. QED
    BY <2>1, <2>2
<1>2. QED
  BY <1>1 DEF Keeps, MapGrows

\* Each step keeps what the map lists.
LEMMA KeepsNext ==
    ASSUME PlainUse, Safe, Safe', MappedIsWritten', [Next]_vars
    PROVE  [Keeps]_vars
<1>1. /\ IInv /\ PlaceInv /\ DataInv /\ DataInv' /\ dmap \in Seq(Descriptor)
      /\ TypeOK /\ MapInv /\ DOMAIN dmap = 1..Len(dmap)
  BY LenProperties DEF Safe, IInv, TypeOK, MapsTyped
<1>2. ASSUME UNCHANGED <<dfile, dmap>> PROVE Keeps
  BY <1>1, <1>2, Same DEF Keeps, MapGrows
<1>3. ASSUME dmap' = dmap, call' = "none" PROVE Keeps
  BY <1>1, <1>3, Same, GrownKeeps
<1>4. ASSUME CloseLastState, Idle, call' = call PROVE Keeps
  BY <1>1, <1>4, CloseGrows, GrownKeeps DEF Idle
<1>5. ASSUME NEW s \in Srecs, NewState(s) PROVE Keeps
  BY <1>4, <1>5 DEF NewState, caller
<1>6. ASSUME NEW k \in todo, WriteSubrec(k) PROVE Keeps
  BY <1>3, <1>6 DEF WriteSubrec, caller, Idle
<1>7. CASE EndState
  BY <1>4, <1>7 DEF EndState, caller
<1>8. ASSUME NEW i, NEW k, RewriteSubrec(i, k) PROVE Keeps
  BY <1>3, <1>8 DEF RewriteSubrec, caller, Idle
<1>9. ASSUME Partition PROVE FALSE
  BY <1>9 DEF Partition, PlainUse, FilledUse
<1>10. ASSUME NEW n, LimitStates(n) PROVE FALSE
  BY <1>10 DEF LimitStates, PlainUse, FilledUse
<1>11. ASSUME MayRestart, NEW i \in 0..state_qty - 1, BeginTruncate(i) PROVE Keeps
  <2>1. /\ open /\ ~Restarting /\ dmap' = dmap /\ dfile' \in {dfile, Flushed}
        /\ state_closed \/ state_qty = 0
    BY <1>11 DEF MayRestart, BeginTruncate, StateFileClose, Idle, Restarting, PlainUse, FilledUse,
       RestartsClosed
  <2>2. state_qty \in Nat
    BY <1>1, <2>1, Session
  <2>3. todo = {}
    BY <1>1, <1>11, <2>1, <2>2 DEF DataInv, TodoInv
  <2>4. IsPrefixOf(dmap, state_map)
    BY <1>1, <2>1, PrefixOfFlushed
  <2>5. ASSUME NEW j \in DOMAIN dmap, Written(dfile, dmap[j]) PROVE Written(dfile', dmap[j])
    <3>1. j \in 1..state_qty /\ dmap[j] = state_map[j]
      BY <1>1, <2>2, <2>4, LenProperties DEF IsPrefixOf, state_qty
    <3>2. Written(Flushed, state_map[j])
      BY <1>1, <2>1, <2>3, <3>1, AllWritten
    <3>3. QED
      BY <2>1, <2>5, <3>1, <3>2
  <2>6. QED
    BY <1>1, <2>1, <2>5, Same DEF Keeps, MapGrows
<1>12. ASSUME NEW f, NEW i, RestartAtState(f, i) PROVE Keeps
  BY <1>11, <1>12 DEF RestartAtState
<1>13. ASSUME NEW f, RestartAtFile(f) PROVE Keeps
  BY <1>11, <1>13 DEF RestartAtFile, PlainUse, FilledUse
<1>14. ASSUME open, call = "unlink", Restarting', dmap' = dmap, target' = target,
              state_map' = state_map
       PROVE  Keeps
  <2>1. \A j \in 1..target : Written(dfile', state_map[j])
    BY <1>1, <1>14 DEF DataInv, KeptInv, Written, Holds, Extent, RecordSize
  <2>2. IsPrefixOf(dmap, state_map) /\ target \in Nat
    BY <1>1, <1>14, PrefixOfFlushed, TargetFacts
  <2>3. ASSUME NEW j \in DOMAIN dmap, ~(j > target) PROVE Written(dfile', dmap[j])
    <3>1. j \in 1..target /\ dmap[j] = state_map[j]
      BY <1>1, <2>2, <2>3, LenProperties DEF IsPrefixOf
    <3>2. QED
      BY <2>1, <3>1
  <2>4. QED
    BY <1>1, <1>14, <2>3, Same DEF Keeps, MapGrows
<1>15. CASE TruncUnlink
  BY <1>14, <1>15 DEF TruncUnlink, Restarting, caller
<1>16. CASE TruncFile
  BY <1>14, <1>16 DEF TruncFile, Restarting
<1>17. CASE TruncMap
  BY <1>17 DEF TruncMap, Keeps, Kept
<1>18. CASE TruncEnd
  BY <1>2, <1>18 DEF TruncEnd
<1>19. CASE CloseMap
  <2>1. PICK last \in {<<state_map[state_qty]>>, << >>} :
            /\ dmap' = FlushedMap \o last
            /\ last # << >> => state_qty > 0
    BY <1>19 DEF CloseMap
  <2>2. tbuf \in Seq(Descriptor) /\ state_qty \in Nat /\ FlushedMap = dmap \o tbuf
    BY <1>1, LenProperties DEF TypeOK, MapsTyped, state_qty, FlushedMap
  <2>3. last \in Seq(Descriptor)
    <3>1. CASE last = << >>
      BY <3>1, EmptySeq
    <3>2. CASE last # << >>
      <4>1. state_qty \in 1..state_qty
        BY <2>1, <2>2, <3>2
      <4>2. state_map[state_qty] \in Descriptor
        BY <1>1, <4>1, DescriptorFields
      <4>3. QED
        BY <2>1, <3>2, <4>2
    <3>3. QED
      BY <3>1, <3>2
  <2>4. dmap' = dmap \o (tbuf \o last)
    BY <1>1, <2>1, <2>2, <2>3, ConcatAssociative
  <2>5. tbuf \o last \in Seq(Descriptor)
    BY <2>2, <2>3, ConcatProperties
  <2>6. MapGrows /\ dfile' = dfile
    BY <1>1, <1>19, <2>4, <2>5, Grown DEF CloseMap
  <2>7. QED
    BY <2>6 DEF Keeps, MapGrows
<1>20. CASE CloseFile
  BY <1>3, <1>20 DEF CloseFile, Forget
<1>21. ASSUME NEW written, NEW mapped, Crash(written, mapped) PROVE Keeps
  <2>1. call' = "none" /\ dmap' \in {dmap, dmap \o tbuf} /\ tbuf \in Seq(Descriptor)
    BY <1>1, <1>21 DEF Crash, Forget, FlushedMap, TypeOK, MapsTyped
  <2>2. MapGrows /\ \A i \in DOMAIN dmap : i \in DOMAIN dmap' /\ dmap'[i] = dmap[i]
    BY <1>1, <2>1, Same, Grown
  <2>3. QED
    BY <2>1, <2>2, GrownKeeps
<1>22. CASE Reopen
  BY <1>2, <1>22 DEF Reopen, disk
<1>23. CASE UNCHANGED vars
  BY <1>23
<1>24. QED
  BY <1>5, <1>6, <1>7, <1>8, <1>9, <1>10, <1>12, <1>13, <1>15, <1>16, <1>17, <1>18, <1>19, <1>20,
     <1>21, <1>22, <1>23 DEF Next

\* A state that is in the map on disk stays there, and its data in the files: no
\* step of any call and no crash between calls takes it away, but for the states
\* that a restart is about to prune.
THEOREM ListedStays ==
    ASSUME PlainUse
    PROVE  Spec /\ []~HardLimit => PublishedIsKept
<1>1. Spec /\ []~HardLimit => []Safe
  BY AlwaysSafe
<1>2. Spec /\ []~HardLimit => []MappedIsWritten
  BY ListedIsWritten
<1>3. Safe /\ Safe' /\ MappedIsWritten' /\ [Next]_vars => [Keeps]_vars
  BY KeepsNext
<1>4. [][Keeps]_vars => PublishedIsKept
  BY PTL DEF Keeps, PublishedIsKept
<1>5. QED
  BY <1>1, <1>2, <1>3, <1>4, PTL DEF Spec

-----------------------------------------------------------------------------
(***************************************************************************)
(* A family whose writer is gone can be opened again.                      *)
(***************************************************************************)
\* With the map in the A-file, and no process that dies within a restart.
ReopenUse == RestartsClosed /\ "crash_inside" \notin App /\ ~write_tfile

\* What a process leaves names files that are there.
LEMMA EndLoads ==
    ASSUME IInv, open, call \in {"none", "close"}, IsPrefixOf(dmap', state_map),
           dmap' \in Seq(Descriptor), DOMAIN dfile' = DOMAIN dfile
    PROVE  \A i \in 1..Len(dmap') : dmap'[i].file \in DOMAIN dfile'
<1>1. /\ 0..st_file_count - 1 \subseteq DOMAIN dfile /\ st_file_count \in Nat
      /\ \A i \in 1..state_qty : state_map[i].file < st_file_count
  BY DEF IInv, FileInv, TypeOK, CountsTyped
<1>2. ASSUME NEW i \in 1..Len(dmap') PROVE dmap'[i].file \in DOMAIN dfile'
  <2>1. i \in 1..state_qty /\ dmap'[i] = state_map[i]
    BY LenProperties DEF IInv, TypeOK, MapsTyped, IsPrefixOf, state_qty
  <2>2. dmap'[i].file \in Nat
    <3>1. dmap'[i] \in Descriptor
      BY ElementOfSeq
    <3>2. QED
      BY <3>1 DEF Descriptor
  <2>3. dmap'[i].file \in 0..st_file_count - 1
    BY <1>1, <2>1, <2>2
  <2>4. QED
    BY <1>1, <2>3
<1>3. QED
  BY <1>2

\* Each step keeps what the next process needs.
LEMMA LoadNext ==
    ASSUME ReopenUse, IInv, LoadInv, [Next]_vars
    PROVE  LoadInv'
<1>1. ASSUME open, open' = open, dtrailer' = dtrailer, call # "end_map" PROVE LoadInv'
  BY <1>1 DEF LoadInv
<1>2. ASSUME CloseLastState PROVE dtrailer' = dtrailer
  BY <1>2 DEF CloseLastState, UpdateStaticMap, KeepMap, ReopenUse
<1>3. DOMAIN Flushed = DOMAIN dfile
  BY FlushedType DEF IInv
<1>4. ASSUME NEW s \in Srecs, NewState(s) PROVE LoadInv'
  BY <1>1, <1>2, <1>4 DEF NewState, Idle
<1>5. ASSUME NEW k \in todo, WriteSubrec(k) PROVE LoadInv'
  BY <1>1, <1>5 DEF WriteSubrec, Idle
<1>6. CASE EndState
  BY <1>1, <1>2, <1>6 DEF EndState, Idle
<1>7. ASSUME NEW i, NEW k, RewriteSubrec(i, k) PROVE LoadInv'
  BY <1>1, <1>7 DEF RewriteSubrec, Idle
<1>8. CASE Partition
  BY <1>1, <1>8 DEF Partition, Idle
<1>9. ASSUME NEW n, LimitStates(n) PROVE LoadInv'
  BY <1>1, <1>9 DEF LimitStates, Idle
<1>10. ASSUME NEW f, NEW i, RestartAtState(f, i) PROVE LoadInv'
  BY <1>1, <1>10 DEF RestartAtState, BeginTruncate, MayRestart, Idle
<1>11. ASSUME NEW f, RestartAtFile(f) PROVE LoadInv'
  BY <1>1, <1>11 DEF RestartAtFile, BeginTruncate, MayRestart, Idle
<1>12. CASE TruncUnlink
  BY <1>1, <1>12 DEF TruncUnlink
<1>13. CASE TruncFile
  BY <1>1, <1>13 DEF TruncFile
<1>14. CASE TruncMap
  BY <1>14 DEF TruncMap, LoadInv
<1>15. CASE TruncEnd
  BY <1>15 DEF TruncEnd, LoadInv
<1>16. CASE CloseMap
  BY <1>16 DEF CloseMap, Idle, FlushedTrailer, LoadInv
<1>17. CASE CloseFile
  <2>1. /\ open /\ call = "close" /\ dmap' = dmap /\ dtrailer' = dtrailer
        /\ dfile' = Flushed
    BY <1>17 DEF CloseFile
  <2>2. \A i \in 1..Len(dmap') : dmap'[i].file \in DOMAIN dfile'
    BY <1>3, <2>1, PrefixOfFlushed, EndLoads
  <2>3. QED
    BY <2>1, <2>2 DEF LoadInv
<1>18. ASSUME NEW written, NEW mapped, Crash(written, mapped) PROVE LoadInv'
  <2>1. /\ open /\ call = "none" /\ dmap' \in {dmap, FlushedMap}
        /\ dtrailer' \in {dtrailer, FlushedTrailer} /\ dfile' \in {dfile, Flushed}
    BY <1>18 DEF Crash, ReopenUse
  <2>2. \A i \in 1..Len(dmap') : dmap'[i].file \in DOMAIN dfile'
    BY <1>3, <2>1, PrefixOfFlushed, EndLoads
  <2>3. dtrailer'
    BY <2>1 DEF LoadInv, FlushedTrailer
  <2>4. QED
    BY <2>2, <2>3 DEF LoadInv
<1>19. CASE Reopen
  BY <1>19 DEF Reopen, LoadInv, disk
<1>20. CASE UNCHANGED vars
  BY <1>20 DEF vars, disk, caller, LoadInv
<1>21. QED
  BY <1>4, <1>5, <1>6, <1>7, <1>8, <1>9, <1>10, <1>11, <1>12, <1>13, <1>14, <1>15, <1>16, <1>17,
     <1>18, <1>19, <1>20 DEF Next

\* Whenever no process has the family open, the map on disk has its header and the
\* last file it names is there: load_static_maps takes it, after any sequence of
\* calls, restarts, closings and crashes between calls.
THEOREM CanReopen ==
    ASSUME ReopenUse
    PROVE  Spec => []Reopenable
<1>1. Spec => []IInv
  BY Invariant DEF ReopenUse
<1>2. Init => LoadInv
  BY DEF Init, LoadInv, ReopenUse
<1>3. IInv /\ LoadInv /\ [Next]_vars => LoadInv'
  BY LoadNext
<1>4. IInv /\ LoadInv => Reopenable
  <2>1. SUFFICES ASSUME IInv, LoadInv, ~open
                 PROVE  dtrailer /\ (dmap # << >> => dmap[Len(dmap)].file \in DOMAIN dfile)
    BY DEF Reopenable
  <2>2. call = "none" /\ dmap \in Seq(Descriptor)
    BY <2>1 DEF IInv, MapInv, TypeOK, MapsTyped
  <2>3. dmap # << >> => Len(dmap) \in 1..Len(dmap)
    BY <2>2, EmptySeq, LenProperties
  <2>4. QED
    BY <2>1, <2>2, <2>3 DEF LoadInv
<1>5. QED
  BY <1>1, <1>2, <1>3, <1>4, PTL DEF Spec
=============================================================================
