-------------------------------- MODULE Combine --------------------------------
(***************************************************************************)
(* What the combiner (xmilics) makes of the families that the processors   *)
(* of a parallel run wrote, each for its part of the mesh: the labels of   *)
(* their objects give every object one place in the combined family, its   *)
(* geometry, variables and subrecords are defined there, and the words of  *)
(* each processor's records are moved to their places in its records       *)
(* (process_ti.c, combine_db.c, read_db.c).                                *)
(*                                                                         *)
(* A partition is a sequence of databases, one for each processor.  A      *)
(* database has object classes, the subrecords of its one record format,   *)
(* and parameters.  The classes "mat", "mesh" and "unit" are global: every *)
(* processor has all of their objects.  Names of classes are those of      *)
(* their superclasses where nothing depends on the difference.             *)
(***************************************************************************)
EXTENDS Records

CONSTANT Svars   \* the table of variables

Global == {"mat", "mesh", "unit"}
NoLabel == 0     \* what malloc left in a place nobody wrote

-----------------------------------------------------------------------------
(***************************************************************************)
(* Labels.                                                                 *)
(***************************************************************************)
ClassNames(P) == UNION {DOMAIN P[p].classes : p \in DOMAIN P}
Has(P, p, c)  == c \in DOMAIN P[p].classes
FirstWith(P, c) == Min({p \in DOMAIN P : Has(P, p, c)})
Super(P, c)   == P[FirstWith(P, c)].classes[c].super

\* The label arrays of a class: the element ids they are for, and the labels.
Chunks(P, p, c) == IF Has(P, p, c) THEN P[p].classes[c].chunks ELSE << >>
Labelled(P, c)  == \E p \in DOMAIN P : Chunks(P, p, c) # << >>

\* count_elem_conn_defs
ElemCount(P, p, c) ==
    IF Has(P, p, c) /\ Super(P, c) = "elem" THEN Len(P[p].classes[c].objects) ELSE 0

\* num_per_processors.  Elements without labels count only where the class has
\* labels on no processor: the combiner gives them labels.
NumPer(P, p, c) ==
    LET chunks == Chunks(P, p, c)
    IN  IF Labelled(P, c) THEN Sum([k \in DOMAIN chunks |-> Len(chunks[k].labels)])
        ELSE ElemCount(P, p, c)

\* offset_per_processor, and the size of a label
Offset(P, p, c) == Sum([q \in 1..p - 1 |-> NumPer(P, q, c)])
LabelSize(P, c) == Sum([p \in DOMAIN P |-> NumPer(P, p, c)])

\* Every element with a label has a place for it.  At one that has not,
\* load_ti_labels stops, with labels of all later arrays missing, and returns OK.
IdsFit(P) ==
    \A c \in ClassNames(P) : \A p \in DOMAIN P : \A k \in DOMAIN Chunks(P, p, c) :
        Super(P, c) # "node" =>
            \A j \in DOMAIN Chunks(P, p, c)[k].labels :
                Offset(P, p, c) + Chunks(P, p, c)[k].ids[j] <= LabelSize(P, c)

\* Mutant: the labels of elements are taken in the order of the file.
PutChunkInOrder(list, offset, super, chunk) ==
    [i \in DOMAIN list |->
        IF i - offset \in DOMAIN chunk.labels THEN chunk.labels[i - offset] ELSE list[i]]

\* A chunk goes behind the labels of the processors before: the labels of nodes
\* in order, those of elements at their ids.
PutChunk(list, offset, super, chunk) ==
    [i \in DOMAIN list |->
        LET at == {j \in DOMAIN chunk.labels :
                      i = offset + (IF super = "node" THEN j ELSE chunk.ids[j])}
        IN  IF at = {} THEN list[i] ELSE chunk.labels[Max(at)]]

\* load_ti_labels, for one class
LoadTiLabels(P, c) ==
    LET Load(list, p) ==
            FoldLeft(LAMBDA l, chunk : PutChunk(l, Offset(P, p, c), Super(P, c), chunk),
                     list, Chunks(P, p, c))
    IN  IF Labelled(P, c)
        THEN FoldLeft(Load, [i \in 1..LabelSize(P, c) |-> NoLabel], Positions(P))
        ELSE [i \in 1..LabelSize(P, c) |-> i]

\* filter_count: every label once, in order, and for each object of each
\* processor where its label is.
FilterCount(list) ==
    LET labels == SetToSortSeq(Range(list), LAMBDA a, b : a < b)
    IN  [labels |-> labels, map |-> [i \in DOMAIN list |-> IndexIn(labels, list[i])]]

\* build_cmap_from_labels
BuildCmap(P) ==
    [c \in {d \in ClassNames(P) : LabelSize(P, d) > 0} |->
        FilterCount(LoadTiLabels(P, c)) @@ [offset |-> [p \in DOMAIN P |-> Offset(P, p, c)]]]

\* Where an object of a processor is in the combined mesh: an id from 1.
GlobalId(L, c, p, i) == L[c].map[L[c].offset[p] + i]

-----------------------------------------------------------------------------
(***************************************************************************)
(* Meshes, variables and parameters.                                       *)
(***************************************************************************)
\* What mc_copy_geometry makes of an object: of a node nothing, of an element its
\* nodes' new numbers.  The materials and parts read from 0 are written from 1.
Copied(P, L, p, c, i) ==
    LET object == P[p].classes[c].objects[i]
    IN  IF Super(P, c) = "node" THEN object
        ELSE [object EXCEPT !.nodes = [n \in DOMAIN @ |-> GlobalId(L, "node", p, @[n])]]

\* mc_copy_geometry: of an object that several processors have, the last one's.
CopyGeometry(P, L, c) ==
    [id \in DOMAIN L[c].labels |->
        LET from == {f \in (DOMAIN P) \X (DOMAIN L[c].map) :
                        f[2] <= NumPer(P, f[1], c) /\ GlobalId(L, c, f[1], f[2]) = id}
            p    == Max({f[1] : f \in from})
        IN  Copied(P, L, p, c, Max({f[2] : f \in {g \in from : g[1] = p}}))]

\* mc_combine_classes: a global class has the idents of the first that has it.
Idents(P, c) == P[FirstWith(P, c)].classes[c].idents
CombineClasses(P, L) ==
    [c \in ClassNames(P) |->
        IF Super(P, c) \in Global THEN [super |-> Super(P, c), labels |-> << >>, objects |-> Idents(P, c)]
        ELSE IF c \in DOMAIN L
        THEN [super |-> Super(P, c), labels |-> L[c].labels, objects |-> CopyGeometry(P, L, c)]
        ELSE [super |-> Super(P, c), labels |-> << >>, objects |-> << >>]]

\* The order in which define_variable defines a variable and what it consists of.
\* The variables that define_variable defines for one: components come before
\* what they are components of.
DefinitionOrder(v) ==
    LET comps(u)  == IF Svars[u].agg \in {"vector", "vec_array"} THEN Svars[u].comps ELSE << >>
        within(u) == Append(comps(u), u)
    IN  FlattenSeq([k \in DOMAIN comps(v) |-> within(comps(v)[k])]) \o <<v>>

\* A definition that is there already is none the worse for another, except that
\* of an array: there define_variable fails, and mc_combine_svars with it.
DefineVariable(table, v) ==
    IF ~table.ok THEN table
    ELSE IF Svars[v].agg = "array" /\ v \in table.names THEN [table EXCEPT !.ok = FALSE]
    ELSE [table EXCEPT !.names = @ \union {v}]

\* mc_combine_svars
CombineSvars(names, db) ==
    LET used  == FlattenSeq([k \in DOMAIN db.subrecs |-> db.subrecs[k].svars])
        order == FlattenSeq([k \in DOMAIN used |-> DefinitionOrder(used[k])])
    IN  FoldLeft(DefineVariable, [ok |-> TRUE, names |-> names], order).names

CombinedSvars(P) == FoldLeft(LAMBDA names, p : CombineSvars(names, P[p]), {}, Positions(P))

\* Parameters that say something of one processor's numbering.
NotCopied == {"Node Labels", "Element Labels", "GLOBAL_IDS", "GLOBAL_IDS_LOCAL_MAP", "LOCAL_COUNT"}

\* combine_non_state_definitions: the first that has a parameter gives it.
CombineParams(P) ==
    LET names == UNION {DOMAIN P[p].params : p \in DOMAIN P} \ NotCopied
    IN  [n \in names |-> P[Min({p \in DOMAIN P : n \in DOMAIN P[p].params})].params[n]]

-----------------------------------------------------------------------------
(***************************************************************************)
(* Subrecords.                                                             *)
(***************************************************************************)
ByStart(blocks) == SortSeq(blocks, LAMBDA a, b : a.start < b.start)

\* convert_local_moids
ConvertLocalMoids(L, p, sub) ==
    LET moids == BlockIds(sub.blocks)
    IN  ByStart(ListToBlocks([k \in DOMAIN moids |-> GlobalId(L, sub.mclass, p, moids[k])]))

\* mc_merge_subrec_ids: two lists of blocks, each sorted, are merged, and what
\* overlaps or touches becomes one block.
MergeSubrecIds(out, in) ==
    LET Extend(blocks, b) ==
            IF blocks # << >> /\ b.start <= Last(blocks).stop + 1
            THEN [blocks EXCEPT ![Len(blocks)].stop = Max({@, b.stop})]
            ELSE Append(blocks, b)
    IN  FoldLeft(Extend, << >>, ByStart(out \o in))

\* A container: the subrecord as the first processor has it, the objects of all
\* processors, and how many subrecords each gives (in_subrec_per_proc).
NewContainer(P, p, sub, blocks) ==
    [sub EXCEPT !.blocks = blocks] @@ [given |-> [q \in DOMAIN P |-> IF q = p THEN 1 ELSE 0]]

SameSubrec(a, b) == a.name = b.name /\ a.mclass = b.mclass

AddSubrec(P, L, containers, p, sub) ==
    LET same   == {k \in DOMAIN containers : SameSubrec(containers[k], sub)}
        local  == sub.super \notin Global
        blocks == IF local THEN ConvertLocalMoids(L, p, sub) ELSE sub.blocks
        Merge(c) == [c EXCEPT !.blocks = IF local THEN MergeSubrecIds(@, blocks) ELSE @,
                              !.given[p] = @ + 1]
    IN  IF same = {} THEN Append(containers, NewContainer(P, p, sub, blocks))
        ELSE [k \in DOMAIN containers |-> IF k \in same THEN Merge(containers[k]) ELSE containers[k]]

SubrecsInOrder(P) ==
    FlattenSeq([p \in DOMAIN P |-> [k \in DOMAIN P[p].subrecs |-> [p |-> p, sub |-> P[p].subrecs[k]]]])

Containers(P, L) ==
    FoldLeft(LAMBDA cs, s : AddSubrec(P, L, cs, s.p, s.sub), << >>, SubrecsInOrder(P))

\* get_subrec_contributions, and the end of mc_combine_srecs: an array of
\* num_procs rows, one place for each container.
Contributions(containers, procs) ==
    LET n == Len(containers)
    IN  [at \in 0..procs * n - 1 |-> containers[(at % n) + 1].given[(at \div n) + 1]]

\* mc_def_subrec_from_subrec.  A name is there once, unless it begins with "sand";
\* the global objects must be among those of the class.
CanDefine(P, fmt, names, sub) ==
    /\ sub.name # "sand" => \A k \in DOMAIN fmt : fmt[k].name # sub.name
    /\ Range(sub.svars) \subseteq names
    /\ sub.org = "object" => \A v \in Range(sub.svars) : Svars[v].type = Svars[sub.svars[1]].type
    /\ sub.super \in Global \ {"mesh"} =>
           \A id \in Range(BlockIds(sub.blocks)) :
               Idents(P, sub.mclass)[1] <= id /\ id <= Idents(P, sub.mclass)[2]

\* A subrecord of a record format, behind those before it.
PlaceSubrec(fmt, sub) ==
    Append(fmt, sub @@ [offset |-> Sum([k \in DOMAIN fmt |-> fmt[k].size])] @@ SetMetrics(Svars, sub))

DefSubrecFromSubrec(P, fmt, names, sub) ==
    IF CanDefine(P, fmt, names, sub) THEN PlaceSubrec(fmt, sub) ELSE fmt

\* mc_combine_srecs: the combined format.
CombineSrecs(P, containers) ==
    FoldLeft(LAMBDA fmt, c : DefSubrecFromSubrec(P, fmt, CombinedSvars(P), c), << >>, containers)

\* The format that a processor wrote.
FormatOf(db) == FoldLeft(PlaceSubrec, << >>, db.subrecs)
FormatSize(fmt) == Sum([k \in DOMAIN fmt |-> fmt[k].size])

-----------------------------------------------------------------------------
(***************************************************************************)
(* Records.                                                                *)
(***************************************************************************)
\* The label of a local object; that of a global one is its id.
LabelOf(P, L, p, sub, moid) ==
    IF sub.super \in Global THEN moid ELSE L[sub.mclass].labels[GlobalId(L, sub.mclass, p, moid)]

\* The objects of a subrecord in order; the mesh is its own only object.
Objects(sub) == IF sub.super = "mesh" THEN <<1>> ELSE BlockIds(sub.blocks)

\* The value that an object has in a state, before the state is known.
ValueAtoms(sub, label, v) ==
    [a \in 1..AtomQty(Svars, v) |-> <<sub.name, sub.mclass, label, v, a>>]

\* What mc_read_results gives for a variable of a subrecord: all objects in order.
ObjectsAtoms(P, L, p, sub, v, objects) ==
    FlattenSeq([k \in DOMAIN objects |-> ValueAtoms(sub, LabelOf(P, L, p, sub, objects[k]), v)])
ResultWords(P, L, p, sub, v) ==
    ToWords(ObjectsAtoms(P, L, p, sub, v, Objects(sub)), TypeSize(Svars[v].type))

Mo(sub)  == MoQty(sub.super, sub.blocks)
Width(v) == TypeSize(Svars[v].type)

\* recurse_vec_arr_list_size
ListSize(v) == Sum([k \in DOMAIN Svars[v].comps |-> FlatQty(Svars[Svars[v].comps[k]])])

\* Words that read_state_data moves on for a variable; of an array it counts the
\* sum of the dimensions.
ReadStep(sub, v) ==
    LET def == Svars[v]
        per == CASE def.agg = "scalar"    -> 1
                 [] def.agg = "vector"    -> Len(def.comps)
                 [] def.agg = "array"     -> Sum(def.dims)
                 [] def.agg = "vec_array" -> Sum(def.dims) * ListSize(v)
    IN  (IF sub.org = "result" THEN Mo(sub) * AtomQty(Svars, v) ELSE per * Mo(sub)) * Width(v)

\* The variables of a format, subrecord after subrecord.
SubrecFields(sub) == [j \in DOMAIN sub.svars |-> [sub |-> sub, v |-> sub.svars[j]]]
Fields(fmt)       == FlattenSeq([k \in DOMAIN fmt |-> SubrecFields(fmt[k])])
ReadAt(fields, n) == Sum([m \in 1..n - 1 |-> ReadStep(fields[m].sub, fields[m].v)])

\* read_state_data: the words of a processor's buffer (in_db->result).
ReadField(P, L, p, fields, words, n) ==
    PutWords(words, ReadAt(fields, n), ResultWords(P, L, p, fields[n].sub, fields[n].v))

ReadFields(P, L, p, fields, size) ==
    FoldLeft(LAMBDA words, n : ReadField(P, L, p, fields, words, n), Hole(size), Positions(fields))

ReadFormat(P, L, p, fmt) == ReadFields(P, L, p, Fields(fmt), FormatSize(fmt))
ReadStateData(P, L, p)   == ReadFormat(P, L, p, FormatOf(P[p]))

\* Where an id is among the objects of a subrecord, from 0.
PositionIn(sub, id) == IndexIn(BlockIds(sub.blocks), id) - 1

\* Mutant: the combined subrecord is always taken to have all objects of its class.
TargetByClass(L, p, in, out, given) ==
    [k \in DOMAIN Objects(in) |->
        IF in.super \in Global THEN k - 1 ELSE GlobalId(L, in.mclass, p, Objects(in)[k]) - 1]

\* Where merge_state_data puts the objects of a processor's subrecord in the
\* combined one.  If that has all objects of the class, and one subrecord of the
\* processor gives to it, the subrecord is taken to list the processor's objects
\* from the first on.
Target(L, p, in, out, given) ==
    LET moids == Objects(in)
    IN  [k \in DOMAIN moids |->
            IF in.super \in Global THEN k - 1
            ELSE IF Mo(out) = Len(L[in.mclass].labels) /\ given <= 1
            THEN GlobalId(L, in.mclass, p, k) - 1
            ELSE PositionIn(out, GlobalId(L, in.mclass, p, moids[k]))]

\* object_offset: what each variable before counts for in a lump.
LumpStep(out, v) ==
    LET def == Svars[v]
    IN  CASE def.agg = "scalar"    -> 1
          [] def.agg = "vector"    -> Len(def.comps) * Width(v)
          [] def.agg = "array"     -> Product(def.dims) * Mo(out) * Width(v)
          [] def.agg = "vec_array" -> Sum(def.dims) * Len(def.comps) * Mo(out) * Width(v)

\* Words of a result-ordered subrecord before its n-th variable.
ResultsBefore(out, n) ==
    Sum([m \in 1..n - 1 |-> AtomQty(Svars, out.svars[m]) * Mo(out) * Width(out.svars[m])])
LumpBefore(out, n) == Sum([m \in 1..n - 1 |-> LumpStep(out, out.svars[m])])

\* index_out: the atom where an object's values of the n-th variable begin, from
\* the subrecord's offset for object order, from the variable's for result order.
IndexOut(in, out, n, k, target) ==
    LET v      == out.svars[n]
        agg    == Svars[v].agg
        atoms  == AtomQty(Svars, v)
        global == in.super \in Global
    IN  IF out.org = "result" THEN (IF agg = "array" /\ global THEN k - 1 ELSE atoms * target)
        ELSE IF agg = "scalar" \/ (agg = "vector" /\ ~global)
        THEN out.lump_atoms[1] * target + LumpBefore(out, n)
        ELSE IF agg = "vector" THEN (k - 1) * atoms * Width(v)
        ELSE IF agg = "array" /\ global THEN (k - 1) * Mo(in)
        ELSE atoms * target

\* Atoms from one object's values to the next's, where they come from.
SourceStep(in, out, v) ==
    IF out.org = "object" /\ Svars[v].agg = "vec_array" THEN in.lump_atoms[1] ELSE AtomQty(Svars, v)

Moves(to, from, qty) == [i \in 1..qty |-> [to |-> to + i, from |-> from + i]]

\* The words of one object that are moved for one variable.
ObjectMoves(in, out, n, k, target, in_offset) ==
    LET v     == out.svars[n]
        base  == out.offset + (IF out.org = "result" THEN ResultsBefore(out, n) ELSE 0)
        to    == base + IndexOut(in, out, n, k, target) * Width(v)
        from  == in_offset + (k - 1) * SourceStep(in, out, v) * Width(v)
    IN  Moves(to, from, AtomQty(Svars, v) * Width(v))

\* Words before the j-th variable of the subrecord in the buffer, as far as the
\* combined subrecord has the variables.
SourceBefore(in, out, j) ==
    Sum([m \in 1..j - 1 |->
            IF in.svars[m] \in Range(out.svars)
            THEN AtomQty(Svars, in.svars[m]) * Mo(in) * Width(in.svars[m]) ELSE 0])

TargetMoves(in, out, n, target, from) ==
    FlattenSeq([k \in DOMAIN target |-> ObjectMoves(in, out, n, k, target[k], from)])

SvarMoves(in, out, j, target) ==
    IF in.svars[j] \notin Range(out.svars) THEN << >>
    ELSE TargetMoves(in, out, IndexIn(out.svars, in.svars[j]), target, in.offset + SourceBefore(in, out, j))

SubrecMoves(in, out, target) ==
    FlattenSeq([j \in DOMAIN in.svars |-> SvarMoves(in, out, j, target)])

\* merge_state_data: the words of a processor's buffer that go into the combined
\* one, in order.
MovesTo(L, fmt, contributions, p, in, same) ==
    IF same = {} THEN << >>
    ELSE SubrecMoves(in, fmt[Min(same)],
             Target(L, p, in, fmt[Min(same)], contributions[(p - 1) * Len(fmt) + Min(same) - 1]))

FormatMoves(L, fmt, contributions, p, mine) ==
    FlattenSeq([k \in DOMAIN mine |->
        MovesTo(L, fmt, contributions, p, mine[k], {n \in DOMAIN fmt : SameSubrec(fmt[n], mine[k])})])

MergeMoves(P, L, fmt, contributions, p) == FormatMoves(L, fmt, contributions, p, FormatOf(P[p]))

\* The combined buffer after the moves from another; what falls outside is lost.
Moved(words, moves, from) ==
    [w \in DOMAIN words |->
        LET here == {m \in DOMAIN moves : moves[m].to = w}
            at   == moves[Max(here)].from
        IN  IF here = {} THEN words[w] ELSE IF at \in DOMAIN from THEN from[at] ELSE <<Garbage, 0>>]

-----------------------------------------------------------------------------
(***************************************************************************)
(* The reference: where a reader of the combined family finds a variable   *)
(* of an object, and what should be there.                                 *)
(***************************************************************************)
PlaceOf(sub, n, id) ==
    LET at    == IF sub.super = "mesh" THEN 0 ELSE PositionIn(sub, id)
        atoms == AtomQty(Svars, sub.svars[n])
        ahead == Sum([m \in 1..n - 1 |-> AtomQty(Svars, sub.svars[m])])
    IN  sub.offset + (IF sub.org = "result" THEN sub.lump_offsets[n] + at * atoms * Width(sub.svars[n])
                      ELSE (sub.lump_atoms[1] * at + ahead) * Width(sub.svars[n]))

\* A variable of an object of a processor's subrecord: the words it has there,
\* and where they should be in the combined record; nowhere if it is lost.
PromisesOf(P, L, fmt, p, sub) ==
    LET same    == {n \in DOMAIN fmt : SameSubrec(fmt[n], sub)}
        objects == Range(Objects(sub))
        Id(o)   == IF sub.super \in Global THEN o ELSE GlobalId(L, sub.mclass, p, o)
        There(v, o) == {n \in same : /\ v \in Range(fmt[n].svars)
                                     /\ sub.super # "mesh" => Id(o) \in Range(BlockIds(fmt[n].blocks))}
        Place(v, o) == LET k == fmt[Min(There(v, o))]
                       IN  IF There(v, o) = {} THEN -1 ELSE PlaceOf(k, IndexIn(k.svars, v), Id(o))
        Words(v, o) == ToWords(ValueAtoms(sub, LabelOf(P, L, p, sub, o), v), Width(v))
    IN  {[at |-> Place(v, o), words |-> Words(v, o)] : v \in Range(sub.svars), o \in objects}

Promises(P, L, fmt) ==
    UNION {PromisesOf(P, L, fmt, s.p, s.sub) : s \in Range(SubrecsInOrder(P))}

-----------------------------------------------------------------------------
(***************************************************************************)
(* A partition combined: the family's definitions and, for each processor, *)
(* what is read and where it goes.                                         *)
(***************************************************************************)
CombinedAs(P, L, containers, fmt) ==
    [labels  |-> L,
     classes |-> CombineClasses(P, L),
     svars   |-> CombinedSvars(P),
     params  |-> CombineParams(P),
     format  |-> fmt,
     size    |-> FormatSize(fmt),
     read    |-> [p \in DOMAIN P |-> ReadStateData(P, L, p)],
     promises |-> Promises(P, L, fmt),
     moves   |-> [p \in DOMAIN P |->
                     MergeMoves(P, L, fmt, Contributions(containers, Len(P)), p)]]

CombinedIn(P, L, containers) == CombinedAs(P, L, containers, CombineSrecs(P, containers))
CombinedBy(P, L) == CombinedIn(P, L, Containers(P, L))
Combined(P)      == CombinedBy(P, BuildCmap(P))
=============================================================================
