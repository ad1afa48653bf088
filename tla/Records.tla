------------------------------- MODULE Records -------------------------------
(***************************************************************************)
(* What a record format says about the words of a record: the atoms of a   *)
(* state variable, the lumps of a subrecord and where they are (the        *)
(* writer's half, set_metrics), and the atoms a reader's reference such as *)
(* stress[2,sx] asks for (translate_reference, map_subset_spec, and the    *)
(* functions that distribute them).  Beside them is the reference: the     *)
(* atoms of a variable by name and index, in order.                        *)
(*                                                                         *)
(* Offsets and sizes are in words of 4 bytes.  A table of variables maps   *)
(* names to definitions; vectors within vector arrays go one level deep.   *)
(***************************************************************************)
EXTENDS Integers, Sequences, FiniteSets, SequencesExt, FiniteSetsExt

Aggregates    == {"scalar", "vector", "array", "vec_array"}
Types         == {"float", "double", "int"}
Organizations == {"object", "result"}
SurfaceFlags  == {"per_object", "per_facet"}

Sum(s) == FoldLeft(LAMBDA a, b : a + b, 0, s)
Product(s) == FoldLeft(LAMBDA a, b : a * b, 1, s)
Positions(s) == [i \in DOMAIN s |-> i]

\* EXT_SIZE, in words
TypeSize(type) == IF type = "double" THEN 2 ELSE 1

-----------------------------------------------------------------------------
(***************************************************************************)
(* Atoms and lumps.                                                        *)
(***************************************************************************)
\* The atoms of a variable that is no vector array.
FlatQty(def) ==
    CASE def.agg = "scalar" -> 1
      [] def.agg = "vector" -> Len(def.comps)
      [] def.agg = "array"  -> Product(def.dims)

\* Mutant: every component of a vector array counts as a scalar.
QtyOfScalars(T, v) ==
    IF T[v].agg = "vec_array" THEN Product(T[v].dims) * Len(T[v].comps) ELSE FlatQty(T[v])

\* svar_atom_qty
AtomQty(T, v) ==
    IF T[v].agg = "vec_array"
    THEN Sum([k \in DOMAIN T[v].comps |-> Product(T[v].dims) * FlatQty(T[T[v].comps[k]])])
    ELSE FlatQty(T[v])

\* list_to_blocks: a new block where the next id is not the successor of the last.
ListToBlocks(list) ==
    LET Add(blocks, id) ==
            IF blocks # << >> /\ Last(blocks).stop + 1 = id
            THEN [blocks EXCEPT ![Len(blocks)].stop = id]
            ELSE Append(blocks, [start |-> id, stop |-> id])
    IN  FoldLeft(Add, << >>, list)

BlockIds(blocks) ==
    FlattenSeq([k \in DOMAIN blocks |->
                   [i \in 1..blocks[k].stop - blocks[k].start + 1 |-> blocks[k].start + i - 1]])

\* psubrec->mo_qty
MoQty(super, blocks) ==
    IF super = "mesh" THEN 1 ELSE Sum([k \in DOMAIN blocks |-> blocks[k].stop - blocks[k].start + 1])

\* mo_id_blks as the array of ints that set_metrics takes its surface ids from.
FlatBlocks(blocks) == FlattenSeq([k \in DOMAIN blocks |-> <<blocks[k].start, blocks[k].stop>>])

\* The atoms of one variable in an object-ordered subrecord's one lump.
LumpAtomsOf(T, sub, i) ==
    LET atoms == AtomQty(T, sub.svars[i])
        n     == MoQty(sub.super, sub.blocks)
        facets(j) == sub.facets[FlatBlocks(sub.blocks)[j]]
    IN  IF sub.super # "surface" THEN atoms
        ELSE IF sub.flags[i] = "per_facet" THEN Sum([j \in 1..n |-> atoms * facets(j)])
        ELSE n * atoms

LumpOffsets(atoms, sizes) == [k \in DOMAIN sizes |-> Sum(SubSeq(sizes, 1, k - 1))]

\* set_metrics, for a subrecord that has its variables, its objects and, if its
\* class is a surface, its flags and the numbers of facets.
SetMetrics(T, sub) ==
    LET n     == MoQty(sub.super, sub.blocks)
        vars  == DOMAIN sub.svars
        width(i) == TypeSize(T[sub.svars[i]].type)
        lump  == Sum([i \in vars |-> LumpAtomsOf(T, sub, i)])
        atoms == [i \in vars |-> n * AtomQty(T, sub.svars[i])]
        sizes == [i \in vars |-> atoms[i] * width(i)]
    IN  IF sub.org = "object"
        THEN [lump_atoms |-> <<lump>>, lump_sizes |-> <<lump * width(1)>>, lump_offsets |-> << >>,
              size |-> IF sub.super = "surface" THEN lump * width(1) ELSE lump * width(1) * n]
        ELSE [lump_atoms |-> atoms, lump_sizes |-> sizes,
              lump_offsets |-> LumpOffsets(atoms, sizes), size |-> Sum(sizes)]

-----------------------------------------------------------------------------
(***************************************************************************)
(* References to results.  A reference names a variable, some indices      *)
(* (from 1) and the names of a component and of a component of that.       *)
(***************************************************************************)
Failed == [rval |-> "malformed"]

\* vec_array_comp_offset and the last of svar_dims: what the components of a
\* vector array count for.  An array counts the sum of its dimensions.
CompWidth(def) == CASE def.agg = "scalar" -> 1
                    [] def.agg = "vector" -> Len(def.comps)
                    [] def.agg = "array"  -> Sum(def.dims)
CompOffset(T, comps, c) == Sum([k \in 1..c - 1 |-> CompWidth(T[comps[k]])])

IndexIn(s, x) == CHOOSE i \in DOMAIN s : s[i] = x

\* svar_dims: the variable as an array.
SvarDims(T, v) ==
    CASE T[v].agg = "vector"    -> <<Len(T[v].comps)>>
      [] T[v].agg = "array"     -> T[v].dims
      [] T[v].agg = "vec_array" -> Append(T[v].dims, CompOffset(T, T[v].comps, Len(T[v].comps) + 1))

\* svar_dim_sizes of the first dimensions; the size of the last one of a vector
\* array is that of the component named, or else what the stack holds.
DimSize(T, v, ref, i) ==
    LET dims == SvarDims(T, v)
        comp == T[ref.names[1]]
    IN  IF T[v].agg # "vec_array" \/ i < Len(dims) THEN Product(SubSeq(dims, i + 1, Len(dims)))
        ELSE IF Len(ref.names) = 1 /\ comp.agg = "vector" THEN Len(comp.comps) ELSE 1

\* The indices of a reference, the last for its component.
SpecIndices(T, v, ref) ==
    LET comps == T[v].comps
        c     == IndexIn(comps, ref.names[1])
        sub   == IF Len(ref.names) = 2 THEN IndexIn(T[ref.names[1]].comps, ref.names[2]) - 1 ELSE 0
        base  == IF T[v].agg = "vec_array" THEN CompOffset(T, comps, c) ELSE c - 1
    IN  [i \in DOMAIN ref.index |-> ref.index[i] - 1]
            \o (IF ref.names = << >> THEN << >> ELSE <<base + sub>>)

\* Whether the names of a reference are found.
NamesFound(T, v, names) ==
    /\ Len(names) >= 1 => /\ T[v].agg \in {"vector", "vec_array"}
                          /\ names[1] \in Range(T[v].comps)
    /\ Len(names) = 2  => names[2] \in Range(T[names[1]].comps)

\* map_subset_spec
MapSubset(T, v, ref) ==
    LET dims  == SvarDims(T, v)
        spec  == SpecIndices(T, v, ref)
        parts == [i \in DOMAIN spec |-> spec[i] * DimSize(T, v, ref, i)]
    IN  IF \/ T[v].agg = "vec_array" /\ ref.names # << >> /\ Len(ref.index) # Len(T[v].dims)
           \/ Len(spec) > Len(dims)
           \/ \E i \in DOMAIN spec : i <= Len(dims) /\ spec[i] \notin 0..dims[i] - 1
        THEN Failed
        ELSE [rval |-> "ok", reqd |-> DimSize(T, v, ref, Len(spec)), offset |-> Sum(parts)]

\* translate_reference: the variable's place in the subrecord, its atoms, and
\* the atoms required of them.
Translate(T, sub, ref) ==
    LET v    == ref.name
        all  == AtomQty(T, v)
        spec == MapSubset(T, v, ref)
        at   == IndexIn(sub.svars, v)
    IN  IF v \notin Range(sub.svars) \/ ~NamesFound(T, v, ref.names) THEN Failed
        ELSE IF ref.index = << >> /\ ref.names = << >>
        THEN [rval |-> "ok", at |-> at, atoms |-> all, reqd |-> all, offset |-> 0]
        ELSE IF T[v].agg = "scalar" \/ spec.rval # "ok" THEN Failed
        ELSE [rval |-> "ok", at |-> at, atoms |-> all, reqd |-> spec.reqd, offset |-> spec.offset]

\* get_data_dist_func
DistFunc(length, cell) == IF length = cell THEN "all" ELSE IF length = 1 THEN "scalar" ELSE "vector"

\* Memory that nobody wrote, or the middle of something else.
Garbage == <<"garbage">>

\* distribute_all, distribute_scalar, distribute_vector
Distribute(func, in, cells, size, offset, length) ==
    LET At(p) == IF p \in DOMAIN in THEN in[p] ELSE Garbage
        len   == IF func = "scalar" THEN 1 ELSE length
    IN  IF func = "all" THEN [p \in 1..cells * size |-> At(p)]
        ELSE [p \in 1..cells * len |-> At(offset + ((p - 1) \div len) * size + ((p - 1) % len) + 1)]

-----------------------------------------------------------------------------
(***************************************************************************)
(* Words.                                                                  *)
(***************************************************************************)
\* Fresh words of a file
Hole(n) == [i \in 1..n |-> <<Garbage, 0>>]

\* The words of atoms of a width, and back: fwrite and fread.
ToWords(atoms, width) ==
    [i \in 1..Len(atoms) * width |-> <<atoms[((i - 1) \div width) + 1], (i - 1) % width>>]

FromWords(words, width) ==
    [a \in 1..Len(words) \div width |->
        LET first == words[(a - 1) * width + 1]
        IN  IF \A k \in 1..width : words[(a - 1) * width + k] = <<first[1], k - 1>>
            THEN first[1] ELSE Garbage]

\* words written over those from a place on; what would come behind the end is lost.
PutWords(words, place, new) ==
    [i \in DOMAIN words |-> IF i > place /\ i <= place + Len(new) THEN new[i - place] ELSE words[i]]

GetWords(words, place, n) == SubSeq(words, place + 1, place + n)

-----------------------------------------------------------------------------
(***************************************************************************)
(* The reference: the atoms of a variable in order, each with its indices, *)
(* its components and, in an array within a vector array, its place there. *)
(***************************************************************************)
IndexTuples(dims) ==
    LET Extend(tuples, n) ==
            FlattenSeq([t \in DOMAIN tuples |-> [i \in 1..n |-> Append(tuples[t], i)]])
    IN  FoldLeft(Extend, <<<<>>>>, dims)

Path(index, names, inner) == [index |-> index, names |-> names, inner |-> inner]

FlatPaths(def) ==
    CASE def.agg = "scalar" -> <<Path(<<>>, <<>>, 0)>>
      [] def.agg = "vector" -> [i \in DOMAIN def.comps |-> Path(<<i>>, <<def.comps[i]>>, 0)]
      [] def.agg = "array"  -> LET t == IndexTuples(def.dims)
                               IN  [i \in DOMAIN t |-> Path(t[i], <<>>, i)]

AtomPaths(T, v) ==
    LET tuples == IndexTuples(T[v].dims)
        Cell(t) == FlattenSeq([k \in DOMAIN T[v].comps |->
                       LET c == T[v].comps[k]
                           p == FlatPaths(T[c])
                       IN  [i \in DOMAIN p |-> Path(t, <<c>> \o p[i].names, p[i].inner)]])
    IN  IF T[v].agg = "vec_array" THEN FlattenSeq([t \in DOMAIN tuples |-> Cell(tuples[t])])
        ELSE FlatPaths(T[v])

\* The places of the atoms a reference means.
RefAtoms(T, ref) ==
    LET paths == AtomPaths(T, ref.name)
    IN  SelectSeq(Positions(paths), LAMBDA a : /\ IsPrefix(ref.index, paths[a].index)
                                               /\ IsPrefix(ref.names, paths[a].names))
=============================================================================
