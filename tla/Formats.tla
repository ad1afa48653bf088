-------------------------------- MODULE Formats --------------------------------
(***************************************************************************)
(* The definitions of state variables and of state record formats: how     *)
(* they wait in I/O stores, are packed into non-state files at a commit,   *)
(* and are read back (svar.c, io_mem.c, srec.c).                           *)
(*                                                                         *)
(* An I/O store is a list of buffers; an allocation in it is an item, with *)
(* the field it holds and the variable it belongs to.  What a commit       *)
(* writes is a chunk: the items as they were output.  A chunk is found by  *)
(* the offset in its directory entry and only there: what is read at any   *)
(* other place, or with other counts, is no definition.  The files that    *)
(* the chunks are in, and when commits happen, are in NonState.            *)
(***************************************************************************)
EXTENDS Records

CONSTANTS
    Chars,        \* bytes of each name and title, its NUL included
    Title,        \* the title an application gives a variable ("" for none)
    Sand,         \* the names that begin with "sand"
    ALLOC_UNITS,  \* units of a buffer
    ScalarCalls,  \* arguments of mc_def_svars: lists of [name, type]
    ListCalls,    \* of mc_def_vec_svar and mc_def_vec_arr_svar
    ArrayCalls,   \* of mc_def_arr_svar
    SubrecCalls,  \* of mc_def_subrec and, as Subrecords, mc_def_subrec_from_subrec
    Classes,      \* object classes: [super, qty, facets]
    App,          \* uses of the library that the instance includes
    MaxCalls,     \* bound: calls that define variables and subrecords
    MaxSrecs      \* bound: formats

VARIABLES
    fam,      \* the fields of Mili_family that definitions are in
    files,    \* what was committed: chunks and directory entries, in order
    up,       \* the family is open
    at_work,  \* an uncommitted non-state file is open
    granted,  \* history: the definitions for which a call returned OK
    rval,     \* history: what the last call returned
    calls     \* history: calls so far
vars == <<fam, files, up, at_work, granted, rval, calls>>

TitleOf(name) == IF Title[name] = "" THEN name ELSE Title[name]

\* fam->external_type: what a type of the application is on disk.
ExternalType(type) == IF type = "float4" THEN "float" ELSE type

-----------------------------------------------------------------------------
(* I/O stores.                                                             *)
Item(field, val, len, owner) == [field |-> field, val |-> val, len |-> len, owner |-> owner]
Units(items) == Sum([k \in DOMAIN items |-> items[k].len])

Buffer(size, items, output) == [size |-> size, items |-> items, output |-> output, invalid |-> {}]
EmptyStore == [buffers |-> << >>, out |-> 1]
CreateStore == [buffers |-> <<Buffer(ALLOC_UNITS, << >>, 0)>>, out |-> 1]

BufferSize(qty) == ((qty + ALLOC_UNITS - 1) \div ALLOC_UNITS) * ALLOC_UNITS

\* ios_alloc: behind the last item, or in a new buffer.
AllocIn(st, b, item) ==
    IF Units(b.items) + item.len > b.size
    THEN [st EXCEPT !.buffers = Append(@, Buffer(BufferSize(item.len), <<item>>, 0))]
    ELSE [st EXCEPT !.buffers = Front(@) \o <<[b EXCEPT !.items = Append(@, item)]>>]
Alloc(st, item) == AllocIn(st, Last(st.buffers), item)

\* ios_unalloc, for some items of each buffer.
Unalloc(st, freed) ==
    [st EXCEPT !.buffers = [k \in DOMAIN @ |-> [@[k] EXCEPT !.invalid = @ \cup freed[k]]]]

Fresh(b) == SubSeq(b.items, b.output + 1, Len(b.items))

\* Mutant: the count leaves out the buffers before the last.
GetFreshLast(st) == Units(Fresh(Last(st.buffers)))

\* ios_get_fresh, which counts what is invalid too.
GetFresh(st) == Sum([k \in DOMAIN st.buffers |-> Units(Fresh(st.buffers[k]))])

\* Whether ios_output leaves an item out: it skips an invalid range only where
\* fresh data precedes it.
Skipped(b, j) == j \in b.invalid /\ \E i \in b.output + 1..j : i \notin b.invalid

Output(b) ==
    LET places == SelectSeq([j \in 1..Len(b.items) - b.output |-> b.output + j],
                            LAMBDA j : ~Skipped(b, j))
    IN  [k \in DOMAIN places |-> b.items[places[k]]]

\* ios_output: the items written, and the store after it.
Written(st) == FlattenSeq([k \in 1..Len(st.buffers) - st.out + 1 |-> Output(st.buffers[st.out + k - 1])])
AfterOutput(st) ==
    [buffers |-> SubSeq(st.buffers, 1, st.out - 1)
                    \o [k \in 1..Len(st.buffers) - st.out + 1 |->
                          [st.buffers[st.out + k - 1] EXCEPT
                              !.output = Len(st.buffers[st.out + k - 1].items)]],
     out |-> Len(st.buffers)]

\* ios_input: a buffer of its own, full and output.
Input(st, items) ==
    [st EXCEPT !.buffers = Append(@, Buffer(Units(items), items, Len(items)))]

-----------------------------------------------------------------------------
(***************************************************************************)
(* State variables.  svars holds the Svar structs by their addresses, and  *)
(* svar_table the addresses in the order of the hash table, newest first.  *)
(***************************************************************************)
EmptyFile == [chunks |-> << >>, entries |-> << >>, pos |-> 0, next_free_byte |-> 0]

\* cur is the file of a commit, pi and pc the places that loading has come to.
NewFamily == [svar_table |-> << >>, svars |-> << >>, created |-> FALSE,
              i_ios |-> EmptyStore, c_ios |-> EmptyStore,
              srecs |-> << >>, subrec_table |-> << >>, commit_max |-> 0, non_state_ready |-> FALSE,
              rval |-> "ok", cur |-> EmptyFile, pi |-> 0, pc |-> 0]

NoSvar == [name |-> "", title |-> "", agg |-> "none", type |-> "none",
           dims |-> << >>, comps |-> << >>, refs |-> << >>]

Entered(f, name) == {k \in DOMAIN f.svar_table : f.svars[f.svar_table[k]].name = name}
\* htable_search with FIND_ENTRY
Found(f, name)   == Entered(f, name) # {}
Find(f, name)    == f.svar_table[Min(Entered(f, name))]

\* A new Svar, entered in front.
EnterSvar(f, svar) ==
    [f EXCEPT !.svars = Append(@, svar), !.svar_table = <<Len(f.svars) + 1>> \o @]

\* Before the first variable: the table, the stores and a header for the output.
Header == Item("header", <<0, 0>>, 2, 0)
CreateTable(f) ==
    IF f.created THEN f
    ELSE [f EXCEPT !.created = TRUE, !.c_ios = CreateStore, !.i_ios = Alloc(CreateStore, Header)]

\* create_svar gives no Svar to a name that is there, unless it begins with "sand".
Refuses(f, name) == Found(f, name) /\ name \notin Sand

\* valid_svar_data
ValidSvarData(d) ==
    /\ d.name # "" /\ d.type # "none"
    /\ d.agg \in {"array", "vec_array"}  => d.dims # << >> /\ \A i \in DOMAIN d.dims : d.dims[i] >= 1
    /\ d.agg \in {"vector", "vec_array"} => d.comps # << >> /\ "" \notin Range(d.comps)

\* The allocations that a definition makes in the order of the code: strings, ints.
Strings(d, id) ==
    <<Item("name", d.name, Chars[d.name], id), Item("title", TitleOf(d.name), Chars[TitleOf(d.name)], id)>>
        \o [k \in DOMAIN d.comps |-> Item("comp", d.comps[k], Chars[d.comps[k]], id)]
Ints(d, id) ==
    <<Item("agg_type", d.agg, 1, id), Item("data_type", ExternalType(d.type), 1, id)>>
        \o (IF d.dims = << >> THEN << >>
            ELSE <<Item("order", Len(d.dims), 1, id), Item("dims", d.dims, Len(d.dims), id)>>)
        \o (IF d.comps = << >> THEN << >> ELSE <<Item("list_size", Len(d.comps), 1, id)>>)

\* A variable is entered and its definition goes into the stores.
AddSvar(f, d) ==
    LET id == Len(f.svars) + 1
        g  == EnterSvar(f, [NoSvar EXCEPT !.name = d.name, !.title = TitleOf(d.name), !.agg = d.agg,
                            !.type = ExternalType(d.type), !.dims = d.dims, !.comps = d.comps])
    IN  [g EXCEPT !.c_ios = FoldLeft(Alloc, @, Strings(d, id)), !.i_ios = FoldLeft(Alloc, @, Ints(d, id))]

Scalar(name, type) == [name |-> name, agg |-> "scalar", type |-> type, dims |-> << >>, comps |-> << >>]

\* delete_svar_with_ios: the component names are followed from the first one in
\* its buffer; when the others are elsewhere what comes after them is kept.
DeleteSvarWithIos(f, id) ==
    LET c        == f.c_ios.buffers
        i        == f.i_ios.buffers
        Comps(k) == {j \in DOMAIN c[k].items : c[k].items[j].owner = id /\ c[k].items[j].field = "comp"}
        holding  == {k \in DOMAIN c : Comps(k) # {}}
        freed_c  == [k \in DOMAIN c |-> {j \in DOMAIN c[k].items : c[k].items[j].owner = id}
                                           \ (IF k = Min(holding) THEN {} ELSE Comps(k))]
        kept     == IF Cardinality(holding) > 1 THEN {"list_size", "dims"} ELSE {}
        freed_i  == [k \in DOMAIN i |-> {j \in DOMAIN i[k].items : /\ i[k].items[j].owner = id
                                                                  /\ i[k].items[j].field \notin kept}]
    IN  [f EXCEPT !.c_ios = Unalloc(@, freed_c), !.i_ios = Unalloc(@, freed_i)]

\* find_delete_svar
FindDeleteSvar(f, name) ==
    IF ~Found(f, name) THEN f
    ELSE [DeleteSvarWithIos(f, Find(f, name)) EXCEPT !.svar_table = RemoveAt(@, Min(Entered(f, name)))]

\* mc_def_svars: names that are there are passed over; an invalid entry takes
\* those before it back, new or not.
DefSvars(f, list) ==
    LET Def(g, d) ==
            IF g.rval # "ok" THEN g
            ELSE IF ~ValidSvarData(d) THEN [g EXCEPT !.rval = "invalid_svar_data"]
            ELSE IF Refuses(g, d.name) THEN g ELSE AddSvar(CreateTable(g), d)
        g == FoldLeft(Def, f, list)
        bad == Min({i \in DOMAIN list : ~ValidSvarData(list[i])})
    IN  IF g.rval = "ok" THEN g
        ELSE FoldRight(LAMBDA d, h : FindDeleteSvar(h, d.name), SubSeq(list, 1, bad - 1), g)

\* validate_vector_decl compares the components' names.
ValidateVectorDecl(svar, d) ==
    IF svar.agg \notin {"vector", "vec_array"} THEN "variable_agg_type_error"
    ELSE IF svar.comps # d.comps THEN "vector_redeclaration_error" ELSE "ok"

\* Mutant: components that are there are not looked at.
EnterComponentsBlind(f, d) ==
    LET id == Len(f.svars)
        Enter(g, comp) ==
            LET h == IF Found(g, comp) THEN g ELSE AddSvar(g, Scalar(comp, d.type))
            IN  [h EXCEPT !.svars[id].refs = Append(@, Find(h, comp))]
    IN  FoldLeft(Enter, f, d.comps)

\* The components of a new list variable: entered as scalars where they are new.
\* The type found is external and the one compared with it the application's.
EnterComponents(f, d) ==
    LET id == Len(f.svars)
        Enter(g, comp) ==
            LET h == IF Found(g, comp) THEN g ELSE AddSvar(g, Scalar(comp, d.type))
                c == h.svars[Find(h, comp)]
            IN  IF g.rval # "ok" THEN g
                ELSE IF /\ Found(g, comp)
                        /\ c.type # d.type \/ (d.agg = "vector" /\ c.agg # "scalar")
                THEN [FindDeleteSvar(g, d.name) EXCEPT !.rval = "mismatched_list_field"]
                ELSE [h EXCEPT !.svars[id].refs = Append(@, Find(h, comp))]
    IN  FoldLeft(Enter, f, d.comps)

\* mc_def_vec_svar and, with dimensions, mc_def_vec_arr_svar
DefListSvar(f, d) ==
    IF ~ValidSvarData(d) THEN [f EXCEPT !.rval = "invalid_svar_data"]
    ELSE IF Found(f, d.name)
    THEN [f EXCEPT !.rval = ValidateVectorDecl(f.svars[Find(f, d.name)], d)]
    ELSE EnterComponents(AddSvar(CreateTable(f), d), d)

\* mc_def_arr_svar
DefArrSvar(f, d) ==
    IF ~ValidSvarData(d) THEN [f EXCEPT !.rval = "invalid_svar_data"]
    ELSE IF Refuses(f, d.name) THEN [f EXCEPT !.rval = "entry_exists"]
    ELSE AddSvar(CreateTable(f), d)

-----------------------------------------------------------------------------
(***************************************************************************)
(* Committing and loading variables.                                       *)
(***************************************************************************)
RoundUp4(n) == ((n + 3) \div 4) * 4

\* add_dir_entry for what next_free_byte says, and the chunk where the file stands.
AddChunk(file, kind, chunk, written, outbytes) ==
    [chunks         |-> Append(file.chunks, [at |-> file.pos, data |-> chunk]),
     entries        |-> Append(file.entries,
                               [type |-> kind, offset |-> file.next_free_byte, length |-> outbytes]),
     pos            |-> file.pos + written,
     next_free_byte |-> file.next_free_byte + outbytes]

\* svar_hdr is the last header allocated.
FillHeader(st, qtys) ==
    LET Hdrs(k) == {j \in DOMAIN st.buffers[k].items : st.buffers[k].items[j].field = "header"}
        n == Max({k \in DOMAIN st.buffers : Hdrs(k) # {}})
    IN  [st EXCEPT !.buffers[n].items[Max(Hdrs(n))].val = qtys]

\* commit_svars
CommitSvars(f) ==
    LET int_qty  == GetFresh(f.i_ios)
        char_qty == GetFresh(f.c_ios)
        round    == RoundUp4(char_qty)
        c == IF round = char_qty THEN f.c_ios ELSE Alloc(f.c_ios, Item("pad", "", round - char_qty, 0))
        i == FillHeader(f.i_ios, <<int_qty, round>>)
        chunk == [ints |-> Written(i), chars |-> Written(c)]
    IN  IF ~f.created \/ int_qty - 2 <= 0 THEN f
        ELSE [f EXCEPT
                !.cur = AddChunk(@, "STATE_VAR_DICT", chunk, 4 * Units(chunk.ints) + Units(chunk.chars),
                                 4 * int_qty + round),
                !.i_ios = Alloc(AfterOutput(i), Header),
                !.c_ios = AfterOutput(c)]

\* The next string (ios_string_traverse) or int of a chunk.
Value(items, k) == IF k \in DOMAIN items /\ items[k].field # "pad" THEN items[k].val ELSE ""

\* input_svars: the next variable, but for its components.
NextSvar(f, ints, chars) ==
    LET agg   == Value(ints, f.pi)
        array == agg \in {"array", "vec_array"}
        list  == agg \in {"vector", "vec_array"}
        pl    == f.pi + (IF array THEN 4 ELSE 2)
    IN  [NoSvar EXCEPT !.name = Value(chars, f.pc), !.title = Value(chars, f.pc + 1), !.agg = agg,
             !.type = Value(ints, f.pi + 1), !.dims = IF array THEN Value(ints, f.pi + 3) ELSE << >>,
             !.comps = IF list THEN [k \in 1..Value(ints, pl) |-> Value(chars, f.pc + 1 + k)] ELSE << >>]

\* Its components are entered where they are not there yet.
AddRef(f, id, comp) == [f EXCEPT !.svars[id].refs = Append(@, Find(f, comp))]
MergeComp(f, id, comp) ==
    AddRef(IF Found(f, comp) THEN f ELSE EnterSvar(f, [NoSvar EXCEPT !.name = comp]), id, comp)
EnterNext(f, svar) ==
    FoldLeft(LAMBDA h, c : MergeComp(h, Len(f.svars) + 1, c), EnterSvar(f, svar), svar.comps)

\* The definitions of the new ones follow the list.
CompleteComp(f, name, title, agg, type) ==
    IF ~Found(f, name) THEN [f EXCEPT !.rval = "entry_not_found"]
    ELSE [f EXCEPT !.svars[Find(f, name)] = [@ EXCEPT !.title = title, !.agg = agg, !.type = type]]
CompleteNext(f, svar, new_qty, ints, chars) ==
    LET pi == f.pi + (IF svar.dims = << >> THEN 2 ELSE 4) + (IF svar.comps = << >> THEN 0 ELSE 1)
        pc == f.pc + 2 + Len(svar.comps)
    IN  [FoldLeft(LAMBDA h, k : CompleteComp(h, Value(chars, pc + 2 * k - 2), Value(chars, pc + 2 * k - 1),
                                             Value(ints, pi + 2 * k - 2), Value(ints, pi + 2 * k - 1)),
                  f, [k \in 1..new_qty |-> k])
         EXCEPT !.pi = pi + 2 * new_qty, !.pc = pc + 2 * new_qty]

InputSvar(f, svar, ints, chars) ==
    CompleteNext(EnterNext(f, svar), svar,
                 Cardinality({c \in Range(svar.comps) : ~Found(f, c) /\ c # svar.name}), ints, chars)

\* input_svars.  Counts that are not those of the chunk make it unreadable.
InputSvars(f, chunk) ==
    LET ints  == Tail(chunk.ints)
        chars == chunk.chars
        g == [f EXCEPT !.created = TRUE,
                !.i_ios = Input(Input(@, <<Head(chunk.ints)>>), ints), !.c_ios = Input(@, chars),
                !.pi = 1, !.pc = 1]
        Next1(h, k) ==
            IF h.rval # "ok" \/ h.pi > Len(ints) THEN h
            ELSE IF Refuses(h, Value(chars, h.pc)) THEN [h EXCEPT !.rval = "entry_exists"]
            ELSE InputSvar(h, NextSvar(h, ints, chars), ints, chars)
    IN  IF f.rval # "ok" THEN f
        ELSE IF \/ Head(chunk.ints).field # "header"
                \/ Head(chunk.ints).val # <<Units(chunk.ints), Units(chars)>>
        THEN [f EXCEPT !.rval = "garbage"]
        ELSE FoldLeft(Next1, g, [k \in DOMAIN ints |-> k])

\* The chunks that the entries of a type lead to, in all files.
NoChunk == [ints |-> <<Item("none", 0, 0, 0)>>, chars |-> << >>, id |-> 0, subrecs |-> << >>]
ChunkAt(file, e) ==
    LET there == {k \in DOMAIN file.chunks : file.chunks[k].at = e.offset}
    IN  IF there = {} THEN NoChunk ELSE file.chunks[Min(there)].data
ChunksOf(disk, type) ==
    FlattenSeq([n \in DOMAIN disk |->
        LET entries == SelectSeq(disk[n].entries, LAMBDA e : e.type = type)
        IN  [k \in DOMAIN entries |-> ChunkAt(disk[n], entries[k])]])
LoadEntries(f, disk) == FoldLeft(InputSvars, f, ChunksOf(disk, "STATE_VAR_DICT"))

\* Mutant: no header is allocated after loading.
LoadSvarsNoHeader(f, disk) ==
    [LoadEntries(f, disk) EXCEPT !.pi = 0, !.pc = 0]

\* load_svars, with the header for what may be defined next.
NextHeader(f) ==
    IF f.created /\ f.rval = "ok" THEN [f EXCEPT !.i_ios = Alloc(@, Header), !.pi = 0, !.pc = 0] ELSE f
LoadSvars(f, disk) == NextHeader(LoadEntries(f, disk))

-----------------------------------------------------------------------------
(***************************************************************************)
(* State record formats.                                                   *)
(***************************************************************************)
\* The variables by address, for the operators of Records.
VarTable(f) == [id \in DOMAIN f.svars |-> [f.svars[id] EXCEPT !.comps = f.svars[id].refs]]

\* make_srec; mc_open_srec asks for classes without holes, as those here are.
OpenSrec(f) == [f EXCEPT !.srecs = Append(@, [status |-> "open", subrecs |-> << >>, size |-> 0])]

\* mc_close_srec
CloseSrec(f, s) ==
    IF f.srecs[s].subrecs = << >> THEN [f EXCEPT !.srecs[s].status = "empty"]
    ELSE [f EXCEPT !.srecs[s].status = "closed", !.non_state_ready = TRUE]

\* A call that mc_def_subrec takes for no objects: it returns OK.
NoObjects(q) ==
    IF q.format = "list" THEN q.ids = << >>
    ELSE q.ids = << >> \/ \E k \in DOMAIN q.ids : q.ids[k].start > q.ids[k].stop

Blocks(q) ==
    IF Classes[q.mclass].super = "mesh" THEN << >>
    ELSE IF q.format = "list" THEN ListToBlocks(q.ids) ELSE q.ids

\* check_object_ids, in a class with one block of ids
CheckObjectIds(mclass, blocks) ==
    \A k \in DOMAIN blocks : blocks[k].start >= 1 /\ blocks[k].stop <= Classes[mclass].qty

\* What mc_def_subrec refuses before it enters the name, and after.
RefusedFirst(f, s, q) ==
    CASE f.srecs[s].status # "open" -> "cannot_modify_obj"
      [] q.svars = << >> -> "no_svars"
      [] q.mclass \notin DOMAIN Classes -> "invalid_class"
      [] Classes[q.mclass].super = "surface" /\ Len(q.ids) # 1 -> "invalid_data_type"
      [] q.name \in Range(f.subrec_table) /\ q.name \notin Sand -> "entry_exists"
      [] OTHER -> "ok"

RefusedThen(f, q) ==
    LET found == \A k \in DOMAIN q.svars : Found(f, q.svars[k])
        var(k) == f.svars[Find(f, q.svars[k])]
    IN  CASE ~found -> "entry_not_found"
          [] q.org = "object" /\ \E k \in DOMAIN q.svars : var(k).type # var(1).type -> "too_many_types"
          [] q.org = "result" /\ \E k \in DOMAIN q.svars : var(k).agg = "vec_array" -> "org_mismatch"
          [] ~CheckObjectIds(q.mclass, Blocks(q)) -> "object_not_in_mesh"
          [] OTHER -> "ok"

\* The flags of a surface's subrecord: one for each atom of its first variable,
\* by default per object.  A bad one is refused where the name stays behind.
FlagQty(f, q) == AtomQty(VarTable(f), Find(f, q.svars[1]))
IsSurface(q)  == Classes[q.mclass].super = "surface"
BadFlag(f, q) == IsSurface(q) /\ \E k \in 1..FlagQty(f, q) : q.flags # << >> /\ q.flags[k] \notin SurfaceFlags
Flags(f, q) ==
    IF ~IsSurface(q) THEN << >>
    ELSE [k \in 1..FlagQty(f, q) |-> IF q.flags = << >> THEN "per_object" ELSE q.flags[k]]

\* set_metrics and the subrecord's place: behind the record so far.
PlaceSubrec(f, s, sub) ==
    LET class == Classes[sub.mclass]
        metrics == SetMetrics(VarTable(f), [org |-> sub.org, svars |-> sub.svars, super |-> class.super,
                              blocks |-> sub.blocks, flags |-> sub.flags, facets |-> class.facets])
        lost == class.super = "surface" /\ sub.org = "object" /\ Len(sub.flags) < Len(sub.svars)
    IN  IF lost THEN [f EXCEPT !.rval = "invalid_data_type"]
        ELSE [f EXCEPT !.srecs[s].subrecs = Append(@, sub @@ [offset |-> f.srecs[s].size]),
                       !.srecs[s].size = @ + metrics.size]

\* Mutant: a call refused for its objects leaves the name entered.
DefSubrecKeepsName(f, s, q) ==
    LET first == RefusedFirst(f, s, q)
        g     == [f EXCEPT !.subrec_table = <<q.name>> \o @]
        then  == RefusedThen(g, q)
    IN  CASE NoObjects(q)    -> f
          [] first # "ok"    -> [f EXCEPT !.rval = first]
          [] then # "ok"     -> [g EXCEPT !.rval = then]
          [] BadFlag(g, q)   -> [g EXCEPT !.rval = "invalid_data_type"]
          [] OTHER           -> PlaceSubrec(g, s,
                [name |-> q.name, org |-> q.org, svars |-> [k \in DOMAIN q.svars |-> Find(f, q.svars[k])],
                 mclass |-> q.mclass, blocks |-> Blocks(q), flags |-> Flags(f, q)])

\* mc_def_subrec
DefSubrec(f, s, q) ==
    LET first == RefusedFirst(f, s, q)
        g     == [f EXCEPT !.subrec_table = <<q.name>> \o @]
        then  == RefusedThen(g, q)
    IN  CASE NoObjects(q)    -> f
          [] first # "ok"    -> [f EXCEPT !.rval = first]
          [] then # "ok"     -> [g EXCEPT !.subrec_table = Tail(@), !.rval = then]
          [] BadFlag(g, q)   -> [g EXCEPT !.rval = "invalid_data_type"]
          [] OTHER           -> PlaceSubrec(g, s,
                [name |-> q.name, org |-> q.org, svars |-> [k \in DOMAIN q.svars |-> Find(f, q.svars[k])],
                 mclass |-> q.mclass, blocks |-> Blocks(q), flags |-> Flags(f, q)])

\* svar_atoms in commit_srecs: as many as the first variable has for each one,
\* and in a format's output the last subrecord's for all.
SvarAtoms(f, sub) ==
    IF Classes[sub.mclass].super = "surface"
    THEN Len(sub.svars) * AtomQty(VarTable(f), sub.svars[1]) ELSE 0

PackSubrec(f, sub, svar_atoms) ==
    [name |-> sub.name, org |-> sub.org, mclass |-> sub.mclass, blocks |-> sub.blocks,
     svars |-> [k \in DOMAIN sub.svars |-> f.svars[sub.svars[k]].name],
     flags |-> IF Classes[sub.mclass].super # "surface" THEN << >>
               ELSE [k \in 1..svar_atoms |-> IF k \in DOMAIN sub.flags THEN sub.flags[k] ELSE "garbage"]]

\* One format, written out.
CommitSrec(f, i) ==
    LET subrecs == f.srecs[i].subrecs
        atoms(j) == SvarAtoms(f, subrecs[j])
        i_qty == 4 + Sum([j \in DOMAIN subrecs |-> 3 + 2 * Len(subrecs[j].blocks)
                                                     + (IF atoms(j) > 0 THEN atoms(j) + 1 ELSE 0)])
        c_qty == RoundUp4(Sum([j \in DOMAIN subrecs |-> Chars[subrecs[j].name] + Chars[subrecs[j].mclass]
                     + Sum([k \in DOMAIN subrecs[j].svars |-> Chars[f.svars[subrecs[j].svars[k]].name]])]))
        chunk == [id |-> i, subrecs |->
                     [j \in DOMAIN subrecs |-> PackSubrec(f, subrecs[j], atoms(Len(subrecs)))]]
    IN  IF f.srecs[i].status # "closed" THEN f
        ELSE [f EXCEPT !.cur = AddChunk(@, "STATE_REC_DATA", chunk, 4 * i_qty + c_qty, 4 * i_qty + c_qty),
                       !.srecs[i].status = "saved"]

\* commit_srecs
CommitSrecs(f) ==
    LET new == [k \in 1..Len(f.srecs) - f.commit_max |-> f.commit_max + k]
    IN  [FoldLeft(CommitSrec, f, new) EXCEPT !.commit_max = Len(f.srecs)]

\* def_subrec_from_db
DefSubrecFromDb(f, s, p) ==
    LET g == [f EXCEPT !.subrec_table = <<p.name>> \o @]
    IN  IF f.rval # "ok" THEN f
        ELSE IF p.name \in Range(f.subrec_table) /\ p.name \notin Sand
        THEN [f EXCEPT !.rval = "entry_exists"]
        ELSE IF \E k \in DOMAIN p.svars : ~Found(f, p.svars[k])
        THEN [g EXCEPT !.rval = "entry_not_found"]
        ELSE PlaceSubrec(g, s, [p EXCEPT !.svars = [k \in DOMAIN @ |-> Find(f, @[k])]])

\* add_srec: the format's number is how many came before it, and its subrecords
\* go to the one whose number it had.
SaveSrec(f, s) == IF f.rval = "ok" THEN [f EXCEPT !.srecs[s].status = "saved"] ELSE f
AddSubrecs(f, chunk) ==
    IF chunk.id # Len(f.srecs) THEN [f EXCEPT !.rval = "garbage"]
    ELSE SaveSrec(FoldLeft(LAMBDA e, p : DefSubrecFromDb(e, chunk.id, p), f, chunk.subrecs), chunk.id)
AddSrec(f, chunk) == IF f.rval = "ok" THEN AddSubrecs(OpenSrec(f), chunk) ELSE f

\* load_srec_formats, and the whole of what load_descriptors does here.
NoneToCommit(f) == [f EXCEPT !.commit_max = Len(f.srecs)]
LoadSrecFormats(f, disk) == NoneToCommit(FoldLeft(AddSrec, f, ChunksOf(disk, "STATE_REC_DATA")))
Loaded(disk) == LoadSrecFormats(LoadSvars(NewFamily, disk), disk)

-----------------------------------------------------------------------------
(***************************************************************************)
(* What the queries return.                                                *)
(***************************************************************************)
\* mc_get_svar_def
GetSvarDef(f, name) ==
    LET v == f.svars[Find(f, name)]
        comp(k) == f.svars[v.refs[k]]
    IN  [short_name |-> v.name, long_name |-> v.title, num_type |-> v.type, agg_type |-> v.agg,
         dims |-> v.dims,
         components |-> [k \in DOMAIN v.comps |-> comp(k).name],
         component_titles |-> [k \in DOMAIN v.comps |-> comp(k).title]]

\* What a Subrecord says of a subrecord with these names of variables: meshes and
\* surfaces have one block, of object 1, and a surface has flags that are not its own.
Described(sub, names) ==
    LET super == Classes[sub.mclass].super
    IN  [name |-> sub.name, class_name |-> sub.mclass, organization |-> sub.org, svar_names |-> names,
         mo_blocks |-> IF super \in {"mesh", "surface"} THEN <<[start |-> 1, stop |-> 1]>> ELSE sub.blocks,
         qty_objects |-> MoQty(super, sub.blocks),
         flags |-> IF super = "surface" THEN [k \in DOMAIN names |-> "per_object"] ELSE << >>]

\* mc_get_subrec_def
GetSubrecDef(f, sub) == Described(sub, [k \in DOMAIN sub.svars |-> f.svars[sub.svars[k]].name])

\* mc_query_family about a format and about a subrecord, by number from 1.
QuerySrec(f, s) ==
    IF s \notin DOMAIN f.srecs THEN [rval |-> "invalid_srec_index"]
    ELSE [rval |-> "ok", qty_subrecs |-> Len(f.srecs[s].subrecs), state_size |-> f.srecs[s].size]
QuerySubrec(f, s, k) ==
    IF s \notin DOMAIN f.srecs THEN [rval |-> "invalid_srec_index"]
    ELSE IF k \notin DOMAIN f.srecs[s].subrecs THEN [rval |-> "invalid_subrec_index"]
    ELSE [rval |-> "ok", qty_svars |-> Len(f.srecs[s].subrecs[k].svars),
          class |-> f.srecs[s].subrecs[k].mclass]

SubrecDefs(f, s) == [k \in DOMAIN f.srecs[s].subrecs |-> GetSubrecDef(f, f.srecs[s].subrecs[k])]

\* mc_get_subrec_ids: the subrecords that list a variable; mc_get_subrec_cnt counts them.
GetSubrecIds(f, s, name) ==
    SelectSeq(Positions(SubrecDefs(f, s)), LAMBDA k : name \in Range(SubrecDefs(f, s)[k].svar_names))
GetSubrecCnt(f, s, name) ==
    Cardinality({k \in DOMAIN SubrecDefs(f, s) : name \in Range(SubrecDefs(f, s)[k].svar_names)})

\* mc_get_subrec_fields, what of it reaches the caller
GetSubrecFields(f, s, k) ==
    LET def == SubrecDefs(f, s)[k]
    IN  <<Len(def.svar_names), def.organization, def.qty_objects, Len(def.mo_blocks)>>

\* mc_get_svars: each variable of a format once.
GetSvars(f, s) ==
    LET Add(names, name) == IF name \in Range(names) THEN names ELSE Append(names, name)
        Defs == SubrecDefs(f, s)
    IN  FoldLeft(Add, << >>, FlattenSeq([k \in DOMAIN Defs |-> Defs[k].svar_names]))

\* All that these say of a family.
Content(f) ==
    [svars |-> {GetSvarDef(f, f.svars[id].name) : id \in Range(f.svar_table)},
     qty_svars |-> Len(f.svar_table),
     srecs |-> [s \in 0..Len(f.srecs) |-> QuerySrec(f, s)],
     names |-> [s \in DOMAIN f.srecs |-> [name \in Range(GetSvars(f, s)) |->
                   <<GetSubrecIds(f, s, name), GetSubrecCnt(f, s, name)>>]],
     subrecs |-> [s \in DOMAIN f.srecs |-> [k \in DOMAIN f.srecs[s].subrecs |->
            LET sub == f.srecs[s].subrecs[k]
            IN  [def |-> GetSubrecDef(f, sub), offset |-> sub.offset, flags |-> sub.flags,
                 query |-> QuerySubrec(f, s, k), fields |-> GetSubrecFields(f, s, k)]]]]

-----------------------------------------------------------------------------
(***************************************************************************)
(* A subrecord defined as one of another family is.                        *)
(***************************************************************************)
RefusedFirstFrom(f, s, d) ==
    CASE f.srecs[s].status # "open" -> "cannot_modify_obj"
      [] d.svar_names = << >> -> "no_svars"
      [] d.class_name \notin DOMAIN Classes -> "entry_not_found"
      [] d.name \in Range(f.subrec_table) /\ d.name \notin Sand -> "entry_exists"
      [] OTHER -> "ok"

\* A vector array in a result-ordered subrecord is not refused here.
RefusedThenFrom(f, d) ==
    LET var(k) == f.svars[Find(f, d.svar_names[k])]
    IN  CASE \E k \in DOMAIN d.svar_names : ~Found(f, d.svar_names[k]) -> "entry_not_found"
          [] d.organization = "object" /\ \E k \in DOMAIN d.svar_names : var(k).type # var(1).type
                -> "too_many_types"
          [] Classes[d.class_name].super # "mesh" /\ ~CheckObjectIds(d.class_name, d.mo_blocks)
                -> "object_not_in_mesh"
          [] OTHER -> "ok"

\* For a surface, as many flags as the first variable has atoms are taken.
FlagsFrom(f, d) ==
    IF Classes[d.class_name].super # "surface" THEN << >>
    ELSE SubSeq(d.flags, 1, AtomQty(VarTable(f), Find(f, d.svar_names[1])))

\* mc_def_subrec_from_subrec; the flags that mc_get_subrec_def gives are no bad ones.
DefSubrecFromSubrec(f, s, d) ==
    LET first == RefusedFirstFrom(f, s, d)
        g     == [f EXCEPT !.subrec_table = <<d.name>> \o @]
        then  == RefusedThenFrom(g, d)
    IN  CASE first # "ok" -> [f EXCEPT !.rval = first]
          [] then # "ok"  -> [g EXCEPT !.subrec_table = Tail(@), !.rval = then]
          [] OTHER        -> PlaceSubrec(g, s,
                [name |-> d.name, org |-> d.organization, mclass |-> d.class_name, blocks |-> d.mo_blocks,
                 svars |-> [k \in DOMAIN d.svar_names |-> Find(f, d.svar_names[k])],
                 flags |-> FlagsFrom(g, d)])

-----------------------------------------------------------------------------
(***************************************************************************)
(* The application's calls.  App names uses that go wrong in this code.    *)
(***************************************************************************)
Init ==
    /\ fam = NewFamily
    /\ files = << >>
    /\ up = TRUE /\ at_work = TRUE
    /\ granted = {}
    /\ rval = "ok"
    /\ calls = 0

\* One call: what it returns goes to the application and does not stay.
Call(f) ==
    /\ fam' = [f EXCEPT !.rval = "ok"]
    /\ rval' = f.rval

\* Definitions wait for a commit, which mc_flush makes only of an uncommitted
\* file or a closed format, and mc_close only when a file is open.
Timely == "late_format" \in App \/ at_work

DefCall(f, defs) ==
    /\ up /\ Timely /\ calls < MaxCalls
    /\ calls' = calls + 1
    /\ Call(f)
    /\ granted' = IF f.rval = "ok" THEN granted \cup defs ELSE granted
    /\ UNCHANGED <<files, up, at_work>>

\* A parameter or a piece of the mesh: prep_for_new_data opens a file for it.
WriteElse ==
    /\ up /\ ~at_work
    /\ at_work' = TRUE
    /\ UNCHANGED <<fam, files, up, granted, rval, calls>>

\* A name that is there, defined otherwise: passed over or, with the components
\* it had, called OK.
Otherwise(d) ==
    /\ Found(fam, d.name)
    /\ LET v == fam.svars[Find(fam, d.name)]
       IN  <<v.agg, v.type, v.dims, v.comps>> # <<d.agg, ExternalType(d.type), d.dims, d.comps>>

CallDefSvars(list) ==
    /\ "invalid_list" \in App \/ \A i \in DOMAIN list : ValidSvarData(list[i])
    /\ "redeclare" \in App \/ \A i \in DOMAIN list : ~Otherwise(list[i])
    /\ DefCall(DefSvars(fam, list), Range(list))

CallDefListSvar(d) ==
    /\ \E f \in {DefListSvar(fam, d)} :
           /\ "mismatch" \in App \/ f.rval # "mismatched_list_field"
           /\ "redeclare" \in App \/ ~Otherwise(d) \/ f.rval # "ok"
           /\ DefCall(f, {d})

CallDefArrSvar(d) == DefCall(DefArrSvar(fam, d), {d})

CallOpenSrec ==
    /\ up /\ Len(fam.srecs) < MaxSrecs
    /\ "open_format" \in App \/ \A s \in DOMAIN fam.srecs : fam.srecs[s].status # "open"
    /\ Call(OpenSrec(fam))
    /\ UNCHANGED <<files, up, at_work, granted, calls>>

\* There is a variable: without a table the search leaves what it is to find
\* unset.  Surfaces come last in a format, or their flags are lost.
MayDefSubrec(s) ==
    /\ fam.created
    /\ "surface_first" \in App \/ fam.srecs[s].status # "open"
         \/ \A k \in DOMAIN fam.srecs[s].subrecs :
                Classes[fam.srecs[s].subrecs[k].mclass].super # "surface"

CallDefSubrec(s, q) ==
    /\ MayDefSubrec(s)
    /\ "bad_flag" \in App \/ Range(q.flags) \subseteq SurfaceFlags
    /\ DefCall(DefSubrec(fam, s, q), {})

\* A Subrecord as mc_get_subrec_def returns it for the subrecord of such a call in
\* some other family.
Subrecord(q) ==
    Described([name |-> q.name, mclass |-> q.mclass, org |-> q.org, blocks |-> Blocks(q)], q.svars)

\* The flags given are one for each variable.
CallDefSubrecFrom(s, q) ==
    /\ MayDefSubrec(s) /\ ~NoObjects(q) /\ q.mclass \in DOMAIN Classes
    /\ "surface_copy" \notin App /\ IsSurface(q) /\ Found(fam, q.svars[1])
           => FlagQty(fam, q) <= Len(q.svars)
    /\ DefCall(DefSubrecFromSubrec(fam, s, Subrecord(q)), {})

CallCloseSrec(s) ==
    /\ up /\ Timely
    /\ fam.srecs[s].status = "open"
    /\ "empty_format" \in App \/ fam.srecs[s].subrecs # << >>
    /\ Call(CloseSrec(fam, s))
    /\ UNCHANGED <<files, up, at_work, granted, calls>>

\* commit_non_state
Commit(f) ==
    LET g == CommitSrecs(CommitSvars([f EXCEPT !.cur = EmptyFile]))
    IN  /\ "open_format" \in App \/ \A s \in DOMAIN f.srecs : f.srecs[s].status # "open"
        /\ Call([g EXCEPT !.cur = EmptyFile, !.non_state_ready = FALSE])
        /\ files' = IF g.cur.entries = << >> THEN files ELSE Append(files, g.cur)

\* mc_flush(NON_STATE_DATA), by COMMIT_NS
Flush ==
    /\ up
    /\ at_work \/ fam.non_state_ready
    /\ Commit(fam)
    /\ at_work' = FALSE
    /\ UNCHANGED <<up, granted, calls>>

\* mc_close
Close ==
    /\ up /\ up' = FALSE
    /\ at_work' = FALSE
    /\ \/ at_work /\ Commit(fam)
       \/ ~at_work /\ UNCHANGED <<fam, files, rval>>
    /\ UNCHANGED <<granted, calls>>

\* mc_open for append access.
Reopen ==
    /\ ~up
    /\ \E f \in {Loaded(files)} : f.rval = "ok" /\ Call(f)
    /\ up' = TRUE
    /\ UNCHANGED <<files, at_work, granted, calls>>

Next ==
    \/ \E list \in ScalarCalls : CallDefSvars(list)
    \/ \E d \in ListCalls : CallDefListSvar(d)
    \/ \E d \in ArrayCalls : CallDefArrSvar(d)
    \/ CallOpenSrec
    \/ \E s \in DOMAIN fam.srecs :
           (\E q \in SubrecCalls : CallDefSubrec(s, q) \/ CallDefSubrecFrom(s, q)) \/ CallCloseSrec(s)
    \/ WriteElse \/ Flush \/ Close \/ Reopen

Spec == Init /\ [][Next]_vars

-----------------------------------------------------------------------------
(***************************************************************************)
(* Properties.                                                             *)
(***************************************************************************)
\* The Svar structs and the stores have the shape the code relies on: what a
\* variable refers to is there, types are external, a store's buffers hold no
\* more than their size and have output no more than they hold, and whoever may
\* define has a header waiting in front of what the next commit writes.
TypeOK ==
    /\ \A id \in DOMAIN fam.svars :
           LET v == fam.svars[id]
           IN  /\ v.agg \in Aggregates /\ v.type \in Types
               /\ Len(v.refs) = Len(v.comps) /\ Range(v.refs) \subseteq DOMAIN fam.svars
    /\ \A st \in {fam.i_ios, fam.c_ios} : \A k \in DOMAIN st.buffers :
           LET b == st.buffers[k]
           IN  Units(b.items) <= b.size /\ b.output \in 0..Len(b.items) /\ st.out \in 1..Len(st.buffers)
    /\ fam.created => LET i == Written(fam.i_ios) IN i # << >> /\ i[1].field = "header"
    /\ \A s \in DOMAIN fam.srecs : fam.srecs[s].status \in {"open", "closed", "empty", "saved"}

\* Nothing waits for a commit.
Settled ==
    /\ fam.created => GetFresh(fam.i_ios) = 2
    /\ \A s \in DOMAIN fam.srecs : fam.srecs[s].status = "saved"

\* commit_svars and commit_srecs against load_svars and load_srec_formats:
\* whoever opens the family when nothing waits for a commit finds the variables
\* with their components, and the formats with the places and sizes of their
\* subrecords, that the writer's memory has.
FormatsReload ==
    Settled => \E r \in {Loaded(files)} : r.rval = "ok" /\ Content(r) = Content(fam)

\* What a call returned OK for is what mc_get_svar_def says, in this session and
\* in all later ones, and each component is a variable of the type of its list.
GrantedFound ==
    up => \A d \in granted :
        /\ Found(fam, d.name)
        /\ LET v == GetSvarDef(fam, d.name)
           IN  /\ v.short_name = d.name /\ v.long_name = TitleOf(d.name)
               /\ v.agg_type = d.agg /\ v.num_type = ExternalType(d.type)
               /\ v.dims = d.dims /\ v.components = d.comps
        /\ \A k \in DOMAIN d.comps : GetSvarDef(fam, d.comps[k]).num_type = ExternalType(d.type)

\* A call that is refused leaves the definitions, the names in use and what the
\* next commit writes as they were (the ways out of mc_def_subrec and its kind).
RefusalsHarmless ==
    [][rval' # "ok" => fam' = fam]_vars
=============================================================================
