-------------------------------- MODULE Labels --------------------------------
(***************************************************************************)
(* Labels and global ids of a mesh's objects: how one application numbers  *)
(* nodes and elements, kept in time-independent parameters of a family     *)
(* beside the mesh and read back by name.                                  *)
(*                                                                         *)
(* They are parameters of the family (Params): arrays are entered in       *)
(* front of others of their name, LOCAL_COUNT is a scalar and written      *)
(* where it is.  Opening the family again enters the same parameters in    *)
(* the same order; but the lists that number the definitions of a class    *)
(* start anew.                                                             *)
(***************************************************************************)
EXTENDS Params

CONSTANTS
    ElemClasses, NodeClasses,  \* object classes, [mesh |-> _, name |-> _]
    Particles,                 \* names listed as particle elements
    Ml,                        \* the name "ml" of an older convention
    Begins,                    \* Begins[n]: the names that begin with n
    Chunks,                    \* element definitions: [ids, labels, globals]
    MAX_LABEL_CLASSES          \* length of the lists of classes

Classes == ElemClasses \cup NodeClasses
Names   == {c.name : c \in Classes}

ASSUME ClassAssumption == /\ ElemClasses \cap NodeClasses = {}
                          /\ \A n \in Names \cup {Ml} : Begins[n] \subseteq Names
                          /\ \A n \in Names : n \in Begins[n]
ASSUME ChunkAssumption == \A k \in Chunks : /\ Len(k.ids) = Len(k.labels)
                                            /\ Len(k.ids) = Len(k.globals)
ASSUME BoundAssumption == MAX_LABEL_CLASSES \in Nat

\* app.elems, app.chunks, app.nodes and app.loads are the classes and chunks that an
\* application uses; app.calls and app.sessions bound a behaviour.
ASSUME AppAssumption == \A a \in Apps : /\ a.elems \subseteq ElemClasses /\ a.chunks \subseteq Chunks
                                        /\ a.calls \in Nat /\ a.sessions \in Nat

VARIABLES
    label_class_list,      \* the classes of mc_def_conn_labels, in this session
    global_id_class_list,  \* the classes of mc_def_global_ids, in this session
    elements,              \* the ids defined for each class of elements
    defined,               \* history: what was asked for, and granted
    calls                  \* history: calls so far

labelVars == <<label_class_list, global_id_class_list, elements, defined>>
vars == <<paramVars, labelVars, calls>>

(***************************************************************************)
(* Keys.  The text of a name tells apart what these records do: the class  *)
(* of a count goes by its short name alone.                                *)
(***************************************************************************)
Key(array, c, n)   == [array |-> array, mesh |-> c.mesh, name |-> c.name, n |-> n]
LabelsKey(c, mat)  == Key("Element Labels", c, mat)
IdsKey(key)        == [key EXCEPT !.array = "Element Labels-ElemIds"]
NodeKey(c)         == Key("Node Labels", c, -1)
GlobalsKey(c, def) == Key("GLOBAL_IDS", c, def)
MapKey(key)        == [key EXCEPT !.array = "GLOBAL_IDS_LOCAL_MAP"]
CountKey(name)     == [array |-> "LOCAL_COUNT", mesh |-> 0, name |-> name, n |-> 0]

ClassOf(key) == [mesh |-> key.mesh, name |-> key.name]

\* htable_search_wildcard, counting only: a name as often as it was entered
WildcardCount(array, classes) ==
    Cardinality({i \in DOMAIN log : log[i].key.array = array /\ ClassOf(log[i].key) \in classes})

\* Mutant: a name that was entered twice is listed twice.
WildcardListAll(array, classes) ==
    {[i \in DOMAIN s |-> s[i].key] : s \in
        {SelectSeq(log, LAMBDA e : e.key.array = array /\ ClassOf(e.key) \in classes)}}

\* htable_search_wildcard with a list: each name once, in the order of the buckets
WildcardList(array, classes) ==
    SetToSeqs({log[i].key : i \in {j \in DOMAIN log : /\ log[j].key.array = array
                                                      /\ ClassOf(log[j].key) \in classes}})

-----------------------------------------------------------------------------
(***************************************************************************)
(* Writing.  The workspace has the two lists as well, and what has been    *)
(* granted.                                                                *)
(***************************************************************************)
Now == [log |-> log, class |-> ti_class, saved |-> ti_saved, enable |-> ti_enable, status |-> "OK",
        labels |-> label_class_list, globals |-> global_id_class_list, defined |-> defined]

Remember(w, kind, c, data) ==
    [w EXCEPT !.defined = Append(@, [kind |-> kind, class |-> c, data |-> data,
                                     session |-> session])]

\* mc_ti_wrt_array, with integers
WriteInts(w, key, data) == WriteArray(w, key, "TI_PARAM", Ints(data))

\* The count of local ids, as write_scalar writes it
WriteCount(w, key, count) == WriteScalar(w, key, "TI_PARAM", Scalar(count))

\* The place of a class in a list, 0 if it is not there.
IndexOf(list, name) ==
    IF \E i \in DOMAIN list : list[i].mclass = name
    THEN CHOOSE i \in DOMAIN list : list[i].mclass = name
    ELSE 0

\* Mutant: a class is entered every time.
NumberedAnew(list, name) == Append(list, [mclass |-> name, last_matid |-> 0])

\* The list with one more definition of the class.
Numbered(list, name) ==
    IF IndexOf(list, name) = 0 THEN Append(list, [mclass |-> name, last_matid |-> 0])
    ELSE [list EXCEPT ![IndexOf(list, name)].last_matid = @ + 1]

\* Asked of both lists, whether the class is in them or not.
TooManyLabels(list) == Len(list) >= MAX_LABEL_CLASSES

\* What mc_def_conn_labels describes for a while; elements are all of one superclass here.
LabelClass(c, mat) == [mesh |-> c.mesh, state |-> 0, mat |-> mat, superclass |-> "M_HEX",
                       meshvar |-> 1, nodal |-> 0, short |-> c.name]

\* Mutant: the class is not restored.
DefConnLabelsUnrestored(w, c, ids, labels) ==
    LET list == Numbered(w.labels, c.name)
        mat  == list[IndexOf(list, c.name)].last_matid
        key  == LabelsKey(c, mat)
        u    == EnableAndSave(w)
        v    == Remember([u EXCEPT !.labels = list, !.class = DefClass(@, LabelClass(c, mat))],
                         "labels", c, Zip(labels, ids))
    IN  IF TooManyLabels(w.labels) THEN Fail(u, "TOO_MANY_LABELS")
        ELSE WriteInts(WriteInts(v, key, labels), IdsKey(key), ids)

\* mc_def_conn_labels
DefConnLabels(w, c, ids, labels) ==
    LET list == Numbered(w.labels, c.name)
        mat  == list[IndexOf(list, c.name)].last_matid
        key  == LabelsKey(c, mat)
        u    == EnableAndSave(w)
        v    == Remember([u EXCEPT !.labels = list, !.class = DefClass(@, LabelClass(c, mat))],
                         "labels", c, Zip(labels, ids))
    IN  IF TooManyLabels(w.labels) THEN Fail(u, "TOO_MANY_LABELS")
        ELSE Restore(WriteInts(WriteInts(v, key, labels), IdsKey(key), ids))

\* Mutant: by the class that is first.
FirstMatid(list, name) == list[1].last_matid

\* The definitions of a class are numbered by the class that is last in the list.
LastMatid(list, name) == list[Len(list)].last_matid

CurLocalCount(w, key) ==
    LET found == SelectSeq(w.log, LAMBDA e : e.key = key)
    IN  IF found = Empty THEN 0 ELSE found[1].data[1]

\* Mutant: the count is that of this definition.
DefGlobalsCountAnew(w, c, ids, globals) ==
    LET list == Numbered(w.globals, c.name)
        key  == GlobalsKey(c, LastMatid(list, c.name))
        r    == Remember([w EXCEPT !.globals = list], "globals", c, Zip(ids, globals))
        v    == WriteInts(WriteInts(r, key, ids), MapKey(key), globals)
    IN  IF TooManyLabels(w.globals) THEN Fail(w, "TOO_MANY_LABELS")
        ELSE WriteCount(v, CountKey(c.name), Len(ids))

\* mc_def_global_ids: the local ids go to GLOBAL_IDS, the global ones to the map.
DefGlobalIds(w, c, ids, globals) ==
    LET list == Numbered(w.globals, c.name)
        key  == GlobalsKey(c, LastMatid(list, c.name))
        r    == Remember([w EXCEPT !.globals = list], "globals", c, Zip(ids, globals))
        v    == WriteInts(WriteInts(r, key, ids), MapKey(key), globals)
    IN  IF TooManyLabels(w.globals) THEN Fail(w, "TOO_MANY_LABELS")
        ELSE WriteCount(v, CountKey(c.name), CurLocalCount(w, CountKey(c.name)) + Len(ids))

-----------------------------------------------------------------------------
(***************************************************************************)
(* Reading.                                                                *)
(***************************************************************************)
\* Where a run of consecutive numbers begins.
Starts(s) == {i \in DOMAIN s : i = 1 \/ s[i] # s[i - 1] + 1}

\* Mutant: a block ends where the next one begins.
BlocksOverlap(s) ==
    LET at == SetToSortSeq(Starts(s), <)
    IN  [b \in DOMAIN at |-> <<s[at[b]], IF b = Len(at) THEN s[Len(s)] ELSE s[at[b + 1]]>>]

\* list_to_blocks
ListToBlocks(s) ==
    LET at == SetToSortSeq(Starts(s), <)
    IN  [b \in DOMAIN at |-> <<s[at[b]], IF b = Len(at) THEN s[Len(s)] ELSE s[at[b + 1] - 1]>>]

\* mc_is_particle_class
IsParticle(c) == c.name \in Particles

\* The classes whose names mc_load_conn_labels looks for: those of the name, in any
\* mesh; for particles without labels, those that begin with "ml".
LabelledAs(c) ==
    LET same == {d \in Classes : d.name = c.name}
        ml   == {d \in Classes : d.name \in Begins[Ml]}
    IN  IF WildcardCount("Element Labels", same) = 0 /\ IsParticle(c) THEN ml ELSE same

\* The results of mc_load_conn_labels: one for each order of the buckets.
LoadConnLabels(c) ==
    {LET parts == [i \in DOMAIN list |-> [labels |-> TIReadArray(list[i]).data,
                                       ids |-> TIReadArray(IdsKey(list[i])).data]]
         bad   == \E i \in DOMAIN list : Len(parts[i].labels) # Len(parts[i].ids)
         labels == FlattenSeq([i \in DOMAIN list |-> parts[i].labels])
     IN  IF bad THEN [status |-> "CONN_LABEL_ID_MISMATCH", pairs |-> Empty, blocks |-> Empty]
         ELSE [status |-> "OK",
               pairs  |-> Zip(labels, FlattenSeq([i \in DOMAIN list |-> parts[i].ids])),
               blocks |-> ListToBlocks(labels)]
     : list \in WildcardList("Element Labels", LabelledAs(c))}

\* mc_get_globals_and_locals: as many definitions as names were counted.  Of one
\* that is not there, the arrays of the one before, which are freed.
Dangling == <<"freed">>
GetGlobalsAndLocals(c) ==
    LET count == WildcardCount("GLOBAL_IDS", {c})
    IN  IF \E d \in 0..count - 1 : ~Found(GlobalsKey(c, d)) THEN Dangling
        ELSE FlattenSeq([i \in 1..count |->
                 Zip(ReadNewest(GlobalsKey(c, i - 1)), ReadNewest(MapKey(GlobalsKey(c, i - 1))))])

\* mc_get_local_class_count
LocalCount(name) == IF Found(CountKey(name)) THEN ReadNewest(CountKey(name))[1] ELSE 0

Sorted(s) == SortSeq(s, <)

\* Mutant: the last label is taken for one of the block before it.
CountNodeBlocksShort(s) == Cardinality({i \in Starts(Sorted(s)) : i < Len(s)})

\* mc_get_node_label_info; of a single label it compares what lies before the array.
CountNodeBlocks(s) == Cardinality(Starts(Sorted(s)))

\* The blocks that mc_load_node_labels makes: the last label is looked at by itself,
\* also when it is the first.
NodeBlocks(s) ==
    LET t == Sorted(s)
        r == ListToBlocks(IF Len(t) = 1 THEN t ELSE Front(t))
    IN  IF Last(t) = Last(r)[2] + 1
        THEN Append(Front(r), <<Last(r)[1], Last(t)>>)
        ELSE Append(r, <<Last(t), Last(t)>>)

\* mc_ti_find_var_name: the first name found of a class that begins with this name
OtherNodeKeys(c) ==
    {Head(list) : list \in
        WildcardList("Node Labels", {d \in Classes : d.name \in Begins[c.name]}) \ {Empty}}

\* The results of mc_load_node_labels; << >> when it finds none.
LoadNodeLabels(c) ==
    IF TIReadArray(NodeKey(c)).status = "OK" THEN {TIReadArray(NodeKey(c)).data}
    ELSE IF OtherNodeKeys(c) = {} THEN {Empty}
    ELSE {ReadAll(key) : key \in OtherNodeKeys(c)}

-----------------------------------------------------------------------------
(***************************************************************************)
(* The calls.                                                              *)
(***************************************************************************)
Init == /\ ParamInit
        /\ label_class_list = Empty
        /\ global_id_class_list = Empty
        /\ elements = [c \in ElemClasses |-> {}]
        /\ defined = Empty
        /\ calls = 0

\* A call that saved the class has put it where the application's was.
Becomes(w, saves) ==
    /\ log' = w.log
    /\ ti_class' = w.class
    /\ ti_saved' = w.saved
    /\ ti_enable' = w.enable
    /\ app_saved' = IF saves THEN Lost ELSE app_saved
    /\ label_class_list' = w.labels
    /\ global_id_class_list' = w.globals
    /\ defined' = w.defined
    /\ calls' = calls + 1
    /\ UNCHANGED <<session, fam_enable, app, app_class, written, machine>>

MayCall == calls < app.calls

\* mc_def_conn_labels, and mc_def_seq_labels: nobody asks for the elements.
DefLabels(c, k) ==
    /\ MayCall
    /\ Becomes(DefConnLabels(Now, c, k.ids, k.labels), TRUE)
    /\ UNCHANGED elements

\* mc_def_global_ids, and mc_def_seq_global_ids
DefGlobals(c, k) ==
    /\ MayCall
    /\ Becomes(DefGlobalIds(Now, c, k.ids, k.globals), FALSE)
    /\ UNCHANGED elements

\* mc_def_conn_arb and mc_def_conn_seq refuse ids that are taken (Mesh).
DefConn(c, k) ==
    /\ MayCall
    /\ elements[c] \cap Range(k.ids) = {}
    /\ elements' = [elements EXCEPT ![c] = @ \cup Range(k.ids)]

\* mc_def_conn_arb_labels, mc_def_conn_seq_labels
DefConnAndLabels(c, k) ==
    /\ DefConn(c, k)
    /\ Becomes(DefConnLabels(Now, c, k.ids, k.labels), TRUE)

\* mc_def_conn_arb_labels_global_ids, whatever became of the labels
DefConnArbAll(c, k) ==
    /\ DefConn(c, k)
    /\ LET w == DefConnLabels(Now, c, k.ids, k.labels)
       IN  Becomes(DefGlobalIds(w, c, k.ids, k.globals), TRUE)

\* mc_def_conn_seq_labels_global_ids
DefConnSeqAll(c, k) ==
    /\ \A i \in DOMAIN k.ids : k.ids[i] = k.ids[1] + i - 1
    /\ DefConn(c, k)
    /\ LET w == DefConnLabels(Now, c, k.ids, k.labels)
       IN  Becomes(IF w.status = "OK" THEN DefGlobalIds(w, c, k.ids, k.globals) ELSE w, TRUE)

\* mc_def_node_labels
DefNodeLabels(c, labels) ==
    /\ MayCall
    /\ LET w == Remember(EnableAndSave(Now), "nodes", c, labels)
       IN  Becomes(Restore(WriteInts(w, NodeKey(c), labels)), TRUE)
    /\ UNCHANGED elements

\* mc_load_conn_labels, mc_load_node_labels: what they leave of the class described
LoadLabels(c) ==
    /\ MayCall /\ fam_enable
    /\ ti_saved' = ti_class
    /\ app_saved' = Lost
    /\ \E r \in IF c \in ElemClasses THEN {q.status : q \in LoadConnLabels(c)} ELSE {"OK"} :
           ti_class' = IF r = "OK" THEN ti_class ELSE Undefined
    /\ calls' = calls + 1
    /\ UNCHANGED <<log, ti_enable, fam_enable, session, app, app_class, written, machine, labelVars>>

\* Calls on parameters and on the description of a class
ParamCall ==
    /\ MayCall
    /\ ParamStep
    /\ calls' = calls + 1
    /\ UNCHANGED labelVars

\* mc_close, and mc_open to append: set_defaults empties the lists.
Reopen ==
    /\ MayCall /\ session < app.sessions
    /\ ReopenParams
    /\ label_class_list' = Empty
    /\ global_id_class_list' = Empty
    /\ UNCHANGED <<elements, defined, calls>>

DefElements(c, k) == DefConnAndLabels(c, k) \/ DefConnArbAll(c, k) \/ DefConnSeqAll(c, k)

Next == \/ \E c \in app.elems, k \in app.chunks :
               DefLabels(c, k) \/ DefGlobals(c, k) \/ DefElements(c, k)
        \/ \E c \in NodeClasses, l \in app.nodes : DefNodeLabels(c, l)
        \/ ParamCall
        \/ \E c \in app.loads : LoadLabels(c)
        \/ Reopen

Spec == Init /\ [][Next]_vars

-----------------------------------------------------------------------------
(***************************************************************************)
(* Properties.                                                             *)
(***************************************************************************)
DefinedAs(kind, c) == SelectSeq(defined, LAMBDA d : d.kind = kind /\ d.class = c)
DataOf(defs)       == FlattenSeq([i \in DOMAIN defs |-> defs[i].data])

Count(s, x)       == Cardinality({i \in DOMAIN s : s[i] = x})
SameMembers(s, t) == \A x \in Range(s) \cup Range(t) : Count(s, x) = Count(t, x)

\* No other mesh has a class of that name.
Alone(c) == \A d \in ElemClasses : d.name = c.name => d = c

LabelEntries == SelectSeq(log, LAMBDA e : e.key.array \in LabelArrays \cup OwnArrays)

\* Entries are of classes, and the lists are numbered from 0.
TypeOK ==
    /\ \A i \in DOMAIN LabelEntries : LabelEntries[i].key.name \in Names /\ LabelEntries[i].data # Empty
    /\ \A l \in {label_class_list, global_id_class_list} :
           /\ Len(l) <= MAX_LABEL_CLASSES
           /\ \A i \in DOMAIN l : l[i].mclass \in Names /\ l[i].last_matid \in 0..app.calls
           /\ \A i, j \in DOMAIN l : l[i].mclass = l[j].mclass => i = j
    /\ elements \in [ElemClasses -> SUBSET UNION {Range(k.ids) : k \in Chunks}]
    /\ app \in Apps /\ session \in Nat /\ calls \in 0..app.calls

Block(b)      == [i \in 1..(b[2] - b[1] + 1) |-> b[1] + i - 1]
Unblocked(bs) == FlattenSeq([i \in DOMAIN bs |-> Block(bs[i])])

\* An element read has the label it was given and no other: the
\* labels and the ids are two arrays, under names that repeat when a family is
\* opened again, and each is put together from all entries of its name.  The blocks,
\* one after the other, are the labels in the order read, and none could be longer.
LabelsPaired ==
    \A c \in ElemClasses : Alone(c) /\ DefinedAs("labels", c) # Empty =>
        \A r \in LoadConnLabels(c) :
            /\ r.status = "OK"
            /\ SameMembers(r.pairs, DataOf(DefinedAs("labels", c)))
            /\ Unblocked(r.blocks) = [i \in DOMAIN r.pairs |-> r.pairs[i][1]]
            /\ \A i \in 1..Len(r.blocks) - 1 : r.blocks[i + 1][1] # r.blocks[i][2] + 1

\* Node labels are all read, in the nodes' order when they were
\* defined at once; of two or more, the blocks are as many as mc_get_node_label_info
\* says and hold just these labels.
NodeLabelsRead ==
    \A c \in NodeClasses : DefinedAs("nodes", c) # Empty =>
        \A s \in LoadNodeLabels(c) :
            /\ SameMembers(s, DataOf(DefinedAs("nodes", c)))
            /\ Len(DefinedAs("nodes", c)) = 1 => s = DefinedAs("nodes", c)[1].data
            /\ Len(s) > 1 => /\ Len(NodeBlocks(s)) = CountNodeBlocks(s)
                             /\ Unblocked(NodeBlocks(s)) = Sorted(s)

\* mesh_u.c:2306, mesh_u.c:2711.  Where the capability is enabled, the labels read are the
\* labels defined: of elements each with its own, of nodes in their order, in blocks.
LabelsRead == fam_enable /\ ti_enable => LabelsPaired /\ NodeLabelsRead

\* mesh_u.c:2705 ("Read node labels for all nodes of a particular class").  The blocks
\* that mc_load_node_labels makes hold just the labels it read, be it a single one.
NodeBlocksExact ==
    \A c \in NodeClasses : DefinedAs("nodes", c) # Empty =>
        \A s \in LoadNodeLabels(c) : Unblocked(NodeBlocks(s)) = Sorted(s)

\* A class's global ids are all defined in one session, with no other class between.
InOneGo(c) ==
    LET all == SelectSeq(defined, LAMBDA d : d.kind = "globals")
        of  == {i \in DOMAIN all : all[i].class = c}
    IN  \A i, j \in of : /\ all[i].session = all[j].session
                         /\ \A k \in i..j : all[k].class = c

\* mesh_u.c:1276, param.c:370.  The local count of a name, from which an application
\* sizes what it reads, is the number of global ids defined for it in all sessions
\* and meshes; and those that were defined in one go come back whole and in order,
\* each with its local id, though the definitions of a class are found by numbers
\* that only one session's list of classes knows.
GlobalsFound ==
    /\ \A n \in Names : LocalCount(n) =
           Len(DataOf(SelectSeq(defined, LAMBDA d : d.kind = "globals" /\ d.class.name = n)))
    /\ \A c \in ElemClasses : Alone(c) /\ InOneGo(c) =>
           GetGlobalsAndLocals(c) = DataOf(DefinedAs("globals", c))

\* mesh_u.c:1321 ("Define element global_ids").  The global ids that were defined for
\* a class come back whole and in order, also when classes take turns in defining them.
GlobalsKept ==
    \A c \in ElemClasses : Alone(c) => GetGlobalsAndLocals(c) = DataOf(DefinedAs("globals", c))
=============================================================================
