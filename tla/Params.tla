-------------------------------- MODULE Params --------------------------------
(***************************************************************************)
(* Parameters of a family: scalars, strings and arrays that an application *)
(* keeps beside the mesh and the states and finds again by their names;    *)
(* and the description of a class, from which the library makes the names  *)
(* of parameters that belong to one class of objects.                      *)
(*                                                                         *)
(* `log' is the parameters in the order they were entered, `file' the      *)
(* session in whose file one is.  Opening the family again enters them in  *)
(* the same order (NonState), each in front of others of its name.         *)
(*                                                                         *)
(* The family is of the present directory version, where time-independent  *)
(* parameters share the table and the files of the others.                 *)
(* Left out are the long name of a class, from which no name is made, and  *)
(* num_procs, which follows the scalar "nproc".                            *)
(***************************************************************************)
EXTENDS Integers, Sequences, FiniteSets, SequencesExt

CONSTANTS
    Apps   \* the applications: the calls each may make, in each group of calls

\* A name is used for one kind of parameter: write_string and the functions that read do
\* not ask which kind it is.
ASSUME NameAssumption ==
    \A a \in Apps : \A q, r \in a.writes :
        q.name = r.name => /\ q.ti = r.ti /\ q.p.op = r.p.op
                           /\ q.p.op = "array" => q.p.type = r.p.type

VARIABLES
    log,        \* the parameters, in the order entered
    ti_class,   \* the class described by the fields fam->ti_*
    ti_saved,   \* and by the fields fam->ti_saved_*
    ti_enable,  \* the capability: of the library,
    fam_enable, \* and of the family since it was opened
    session,    \* history: how often the family was opened
    app,        \* which application this is
    app_class,  \* history: the class the application has described
    app_saved,  \* history: the class it has saved
    written,    \* history: what was written, and granted
    machine     \* history: the machine the family's metadata is of, or Mixed

paramVars == <<log, ti_class, ti_saved, ti_enable, fam_enable, session,
               app, app_class, app_saved, written, machine>>

Empty == << >>

-----------------------------------------------------------------------------
(***************************************************************************)
(* The description of a class.                                             *)
(***************************************************************************)
Numbers == {"mesh", "mat", "state", "meshvar", "nodal"}

Null == "NULL"

\* set_defaults
Fresh == [mesh |-> 0, mat |-> 0, state |-> 0, meshvar |-> 0, nodal |-> 0,
          superclass |-> "", short |-> ""]

\* mc_ti_undef_class
Undefined == [f \in DOMAIN Fresh |-> IF f \in Numbers THEN -1 ELSE ""]

\* An argument that mc_ti_def_class ignores.
Ignored(f, x) == IF f \in Numbers THEN x < 0 ELSE x = Null

\* mc_ti_def_class
DefClass(class, args) == [f \in DOMAIN class |-> IF Ignored(f, args[f]) THEN class[f] ELSE args[f]]

Nameless(class) == class.superclass = "" \/ class.short = ""

Plain(name) == [array |-> name]

\* Mutant: the name does not say which material.
MakeVarNameNoMat(class, name) ==
    IF Nameless(class) THEN Plain(name)
    ELSE [array |-> name, mesh |-> class.mesh, name |-> class.short, mvar |-> class.meshvar # 0,
          nod |-> class.nodal # 0, scls |-> class.superclass, n |-> 0, state |-> class.state]

\* mc_ti_make_var_name
MakeVarName(class, name) ==
    IF Nameless(class) THEN Plain(name)
    ELSE [array |-> name, mesh |-> class.mesh, name |-> class.short, mvar |-> class.meshvar # 0,
          nod |-> class.nodal # 0, scls |-> class.superclass, n |-> class.mat, state |-> class.state]

-----------------------------------------------------------------------------
(***************************************************************************)
(* Writing.  An operation is a chain of steps on a workspace w: the log,   *)
(* the class and the one saved, the capability, and the status of the last *)
(* step.  A value p is of a type, with its data; an array has an order.    *)
(***************************************************************************)
Bytes == [M_INT |-> 4, M_INT8 |-> 8, M_FLOAT |-> 4, M_FLOAT8 |-> 8, M_STRING |-> 1]

Ints(data)  == [op |-> "array", type |-> "M_INT", order |-> 1, data |-> data]
Scalar(number) == [op |-> "scalar", type |-> "M_INT", order |-> 0, data |-> <<number>>]

RoundUp8(n) == ((n + 7) \div 8) * 8

SizeOf(p) ==
    CASE p.op = "scalar" -> Bytes[p.type]
      [] p.op = "string" -> RoundUp8(Len(p.data) + 1)
      [] p.op = "array"  -> (p.order + 1) * Bytes.M_INT + Len(p.data) * Bytes[p.type]

Entry(key, etype, p) == [key |-> key, etype |-> etype, op |-> p.op, type |-> p.type,
                         data |-> p.data, size |-> SizeOf(p), file |-> session]

Enter(w, key, etype, p) == [w EXCEPT !.log = Append(@, Entry(key, etype, p))]

Fail(w, status) == [w EXCEPT !.status = status]

\* What htable_search finds: of several entries of one name the last, 0 if there is none.
Find(entries, key) == SelectLastInSeq(entries, LAMBDA e : e.key = key)

\* write_scalar
WriteScalar(w, key, etype, p) ==
    LET at == Find(w.log, key)
    IN  IF at = 0 THEN Enter(w, key, etype, p)
        ELSE IF w.log[at].type = p.type THEN [w EXCEPT !.log[at].data = p.data]
        ELSE Fail(w, "NUM_TYPE_MISMATCH")

\* Mutant: the character that ends a string is not counted.
WriteStringUnended(w, key, etype, p) ==
    LET at == Find(w.log, key)
    IN  IF at = 0 THEN Enter(w, key, etype, p)
        ELSE IF w.log[at].size >= Len(p.data) THEN [w EXCEPT !.log[at].data = p.data]
        ELSE Fail(w, "STR_LEN_MISMATCH")

\* write_string: one that fits is written over the old one.
WriteString(w, key, etype, p) ==
    LET at == Find(w.log, key)
    IN  IF at = 0 THEN Enter(w, key, etype, p)
        ELSE IF w.log[at].size >= Len(p.data) + 1 THEN [w EXCEPT !.log[at].data = p.data]
        ELSE Fail(w, "STR_LEN_MISMATCH")

\* write_array
WriteArray(w, key, etype, p) == Enter(w, key, etype, p)

Write(w, key, etype, p) ==
    CASE p.op = "scalar" -> WriteScalar(w, key, etype, p)
      [] p.op = "string" -> WriteString(w, key, etype, p)
      [] p.op = "array"  -> WriteArray(w, key, etype, p)

\* What every call on labels does first
EnableAndSave(w) == [w EXCEPT !.enable = TRUE, !.saved = w.class]

\* mc_ti_restoredef_class
Restore(w) == [w EXCEPT !.class = w.saved]

GlobalCount(name) == "GLOBAL_COUNT-" \o name

-----------------------------------------------------------------------------
(***************************************************************************)
(* The calls.  There is one place to save a class to, and the calls on     *)
(* labels use it: then what the application saved is lost, and it restores *)
(* only what is not.                                                       *)
(***************************************************************************)
Lost == [lost |-> TRUE]

\* What the library notes of the machine it runs on: machine[name] is a string.
MetadataNames == <<"lib version", "host name", "arch name", "date", "username">>

String(data) == [op |-> "string", type |-> "M_STRING", order |-> 0, data |-> data]

\* One string after the other, till one does not fit
WriteMetadata(w, m, names, etype) ==
    FoldLeft(LAMBDA v, name : IF v.status = "OK" THEN WriteString(v, Plain(name), etype, String(m[name]))
                              ELSE v, w, names)

\* mc_init_metadata, when the family is created
InitMetadata(w, m) ==
    LET Wrt(v, name, etype) == WriteScalar(v, Plain(name), etype, Scalar(0))
        version == WriteMetadata(w, m, <<"lib version">>, "MILI_PARAM")
        states  == Wrt(version, "state_count", "APPLICATION_PARAM")
        post    == Wrt(states, "post_modified", "APPLICATION_PARAM")
        system  == WriteMetadata(post, m, <<"host name", "arch name", "date">>, "MILI_PARAM")
        limit   == Wrt(system, "states per file", "MILI_PARAM")
    IN  WriteMetadata(limit, m, <<"username">>, "MILI_PARAM")

ParamInit ==
    /\ app \in Apps
    /\ session = 1
    /\ log = InitMetadata([log |-> Empty, status |-> "OK"], app.home).log
    /\ ti_class = Fresh /\ ti_saved = Fresh
    /\ ti_enable = TRUE /\ fam_enable = TRUE
    /\ app_class = Fresh /\ app_saved = Lost
    /\ written = Empty
    /\ machine = app.home

ParamNow == [log |-> log, class |-> ti_class, saved |-> ti_saved, enable |-> ti_enable,
             status |-> "OK"]

\* The class under which the name of a parameter is made; none for those that are not
\* time-independent.
ClassFor(class, ti) == IF ti THEN class ELSE Fresh

Granted(w, name, ti, p) ==
    written' = IF w.status = "OK"
               THEN Append(written, [name |-> name, ti |-> ti, p |-> p,
                                     class |-> ClassFor(app_class, ti)])
               ELSE written

\* mc_wrt_scalar, mc_wrt_string, mc_wrt_array
WriteApp(w, name, p) == Write(w, Plain(name), "APPLICATION_PARAM", p)

\* mc_ti_wrt_scalar, mc_ti_wrt_string, mc_ti_wrt_array, with a name that
\* mc_ti_make_var_name made
WriteTI(w, name, p) == Write(w, MakeVarName(w.class, name), "TI_PARAM", p)

WriteParam(name, ti, p) ==
    LET w == IF ti THEN WriteTI(ParamNow, name, p) ELSE WriteApp(ParamNow, name, p)
    IN  /\ log' = w.log
        /\ Granted(w, name, ti, p)
        /\ UNCHANGED <<ti_class, ti_saved, ti_enable, fam_enable, session, app, app_class, app_saved,
                       machine>>

Mixed == [mixed |-> TRUE]

\* mc_ti_init_metadata: under the same names, in the same table
TIInitMetadata(m) ==
    LET w == WriteMetadata(ParamNow, m, MetadataNames, "TI_PARAM")
    IN  /\ fam_enable
        /\ log' = w.log
        /\ machine' = IF w.status = "OK" THEN m ELSE Mixed
        /\ UNCHANGED <<ti_class, ti_saved, ti_enable, fam_enable, session, app, app_class, app_saved,
                       written>>

\* mc_set_global_class_count: whatever class is described
SetGlobalClassCount(name, count) ==
    LET w == WriteScalar(ParamNow, Plain(GlobalCount(name)), "TI_PARAM", Scalar(count))
    IN  /\ log' = w.log
        /\ written' = Append(written, [name |-> GlobalCount(name), ti |-> TRUE, p |-> Scalar(count),
                                       class |-> Fresh])
        /\ UNCHANGED <<ti_class, ti_saved, ti_enable, fam_enable, session, app, app_class, app_saved,
                       machine>>

\* mc_ti_def_class, mc_ti_set_class
DefTIClass(args) ==
    /\ ti_class' = DefClass(ti_class, args)
    /\ app_class' = DefClass(app_class, args)
    /\ UNCHANGED <<log, ti_saved, ti_enable, fam_enable, session, app, app_saved, written, machine>>

\* mc_ti_undef_class
UndefTIClass ==
    /\ ti_class' = Undefined
    /\ app_class' = Undefined
    /\ UNCHANGED <<log, ti_saved, ti_enable, fam_enable, session, app, app_saved, written, machine>>

\* mc_ti_savedef_class
SaveTIClass ==
    /\ ti_saved' = ti_class
    /\ app_saved' = app_class
    /\ UNCHANGED <<log, ti_class, ti_enable, fam_enable, session, app, app_class, written, machine>>

\* mc_ti_restoredef_class
RestoreTIClass ==
    /\ app_saved # Lost
    /\ ti_class' = ti_saved
    /\ app_class' = app_saved
    /\ UNCHANGED <<log, ti_saved, ti_enable, fam_enable, session, app, app_saved, written, machine>>

\* mc_ti_enable, mc_ti_disable
EnableTI(enable) ==
    /\ ti_enable' = enable
    /\ UNCHANGED <<log, ti_class, ti_saved, fam_enable, session, app, app_class, app_saved, written, machine>>

\* mc_close, and mc_open to append: set_defaults.
ReopenParams ==
    /\ \E i \in DOMAIN log : log[i].file = session
    /\ session' = session + 1
    /\ fam_enable' = ti_enable
    /\ ti_class' = Fresh /\ ti_saved' = Fresh
    /\ app_class' = Fresh /\ app_saved' = Lost
    /\ UNCHANGED <<log, ti_enable, app, written, machine>>

ParamStep ==
    \/ \E q \in app.writes : WriteParam(q.name, q.ti, q.p)
    \/ \E q \in app.counts : SetGlobalClassCount(q.name, q.count)
    \/ \E args \in app.defs : DefTIClass(args)
    \/ app.defs # {} /\ (UndefTIClass \/ SaveTIClass \/ RestoreTIClass)
    \/ \E enable \in app.enables : EnableTI(enable)
    \/ \E m \in app.machines : TIInitMetadata(m)

-----------------------------------------------------------------------------
(***************************************************************************)
(* Reading by name.                                                        *)
(***************************************************************************)
EntriesOf(key) == SelectSeq(log, LAMBDA e : e.key = key)
Found(key)     == EntriesOf(key) # Empty
Newest(key)    == Last(EntriesOf(key))

Result(status, data) == [status |-> status, data |-> data]
NotFound             == Result("ENTRY_NOT_FOUND", Empty)

\* mc_read_scalar, read_scalar
ReadScalar(key) == IF Found(key) THEN Result("OK", <<Newest(key).data[1]>>) ELSE NotFound

\* What the bytes of an entry are as a string, when one is not ended among them.
Unended == <<"unended">>

\* mc_read_string, mili_read_string
ReadString(key) ==
    IF ~Found(key) THEN NotFound
    ELSE IF Newest(key).type # "M_STRING" THEN Result("NOT_STRING_TYPE", Empty)
    ELSE Result("OK", IF Len(Newest(key).data) < Newest(key).size THEN Newest(key).data ELSE Unended)

\* mc_ti_read_scalar, mc_ti_read_string: by the name they are given, enabled or not.
TIReadScalar(key) == ReadScalar(key)
TIReadString(key) == ReadString(key)

\* mc_get_metadata, mc_ti_get_metadata: the strings that are there
Metadata   == [name \in Range(MetadataNames) \ {"username"} |-> ReadString(Plain(name)).data]
TIMetadata == [name \in Range(MetadataNames) |-> TIReadString(Plain(name)).data]

\* mc_ti_check_arch
TICheckArch ==
    IF fam_enable /\ Metadata["arch name"] = TIMetadata["arch name"] THEN "NOT_OK" ELSE "OK"

\* read_param_array of what a search finds first
ReadNewest(key) == Newest(key).data

\* mc_read_param_array
ReadParamArray(key) == IF Found(key) THEN Result("OK", ReadNewest(key)) ELSE NotFound

\* read_param_array_len: the product of the dimensions that precede the data
ArrayLen(e) == Len(e.data)

\* mc_read_param_array_len
ParamArrayLen(key) == FoldLeft(LAMBDA n, e : n + ArrayLen(e), 0, EntriesOf(key))

\* Mutant: the array of ids is read as mc_read_param_array would.
ReadNewestOnly(key) == Last(EntriesOf(key)).data

\* The entries of a name as they follow each other in a bucket
InBucket(key) == Reverse(EntriesOf(key))

\* read_htable_array: every array of that name, the newest first
ReadAll(key) == FlattenSeq([i \in DOMAIN InBucket(key) |-> InBucket(key)[i].data])

\* mc_ti_read_array
TIReadArray(key) ==
    IF ~ti_enable THEN Result("OK", Empty)
    ELSE IF Found(key) THEN Result("OK", ReadAll(key))
    ELSE NotFound

\* mc_get_global_class_count
GetGlobalClassCount(name) == ReadScalar(Plain(GlobalCount(name)))

-----------------------------------------------------------------------------
(***************************************************************************)
(* What there is to read: lists of names, and what is known of a name.     *)
(***************************************************************************)
AllNames == {log[i].key : i \in DOMAIN log}

FirstFile(key) == SelectSeq(log, LAMBDA e : e.key = key /\ e.file = 1)

\* is_correct_param_type, for TI_PARAM: in the second file it looks up the names by
\* an index into those of the first.
IsTIParam(key) == IF FirstFile(key) = Empty THEN BOOLEAN ELSE {Head(FirstFile(key)).etype = "TI_PARAM"}

\* mc_htable_search_wildcard, mc_ti_htable_search_wildcard: of the names that match,
\* those that are listed, and those that may be
ListedSurely(ti, match) == {key \in match : IsTIParam(key) = {ti}}
ListedMaybe(ti, match)  == {key \in match : ti \in IsTIParam(key)}

\* mc_mr_get_param_list: of time-independent parameters all, whatever the pattern is
ParamList(ti, match) ==
    LET names == IF ti THEN AllNames ELSE match
    IN  [surely |-> ListedSurely(ti, names), maybe |-> ListedMaybe(ti, names)]

\* Arrays and counts of the calls on labels and global ids (Labels)
OwnArrays == {"GLOBAL_IDS", "GLOBAL_IDS_LOCAL_MAP", "LOCAL_COUNT"}

LabelArrays == {"Element Labels", "Element Labels-ElemIds", "Node Labels"}

\* mc_get_app_parameter_names
AppParameterNames ==
    {key \in AllNames : /\ key.array \notin LabelArrays
                        /\ Newest(key).etype \in {"APPLICATION_PARAM", "TI_PARAM"}}

\* mc_get_app_parameter_count
AppParameterCount == Cardinality(AppParameterNames)

\* mc_mr_get_param_attributes, of a name in the first file: the type, and the size of
\* the first entry in units of it, with what precedes the data of an array
ParamAttributes(key) ==
    LET e == Head(FirstFile(key)) IN [type |-> e.type, len |-> e.size \div Bytes[e.type]]

\* A name with the words TRUE and FALSE blanked out: as many blanks are left.
Blanked(key) ==
    IF "mvar" \notin DOMAIN key THEN key
    ELSE [key EXCEPT !.mvar = IF @ THEN 4 ELSE 5, !.nod = IF @ THEN 4 ELSE 5]

\* ti_htable_search
TIFind(key) == SelectLastInSeq(log, LAMBDA e : Blanked(e.key) = Blanked(key))

\* mc_ti_get_data_len: what is found and all that follows it in its bucket, of this name
\* or another, less the four numbers that precede the data of an array of order 3
DataLen(key, other) ==
    LET from == SelectSeq(SubSeq(log, 1, TIFind(key)), LAMBDA e : e.key \in {key, other})
        n    == FoldLeft(LAMBDA m, e : m + e.size \div Bytes[e.type], 0, from)
    IN  IF n > 2 /\ Head(from).type # "M_STRING" THEN n - 4 ELSE n

\* className_to_classEnum knows these names of superclasses, and not all there are.
Superclasses == {"M_NODE", "M_TRUSS", "M_BEAM", "M_QUAD", "M_TET", "M_HEX", "M_MAT", "M_SURFACE",
                 "M_TRI", "M_UNIT", "M_PARTICLE", "M_TET10", "M_INODE"}

\* A flag is true when "TR" occurs in the name anywhere after it.
WithTR == {"M_TRI", "M_TRUSS"}

\* mc_ti_get_metadata_from_name
MetadataFromName(key) ==
    IF key.scls \notin Superclasses THEN [status |-> "INVALID_CLASS_NAME"]
    ELSE [status |-> "OK", short |-> key.name, superclass |-> key.scls,
          isMeshvar |-> key.mvar \/ key.nod \/ key.scls \in WithTR,
          isNodal   |-> key.nod \/ key.scls \in WithTR,
          mesh |-> key.mesh, state |-> key.state, mat |-> key.n]

\* mc_ti_get_superclass_from_name, mc_ti_get_material_from_name
SuperclassFromName(key) ==
    IF "scls" \in DOMAIN key /\ key.scls \in Superclasses THEN key.scls ELSE "M_INVALID_LABEL"
MaterialFromName(key) == IF "n" \in DOMAIN key THEN key.n ELSE -1

-----------------------------------------------------------------------------
(***************************************************************************)
(* Properties.                                                             *)
(***************************************************************************)
\* Two classes give a parameter one name only if it says the same of them.
SameClass(c, d) ==
    \/ Nameless(c) /\ Nameless(d)
    \/ /\ ~Nameless(c) /\ ~Nameless(d)
       /\ \A f \in DOMAIN c \ {"meshvar", "nodal"} : c[f] = d[f]
       /\ \A f \in {"meshvar", "nodal"} : (c[f] = 0) = (d[f] = 0)

\* All that was written to the place of r
WrittenWith(r) == SelectSeq(written, LAMBDA s : s.name = r.name /\ SameClass(s.class, r.class))

KeyFor(r) == MakeVarName(r.class, r.name)

\* The last value written is read; of arrays, in the order written, the last one alone,
\* all of them newest first, and their number.
ReadAsWritten(r) ==
    LET s == WrittenWith(r)
        data == [i \in DOMAIN s |-> s[i].p.data]
    IN  CASE r.p.op = "scalar" -> /\ TIReadScalar(KeyFor(r)) = Result("OK", Last(data))
          [] r.p.op = "string" -> /\ TIReadString(KeyFor(r)) = Result("OK", Last(data))
          [] r.p.op = "array"  ->
                 /\ ReadParamArray(KeyFor(r)) = Result("OK", Last(data))
                 /\ ti_enable => TIReadArray(KeyFor(r)) = Result("OK", FlattenSeq(Reverse(data)))
                 /\ ParamArrayLen(KeyFor(r)) = Len(FlattenSeq(data))

\* The space an application is told to provide is enough: for the string it will read, and
\* for the first array, by mc_mr_get_param_attributes; by mc_ti_get_data_len for a scalar
\* or string alone in its bucket, and for an array of order 3 of numbers of four bytes,
\* for which it is exact when that is alone.
SizedFor(r) ==
    LET key  == KeyFor(r)
        need == IF r.p.op = "string" THEN Len(ReadString(key).data) + 1
                ELSE Len(WrittenWith(r)[1].p.data)
    IN  /\ r.p.op = "array" /\ r.p.order = 3 =>
               /\ \A other \in AllNames : DataLen(key, other) >= need
               /\ Len(WrittenWith(r)) = 1 => DataLen(key, key) = need
        /\ r.p.op # "array" => DataLen(key, key) >= need
        /\ FirstFile(key) # Empty => /\ ParamAttributes(key).type = r.p.type
                                     /\ ParamAttributes(key).len >= need

\* A name tells what it was made from, but for the flags before a "TR".
DescribedBy(r) ==
    LET m == MetadataFromName(KeyFor(r))
    IN  ~Nameless(r.class) /\ r.class.superclass \in Superclasses =>
            /\ \A f \in {"short", "superclass", "mesh", "state", "mat"} : m[f] = r.class[f]
            /\ SuperclassFromName(KeyFor(r)) = r.class.superclass
            /\ MaterialFromName(KeyFor(r)) = r.class.mat
            /\ r.class.superclass \notin WithTR => m.isNodal = (r.class.nodal # 0)

\* A name of the first file is in the list it belongs to and in no other.
ListedAs(r) ==
    FirstFile(KeyFor(r)) # Empty => /\ KeyFor(r) \in ParamList(r.ti, {KeyFor(r)}).surely
                                    /\ KeyFor(r) \notin ParamList(~r.ti, AllNames).maybe

\* What is noted of a machine reads as one machine's, by either function, unless a string
\* did not fit; so the check of the architecture compares a name with itself and, as it
\* refuses equal ones, refuses always.
MetadataRead ==
    /\ \A name \in DOMAIN TIMetadata : TIReadString(Plain(name)).status = "OK"
                                      /\ TIMetadata[name] # Unended
    /\ machine # Mixed => TIMetadata = machine
    /\ \A name \in DOMAIN Metadata : Metadata[name] = TIMetadata[name]
    /\ TICheckArch = IF fam_enable THEN "NOT_OK" ELSE "OK"

\* mc_init_metadata writes these as an application would.
LibraryNames == {Plain("state_count"), Plain("post_modified")}

WrittenNames == {KeyFor(written[i]) : i \in DOMAIN written}

\* param.c:219, ti.c:1041.  What an application wrote under a name that it made from the
\* class it had described it finds again by that name: the value, its place in the lists of
\* names, its size, and the class; so is what the library noted of itself; and the class it described is the one that names are
\* made from, though the calls on labels describe another for a while.
ParamsFound ==
    /\ ti_class = app_class
    /\ app_saved # Lost => ti_saved = app_saved
    /\ \A i \in DOMAIN written :
           /\ ReadAsWritten(written[i])
           /\ SizedFor(written[i])
           /\ DescribedBy(written[i])
           /\ ListedAs(written[i])
    /\ {key \in AppParameterNames : key.array \notin OwnArrays} = WrittenNames \cup LibraryNames
    /\ AppParameterCount >= Cardinality(WrittenNames \cup LibraryNames)
    /\ MetadataRead
    /\ \A q \in app.counts :
           GetGlobalClassCount(q.name).status = "OK" <=> Plain(GlobalCount(q.name)) \in WrittenNames
=============================================================================
