-------------------------------- MODULE Mesh --------------------------------
(***************************************************************************)
(* The meshes of a family: object classes, the blocks of object ids they   *)
(* have, the definitions of nodes, elements, surfaces and class ids in the *)
(* non-state files, and what init_meshes makes of them when the family is  *)
(* opened again.                                                           *)
(*                                                                         *)
(* A call that defines objects adds their blocks to the class one at a     *)
(* time (add_geom), then enters the definition in the directory and writes *)
(* its data.  init_meshes adds the blocks of each entry it reads in the    *)
(* same way, so both go through AddBlock.  One process writes: nothing     *)
(* happens between the steps of a call.                                    *)
(*                                                                         *)
(* Mesh ids and file numbers start at 1 here.  A file is the sequence of   *)
(* its entries about meshes, each with its data; the datum of an object is *)
(* the pair of its id and the number of the call that gave it.  Of a       *)
(* surface it is the number of facets, which the directory has; no word of *)
(* its connectivities is written.                                          *)
(***************************************************************************)
EXTENDS Integers, Sequences, FiniteSets, SequencesExt, FiniteSetsExt

CONSTANTS
    Names,     \* names of meshes
    Classes,   \* short names of object classes
    Declared,  \* pairs of a class and a superclass it may be defined with
    MaxId,     \* bound: object ids
    Ranges,    \* ranges of ids an application defines in one call
    Lists,     \* lists of ids for mc_def_conn_arb, each as the runs of successive
               \* ids that list_to_blocks makes of it
    App,       \* what the application may do
    MaxFiles,  \* bound: non-state files
    MaxDefs    \* bound: definitions of objects, and of classes that exist, in a behaviour

(***************************************************************************)
(* What an application may do beyond the plainest use:                     *)
(*   refused_list   give mc_def_conn_arb some ids that are defined already *)
(*   span_update    give coordinates again that no one definition of nodes *)
(*                  contains                                               *)
(*   surface_files  define a surface when others are in an earlier file    *)
(*   late_class     define a class after a query about the mesh's classes  *)
(***************************************************************************)
Privileges   == {"refused_list", "span_update", "surface_files", "late_class"}
Superclasses == {"node", "element", "ident", "surface"}
ObjectTypes  == {"NODES", "ELEM_CONNS", "CLASS_IDENTS", "SURFACE_CONNS"}
Types        == {"MESH_NAME", "CLASS_DEF"} \cup ObjectTypes

Ids(r)  == r.start..r.stop
IdRange == {r \in [start : 1..MaxId, stop : 1..MaxId] : r.start <= r.stop}

ASSUME MeshAssumption ==
    /\ IsFiniteSet(Names) /\ IsFiniteSet(Classes)
    /\ Declared \subseteq Classes \X Superclasses
    /\ MaxId \in Nat /\ MaxFiles \in Nat /\ MaxDefs \in Nat
    /\ Ranges \subseteq IdRange
    /\ Lists \subseteq Seq(IdRange)
    /\ App \subseteq Privileges

VARIABLES
    meshes,   \* of each mesh its name and its table of classes (umesh_data)
    files,    \* the entries of each non-state file
    cur,      \* the non-state file that is open, or 0
    fresh,    \* whether the last file is not committed yet
    cached,   \* class_data: the classes the last query collected, and of which mesh
    proc,     \* "open", "loading", "closed" or "failed" (init_meshes returned an error)
    doing,    \* "none", "define" or "load": the entry in progress, if any
    entry,    \* that entry
    added,    \* how many of its blocks are added
    at,       \* the file and the entry init_meshes comes to next
    given,    \* history: the call that last gave each object its data
    stranded, \* history: ids of refused calls that stayed in a class
    clock     \* history: definitions so far

vars == <<meshes, files, cur, fresh, cached, proc, doing, entry, added, at,
          given, stranded, clock>>

-----------------------------------------------------------------------------
(***************************************************************************)
(* Lists of blocks.                                                        *)
(***************************************************************************)
\* Mutant: ranges that share one end do not count as overlapping.
OverlapInside(a, b) == ~(a.stop <= b.start \/ a.start > b.stop)

Overlap(a, b) == ~(a.stop < b.start \/ a.start > b.stop)

\* Where the walk along the list stops: a block that overlaps or comes after.
Stops(b, r) == Overlap(b, r) \/ b.start >= r.start
Place(blocks, r) ==
    CHOOSE p \in 1..Len(blocks) + 1 :
        /\ \A q \in 1..p - 1 : ~Stops(blocks[q], r)
        /\ p <= Len(blocks) => Stops(blocks[p], r)

Refused(blocks, r) ==
    LET p == Place(blocks, r) IN p <= Len(blocks) /\ Overlap(blocks[p], r)

MeetsLeft(blocks, p, r)  == p > 1 /\ blocks[p - 1].stop + 1 = r.start
MeetsRight(blocks, p, r) == p <= Len(blocks) /\ blocks[p].start - 1 = r.stop

\* Mutant: a block that closes a gap is merged with its right neighbour only.
InsertNoCollapse(blocks, r) ==
    LET p == Place(blocks, r)
    IN  CASE MeetsRight(blocks, p, r) -> [blocks EXCEPT ![p].start = r.start]
          [] MeetsLeft(blocks, p, r) /\ ~MeetsRight(blocks, p, r)
                 -> [blocks EXCEPT ![p - 1].stop = r.stop]
          [] OTHER -> InsertAt(blocks, p, r)

\* Collapse, merge to the right, merge to the left, or insert.
InsertBlock(blocks, r) ==
    LET p     == Place(blocks, r)
        left  == MeetsLeft(blocks, p, r)
        right == MeetsRight(blocks, p, r)
    IN  CASE left /\ right  -> RemoveAt([blocks EXCEPT ![p - 1].stop = blocks[p].stop], p)
          [] right /\ ~left -> [blocks EXCEPT ![p].start = r.start]
          [] left /\ ~right -> [blocks EXCEPT ![p - 1].stop = r.stop]
          [] OTHER          -> InsertAt(blocks, p, r)

Covered(blocks) == UNION {Ids(blocks[i]) : i \in DOMAIN blocks}

\* Sorted, disjoint, and no two of them adjacent: as few blocks as possible.
Canonical(blocks) ==
    /\ \A i \in DOMAIN blocks : blocks[i] \in IdRange
    /\ \A i \in 1..Len(blocks) - 1 : blocks[i].stop + 1 < blocks[i + 1].start

\* The ids of a list of blocks, in order.
BlocksToList(ranges) ==
    FlattenSeq([k \in DOMAIN ranges |->
                   [i \in 1..ranges[k].stop - ranges[k].start + 1 |-> ranges[k].start + i - 1]])

\* Where in a definition's data the datum of an id is (load_conn_def's p_src).
Offset(ranges, id) ==
    LET ids == BlocksToList(ranges) IN CHOOSE p \in DOMAIN ids : ids[p] = id

-----------------------------------------------------------------------------
(***************************************************************************)
(* Classes, entries and files.                                             *)
(***************************************************************************)
\* create_class_data; a class nobody defined has superclass "none".
ClassData(s) == [superclass |-> s, blocks |-> << >>, object_qty |-> 0]
NoClasses    == [c \in Classes |-> ClassData("none")]

NoQuery == [mesh |-> 0, classes |-> {}]
NoEntry == [type |-> "MESH_NAME", mesh |-> 0, name |-> "", superclass |-> "none",
            ranges |-> << >>, data |-> << >>]

Class(m, c)   == meshes[m].table[c]
HasClass(m, c, S) == m \in DOMAIN meshes /\ Class(m, c).superclass \in S
Defined(m)    == {c \in Classes : Class(m, c).superclass # "none"}
Idle          == proc = "open" /\ doing = "none"

Places == UNION {{i} \X DOMAIN files[i] : i \in DOMAIN files}
At(p)  == files[p[1]][p[2]]
Earlier(p, q) == p[1] < q[1] \/ (p[1] = q[1] /\ p[2] < q[2])

Matches(e, type, m, c) == e.type = type /\ e.mesh = m /\ e.name = c
Entries(type, m, c)    == {p \in Places : Matches(At(p), type, m, c)}
FirstOf(P) == CHOOSE p \in P : \A q \in P \ {p} : Earlier(p, q)
LastOf(P)  == CHOOSE p \in P : \A q \in P \ {p} : Earlier(q, p)

\* prep_for_new_data and add_dir_entry: the last file while it is not
\* committed, else another file.
Enter(e) ==
    /\ files' = IF fresh THEN [files EXCEPT ![Len(files)] = Append(@, e)]
                ELSE Append(files, <<e>>)
    /\ cur' = Len(files')
    /\ fresh' = TRUE

\* Mutant: opening another file leaves the last one uncommitted.
VisitKeeps(V) == /\ cur' = IF V = {} THEN cur ELSE Max(V)
                 /\ UNCHANGED fresh

\* non_state_file_open of each file of V in turn: closing another file that
\* is not committed commits it.
Visit(V) == /\ cur' = IF V = {} THEN cur ELSE Max(V)
            /\ fresh' = (fresh /\ V \subseteq {cur})

FilesOf(P) == {p[1] : p \in P}

Room == fresh \/ Len(files) < MaxFiles

-----------------------------------------------------------------------------
(***************************************************************************)
(* Calls that define something.                                            *)
(***************************************************************************)
MakeUmesh(n) ==
    /\ Idle /\ Room
    /\ \A m \in DOMAIN meshes : meshes[m].name # n
    /\ meshes' = Append(meshes, [name |-> n, table |-> NoClasses])
    /\ Enter([NoEntry EXCEPT !.mesh = Len(meshes) + 1, !.name = n])
    /\ UNCHANGED <<cached, proc, doing, entry, added, at, given, stranded, clock>>

\* htable_add_entry_data, ENTER_UNIQUE: a class that is there stays as it is.
AddClass(m, c, s) ==
    IF Class(m, c).superclass = "none"
    THEN [meshes EXCEPT ![m].table[c] = ClassData(s)] ELSE meshes

DefClass(m, c, s) ==
    /\ Idle /\ Room /\ m \in DOMAIN meshes
    /\ c \in Defined(m) => clock < MaxDefs
    /\ "late_class" \in App \/ cached.mesh # m \/ c \in Defined(m)
    /\ meshes' = AddClass(m, c, s)
    /\ Enter([NoEntry EXCEPT !.type = "CLASS_DEF", !.mesh = m, !.name = c, !.superclass = s])
    /\ clock' = IF c \in Defined(m) THEN clock + 1 ELSE clock
    /\ UNCHANGED <<cached, proc, doing, entry, added, at, given, stranded>>

\* What the caller passes: the datum of each object in the order of the list.
Data(ranges, call) ==
    LET ids == BlocksToList(ranges) IN [p \in DOMAIN ids |-> <<ids[p], call>>]

Define(type, m, c, ranges) ==
    /\ Idle /\ Room /\ clock < MaxDefs
    /\ clock' = clock + 1
    /\ doing' = "define" /\ added' = 0
    /\ entry' = [type |-> type, mesh |-> m, name |-> c, superclass |-> "none",
                 ranges |-> ranges, data |-> Data(ranges, clock + 1)]
    /\ UNCHANGED <<meshes, files, cur, fresh, cached, proc, at, given, stranded>>

DefClassIdents(m, c, r) == HasClass(m, c, {"ident"}) /\ Define("CLASS_IDENTS", m, c, <<r>>)

\* The definitions update_nodes_def opens, and the one it would overwrite.
Candidates(m, c, r) == {p \in Entries("NODES", m, c) :
                            Len(At(p).data) >= Cardinality(Ids(r))}
Containing(m, c, r) == {p \in Candidates(m, c, r) :
                            Ids(r) \subseteq Ids(At(p).ranges[1])}

DefNodes(m, c, r) ==
    /\ HasClass(m, c, {"node"})
    /\ \/ "span_update" \in App
       \/ ~Refused(Class(m, c).blocks, r)
       \/ Containing(m, c, r) # {}
    /\ Define("NODES", m, c, <<r>>)

DefConnSeq(m, c, r) == HasClass(m, c, {"element"}) /\ Define("ELEM_CONNS", m, c, <<r>>)

\* Whether some ids of a list are free, and a later block is refused.
PartlyFree(blocks, list) ==
    /\ Len(list) > 1 /\ Ids(list[1]) \cap Covered(blocks) = {}
    /\ \E k \in DOMAIN list : Ids(list[k]) \cap Covered(blocks) # {}

DefConnArb(m, c, list) ==
    /\ HasClass(m, c, {"element"})
    /\ "refused_list" \in App \/ ~PartlyFree(Class(m, c).blocks, list)
    /\ Define("ELEM_CONNS", m, c, list)

\* The id of the next surface of a class.
NextSurface(blocks) == IF blocks = << >> THEN 1 ELSE blocks[1].stop + 1

DefConnSurface(m, c) ==
    LET s == NextSurface(Class(m, c).blocks)
    IN  /\ HasClass(m, c, {"surface"})
        /\ s <= MaxId
        /\ "surface_files" \in App
             \/ FilesOf(Entries("SURFACE_CONNS", m, c)) \subseteq (IF fresh THEN {Len(files)} ELSE {})
        /\ Define("SURFACE_CONNS", m, c, <<[start |-> s, stop |-> s]>>)

-----------------------------------------------------------------------------
(***************************************************************************)
(* The steps of a definition, and of init_meshes for an entry.             *)
(***************************************************************************)
Block == entry.ranges[added + 1]
Done  == doing' = "none" /\ entry' = NoEntry /\ added' = 0
Told(ids) == [given EXCEPT ![entry.mesh][entry.name] =
                 [id \in 1..MaxId |-> IF id \in ids THEN clock ELSE @[id]]]

\* Mutant: the class's objects are counted once per block.
InsertRangeOnce(bl, r) ==
    [bl EXCEPT !.blocks = InsertBlock(@, r), !.object_qty = @ + 1]

\* insert_range of a block that is not refused; block_qty is Len(blocks).
InsertRange(bl, r) ==
    [bl EXCEPT !.blocks = InsertBlock(@, r), !.object_qty = @ + (r.stop - r.start + 1)]

AddBlock ==
    /\ doing # "none" /\ added < Len(entry.ranges)
    /\ ~Refused(Class(entry.mesh, entry.name).blocks, Block)
    /\ meshes' = [meshes EXCEPT ![entry.mesh].table[entry.name] = InsertRange(@, Block)]
    /\ added' = added + 1
    /\ UNCHANGED <<files, cur, fresh, cached, proc, doing, entry, at, given, stranded, clock>>

\* A definition ends where a block of it is refused, and the blocks before it
\* stay; init_meshes ends with an error.
RefuseBlock ==
    /\ doing # "none" /\ added < Len(entry.ranges)
    /\ doing = "define" => entry.type # "NODES"
    /\ Refused(Class(entry.mesh, entry.name).blocks, Block)
    /\ proc' = IF doing = "load" THEN "failed" ELSE proc
    /\ stranded' = [stranded EXCEPT ![entry.mesh][entry.name] =
                        @ \cup Covered(SubSeq(entry.ranges, 1, added))]
    /\ Done
    /\ UNCHANGED <<meshes, files, cur, fresh, cached, at, given, clock>>

\* Mutant: the new coordinates go to the start of the definition they are in.
OverwriteAtStart(data, r, e) ==
    [p \in DOMAIN data |-> IF p <= Len(e.data) THEN e.data[p] ELSE data[p]]

\* The coordinates of a definition r after those of e, which it contains.
Overwrite(data, r, e) ==
    LET from == e.ranges[1].start - r.start
    IN  [p \in DOMAIN data |-> IF p > from /\ p <= from + Len(e.data)
                               THEN e.data[p - from] ELSE data[p]]

\* update_nodes_def.  The caller is told OK when any definition was opened, or
\* no file was open, whether the coordinates were written or not.
UpdateNodes ==
    LET m    == entry.mesh
        c    == entry.name
        hits == Containing(m, c, Block)
        hit  == FirstOf(hits)
        opened == FilesOf(IF hits = {} THEN Candidates(m, c, Block)
                          ELSE {p \in Candidates(m, c, Block) : ~Earlier(hit, p)})
    IN  /\ doing = "define" /\ added < Len(entry.ranges) /\ entry.type = "NODES"
        /\ Refused(Class(m, c).blocks, Block)
        /\ files' = IF hits = {} THEN files
                    ELSE [files EXCEPT ![hit[1]][hit[2]].data =
                              Overwrite(@, At(hit).ranges[1], entry)]
        /\ cur' = IF opened = {} \/ Max(opened) = cur THEN cur ELSE 0
        /\ fresh' = (fresh /\ opened \subseteq {cur})
        /\ given' = IF opened # {} \/ cur = 0 THEN Told(Ids(Block)) ELSE given
        /\ Done
        /\ UNCHANGED <<meshes, cached, proc, at, stranded, clock>>

Defines ==
    /\ doing = "define" /\ added = Len(entry.ranges)
    /\ Enter(entry)
    /\ given' = Told(Covered(entry.ranges))
    /\ Done
    /\ UNCHANGED <<meshes, cached, proc, at, stranded, clock>>

-----------------------------------------------------------------------------
(***************************************************************************)
(* Reading, queries, closing.                                              *)
(***************************************************************************)
\* mc_load_nodes, mc_load_conns and mc_load_surface open the files they read.
Read(m, c, type) ==
    /\ Idle /\ m \in DOMAIN meshes
    /\ Entries(type, m, c) # {}
    /\ Visit(FilesOf(Entries(type, m, c)))
    /\ UNCHANGED <<meshes, files, cached, proc, doing, entry, added, at, given, stranded, clock>>

\* load_nodes_def and load_conn_def_surface: what one entry has of a node, and
\* of its surface: the number of facets to read.
NodeOf(e, id) == e.data[id - e.ranges[1].start + 1]
SurfaceOf(e)  == e.data[1]

\* conn_words: how many words an element or a surface takes, as far as any.
ConnWords(s) == IF s = "surface" THEN 0 ELSE 1

\* The facets that load_conn_def_surface reads: those of the definition if they were
\* written, else whatever follows in the file.
Unwritten   == <<0, 0>>
FacetsOf(e) == IF ConnWords("surface") = 0 THEN Unwritten ELSE SurfaceOf(e)

\* The datum a reader of the class gets for an object: entries are read in
\* order into one array.
ReadObject(m, c, type, id) ==
    LET e == At(LastOf({p \in Entries(type, m, c) : id \in Covered(At(p).ranges)}))
    IN  IF type = "NODES" THEN NodeOf(e, id) ELSE e.data[Offset(e.ranges, id)]

\* Mutant: a class's definitions are counted from each file's first.
PrecedingInFile(type, p) ==
    {q \in Entries(type, At(p).mesh, At(p).name) : Earlier(q, p) /\ q[1] = p[1]}

\* mc_load_surface counts the entries of the class in each file, and the last
\* file that has as many counts.
NthInFile(m, c, i, s) ==
    {p \in Entries("SURFACE_CONNS", m, c) :
        p[1] = i /\ Cardinality(PrecedingInFile("SURFACE_CONNS", p)) = s - 1}
SurfaceRead(m, c, s) == At(LastOf(UNION {NthInFile(m, c, i, s) : i \in DOMAIN files}))
ReadSurface(m, c, s) == SurfaceOf(SurfaceRead(m, c, s))

\* Mutant: each definition's count replaces the one before.
CountLast(m, c) ==
    IF Entries("ELEM_CONNS", m, c) = {} THEN 0
    ELSE Len(At(LastOf(Entries("ELEM_CONNS", m, c))).data)

\* count_elem_conn_defs: the sum of MODIFIER2 over the class's entries.
CountElemConnDefs(m, c) ==
    FoldSet(LAMBDA p, n : Len(At(p).data) + n, 0, Entries("ELEM_CONNS", m, c))

\* reset_class_data, in any query about the classes of a mesh.
Query(m) ==
    /\ Idle /\ m \in DOMAIN meshes /\ cached.mesh # m
    /\ cached' = [mesh |-> m, classes |-> Defined(m)]
    /\ UNCHANGED <<meshes, files, cur, fresh, proc, doing, entry, added, at, given, stranded, clock>>

-----------------------------------------------------------------------------
(***************************************************************************)
(* What the questions about meshes, classes and definitions answer: a set  *)
(* of one answer, or the empty set where the question is refused.  Indices *)
(* start at 1.  A question about classes is a Query too, of each mesh it   *)
(* goes through.                                                           *)
(***************************************************************************)
MeshName(m)  == {meshes[m].name : i \in {m} \cap DOMAIN meshes}
GetMeshId(n) == LET ids == {m \in DOMAIN meshes : meshes[m].name = n}
                IN  {m \in ids : \A i \in ids : m <= i}

\* class_data after reset_class_data: what the last query collected, if it was
\* about this mesh, else the mesh's classes.  The order is the hash table's.
Collected(m)       == SetToSeq(IF cached.mesh = m THEN cached.classes ELSE Defined(m))
OfSuperclass(m, s) ==
    LET all == Collected(m)
        upto[i \in 0..Len(all)] ==
            IF i = 0 THEN << >>
            ELSE IF Class(m, all[i]).superclass = s THEN Append(upto[i - 1], all[i])
            ELSE upto[i - 1]
    IN  upto[Len(all)]
ClassQty(m, s)     == Len(OfSuperclass(m, s))

\* The class by its index in all of class_data, and in its superclass.
ClassInfoByIndex(m, i) ==
    {[short_name |-> Collected(m)[j], superclass |-> Class(m, Collected(m)[j]).superclass] :
        j \in {i} \cap DOMAIN Collected(m)}
ClassInfo(m, s, i) ==
    {[short_name |-> c, object_qty |-> Class(m, c).object_qty] :
        c \in {OfSuperclass(m, s)[j] : j \in {i} \cap DOMAIN OfSuperclass(m, s)}}

\* The first and the last id of the first block; the code expects one.
SimpleClassInfo(m, s, i) == {Class(m, c.short_name).blocks[1] : c \in ClassInfo(m, s, i)}

\* The mesh, superclass and index of the first class of a name: the meshes are
\* asked in turn, in each the superclasses, in each the indices.
ClassInfoByName(c) ==
    LET found == {f \in (DOMAIN meshes) \X Superclasses \X (1..Cardinality(Classes)) :
                      \E d \in ClassInfo(f[1], f[2], f[3]) : d.short_name = c}
    IN  {f \in found : \A g \in found : f[1] <= g[1]}

ClassSuperclass(m, c) == {Class(m, c).superclass} \ {"none"}
ClassExists(m, c)     == c \in Defined(m)

\* The definitions of a class, by index, in the order of the directory.
CountNodeEntries(m, c) == Cardinality(Entries("NODES", m, c))

Preceding(type, p) == {q \in Entries(type, At(p).mesh, At(p).name) : Earlier(q, p)}

NthEntry(type, m, c, i) ==
    {p \in Entries(type, m, c) : Cardinality(Preceding(type, p)) = i - 1}
NodeBlockSize(m, c, i) == {Len(At(p).data) : p \in NthEntry("NODES", m, c, i)}
ElemQtyInDef(m, c, i)  == {Len(At(p).data) : p \in NthEntry("ELEM_CONNS", m, c, i)}

\* The classes that have definitions of elements, each once.
ElemConnClassNames(m) ==
    {At(p).name : p \in {q \in Places : At(q).type = "ELEM_CONNS" /\ At(q).mesh = m}}

-----------------------------------------------------------------------------
Flush ==
    /\ Idle /\ cur # 0
    /\ cur' = 0 /\ fresh' = FALSE
    /\ UNCHANGED <<meshes, files, cached, proc, doing, entry, added, at, given, stranded, clock>>

\* Mutant: mc_close leaves class_data as it is.
KeepClassData == UNCHANGED cached

\* reset_class_data with force_init
ForgetClassData == cached' = NoQuery

Close ==
    /\ Idle
    /\ cur' = 0 /\ fresh' = FALSE
    /\ ForgetClassData
    /\ proc' = "closed"
    /\ meshes' = << >>
    /\ UNCHANGED <<files, doing, entry, added, at, given, stranded, clock>>

\* Opening the family for append.  The type and the dimensions of the meshes,
\* parameters, are read first, from the file of the first mesh's name.
Reopen ==
    LET first == {p \in Places : At(p).type = "MESH_NAME"}
    IN  /\ proc = "closed"
        /\ proc' = "loading"
        /\ at' = IF files[1] = << >> THEN <<2, 1>> ELSE <<1, 1>>
        /\ cur' = IF first = {} THEN 1 ELSE FirstOf(first)[1]
        /\ stranded' = [m \in DOMAIN stranded |-> [c \in Classes |-> {}]]
        /\ UNCHANGED <<meshes, files, fresh, cached, doing, entry, added, given, clock>>

NextPlace == IF at[2] < Len(files[at[1]]) THEN <<at[1], at[2] + 1>> ELSE <<at[1] + 1, 1>>
AtEnd     == at[1] > Len(files)

\* add_mesh
AddMesh(e) == Append(meshes, [name |-> e.name, table |-> NoClasses])

LoadMesh ==
    /\ proc = "loading" /\ doing = "none" /\ ~AtEnd
    /\ At(at).type = "MESH_NAME"
    /\ meshes' = AddMesh(At(at))
    /\ cur' = at[1] /\ at' = NextPlace
    /\ UNCHANGED <<files, fresh, cached, proc, doing, entry, added, given, stranded, clock>>

LoadClass ==
    /\ proc = "loading" /\ doing = "none" /\ ~AtEnd
    /\ At(at).type = "CLASS_DEF"
    /\ meshes' = AddClass(At(at).mesh, At(at).name, At(at).superclass)
    /\ at' = NextPlace
    /\ UNCHANGED <<files, cur, fresh, cached, proc, doing, entry, added, given, stranded, clock>>

\* The id of a surface is not in the file: it is made again.
LoadObjects ==
    LET e == At(at)
        s == NextSurface(Class(e.mesh, e.name).blocks)
    IN  /\ proc = "loading" /\ doing = "none" /\ ~AtEnd
        /\ e.type \in ObjectTypes
        /\ doing' = "load" /\ added' = 0
        /\ entry' = IF e.type = "SURFACE_CONNS"
                    THEN [e EXCEPT !.ranges = <<[start |-> s, stop |-> s]>>] ELSE e
        /\ cur' = IF e.type = "SURFACE_CONNS" THEN cur ELSE at[1]
        /\ UNCHANGED <<meshes, files, fresh, cached, proc, at, given, stranded, clock>>

Loaded ==
    /\ doing = "load" /\ added = Len(entry.ranges)
    /\ Done /\ at' = NextPlace
    /\ UNCHANGED <<meshes, files, cur, fresh, cached, proc, given, stranded, clock>>

LoadEnds ==
    /\ proc = "loading" /\ doing = "none" /\ AtEnd
    /\ proc' = "open" /\ at' = <<1, 1>>
    /\ UNCHANGED <<meshes, files, cur, fresh, cached, doing, entry, added, given, stranded, clock>>

-----------------------------------------------------------------------------
MeshIds == 1..Cardinality(Names)

Init ==
    /\ meshes = << >>
    /\ files = << << >> >> /\ cur = 1 /\ fresh = TRUE
    /\ cached = NoQuery
    /\ proc = "open" /\ doing = "none" /\ entry = NoEntry /\ added = 0 /\ at = <<1, 1>>
    /\ given = [m \in MeshIds |-> [c \in Classes |-> [id \in 1..MaxId |-> 0]]]
    /\ stranded = [m \in MeshIds |-> [c \in Classes |-> {}]]
    /\ clock = 0

Steps == AddBlock \/ RefuseBlock \/ UpdateNodes \/ Defines
Load  == Reopen \/ LoadMesh \/ LoadClass \/ LoadObjects \/ Loaded \/ LoadEnds

Next ==
    \/ \E n \in Names : MakeUmesh(n)
    \/ \E m \in MeshIds : Query(m)
    \/ \E m \in MeshIds, d \in Declared : DefClass(m, d[1], d[2])
    \/ \E m \in MeshIds, c \in Classes, r \in Ranges :
           DefClassIdents(m, c, r) \/ DefNodes(m, c, r) \/ DefConnSeq(m, c, r)
    \/ \E m \in MeshIds, c \in Classes, list \in Lists : DefConnArb(m, c, list)
    \/ \E m \in MeshIds, c \in Classes : DefConnSurface(m, c)
    \/ \E m \in MeshIds, c \in Classes, type \in ObjectTypes \ {"CLASS_IDENTS"} : Read(m, c, type)
    \/ Steps \/ Flush \/ Close \/ Load

Spec == Init /\ [][Next]_vars

-----------------------------------------------------------------------------
(***************************************************************************)
(* Properties.                                                             *)
(***************************************************************************)
Entry == [type : Types, mesh : Nat, name : Names \cup Classes \cup {""},
          superclass : Superclasses \cup {"none"},
          ranges : Seq(IdRange), data : Seq(Nat \X Nat)]
ClassRecord == [superclass : Superclasses \cup {"none"}, blocks : Seq(IdRange), object_qty : Nat]

\* The variables have their types, and the file that is not committed is the
\* last one and open: prep_for_new_data relies on it.
TypeOK ==
    /\ meshes \in Seq([name : Names, table : [Classes -> ClassRecord]])
    /\ files \in Seq(Seq(Entry)) \ {<< >>}
    /\ cur \in 0..Len(files)
    /\ fresh \in BOOLEAN /\ (fresh => cur = Len(files))
    /\ cached \in [mesh : {0} \cup MeshIds, classes : SUBSET Classes]
    /\ proc \in {"open", "loading", "closed", "failed"}
    /\ doing \in {"none", "define", "load"}
    /\ entry \in Entry /\ added \in Nat
    /\ at \in Nat \X Nat
    /\ given \in [MeshIds -> [Classes -> [1..MaxId -> Nat]]]
    /\ stranded \in [MeshIds -> [Classes -> SUBSET (1..MaxId)]]
    /\ clock \in 0..MaxDefs

\* The ids of a class in the files, and in the entries init_meshes has read.
ObjectPlaces(m, c) == {p \in Places : /\ At(p).type \in ObjectTypes
                                      /\ At(p).mesh = m /\ At(p).name = c}
Recorded(m, c) ==
    UNION {Covered(At(p).ranges) : p \in {q \in ObjectPlaces(m, c) :
                                              proc = "loading" => Earlier(q, at)}}

\* Between calls, what count_elem_conn_defs tells a reader who allocates by it is
\* the class's number of elements, as far as their definitions were completed.
CountsRight ==
    Idle => \A m \in DOMAIN meshes, c \in Classes :
        HasClass(m, c, {"element"}) =>
            CountElemConnDefs(m, c) + Cardinality(stranded[m][c] \ Recorded(m, c))
                = Class(m, c).object_qty

\* No id is defined twice in a class, whatever was refused, rewritten, closed
\* and opened in between (the promise of add_geom); so a family that was closed
\* can always be loaded.
NoIdTwice ==
    /\ proc # "failed"
    /\ \A p, q \in Places : \A k \in DOMAIN At(p).ranges, l \in DOMAIN At(q).ranges :
           /\ {At(p).type, At(q).type} \subseteq ObjectTypes
           /\ At(p).mesh = At(q).mesh /\ At(p).name = At(q).name
           /\ <<p, k>> # <<q, l>>
           => Ids(At(p).ranges[k]) \cap Ids(At(q).ranges[l]) = {}

\* Between calls, in a family that is being written or was opened again, the
\* blocks of a class are in canonical form, they cover exactly the ids whose
\* definitions are in the files (and those a refused call left behind), and the
\* class's count of objects is theirs: insert_range and init_meshes agree.  No id
\* is defined twice.
BlocksExact ==
    /\ NoIdTwice
    /\ doing = "none" /\ proc \in {"open", "loading"} =>
           \A m \in DOMAIN meshes, c \in Classes :
               LET t   == Class(m, c)
                   ids == Recorded(m, c) \cup stranded[m][c]
               IN  /\ Canonical(t.blocks)
                   /\ Covered(t.blocks) = ids
                   /\ t.object_qty = Cardinality(ids)

\* Every object's data is what the last call that returned OK gave for it, and
\* a reader finds it under the object's own id; of a surface, its number of facets.
DataLoaded ==
    Idle => \A m \in DOMAIN meshes, c \in Classes, id \in 1..MaxId :
        given[m][c][id] > 0 =>
            LET datum == <<id, given[m][c][id]>>
            IN  CASE HasClass(m, c, {"node"})    -> ReadObject(m, c, "NODES", id) = datum
                  [] HasClass(m, c, {"element"}) -> ReadObject(m, c, "ELEM_CONNS", id) = datum
                  [] HasClass(m, c, {"surface"}) -> ReadSurface(m, c, id) = datum
                  [] HasClass(m, c, {"ident"})   -> ReadObject(m, c, "CLASS_IDENTS", id) = datum

\* mesh_u.c:2904 ("Read connectivities for all nodes of a surface class").  The facets
\* that mc_load_surface reads are those mc_def_conn_surface was given.
SurfacesLoaded ==
    Idle => \A m \in DOMAIN meshes, c \in Classes, id \in 1..MaxId :
        given[m][c][id] > 0 /\ HasClass(m, c, {"surface"}) =>
            FacetsOf(SurfaceRead(m, c, id)) = <<id, given[m][c][id]>>

\* What the questions about meshes and classes answer is what they have: each
\* mesh under its name, each class at one index of one superclass and under its
\* name in the first mesh that has it, with its superclass and its first ids.
ClassesFound ==
    \A m \in DOMAIN meshes :
        /\ \A n \in MeshName(m) : GetMeshId(n) = {m}
        /\ \A i \in 1..Cardinality(Classes) + 1 :
               (ClassInfoByIndex(m, i) # {}) = (i <= Cardinality(Defined(m)))
        /\ \A c \in Classes :
               LET spots == {f \in Superclasses \X (1..Cardinality(Classes)) :
                                 \E d \in ClassInfo(m, f[1], f[2]) : d.short_name = c}
               IN  /\ Cardinality(spots) = IF ClassExists(m, c) THEN 1 ELSE 0
                   /\ \A f \in spots :
                         /\ ClassSuperclass(m, c) = {f[1]}
                         /\ Class(m, c).blocks # << >> =>
                                \A r \in SimpleClassInfo(m, f[1], f[2]) :
                                    r.start = Min(Covered(Class(m, c).blocks))
                         /\ \E g \in ClassInfoByName(c) :
                                g[1] <= m /\ (g[1] = m => <<g[2], g[3]>> = f)

\* A reader who asks for the definitions of a class one by one finds them all,
\* and no more: together they have the class's objects.
DefinitionsListed ==
    \A m \in DOMAIN meshes, c \in Classes :
        LET sizes(type) == [i \in 1..Cardinality(Places) |->
                               IF type = "NODES" THEN NodeBlockSize(m, c, i) ELSE ElemQtyInDef(m, c, i)]
            all(f) == MapThenSumSet(LAMBDA i : Max(f[i]), {i \in DOMAIN f : f[i] # {}})
        IN  /\ HasClass(m, c, {"node"}) =>
                  /\ all(sizes("NODES")) = Class(m, c).object_qty
                  /\ \A i \in 1..Cardinality(Places) :
                         (NodeBlockSize(m, c, i) # {}) = (i <= CountNodeEntries(m, c))
            /\ HasClass(m, c, {"element"}) =>
                  /\ all(sizes("ELEM_CONNS")) = CountElemConnDefs(m, c)
                  /\ (c \in ElemConnClassNames(m)) = (CountElemConnDefs(m, c) > 0)

\* Between calls, what a family answers about its meshes, classes and definitions
\* is what they are.
AnswersRight == Idle => ClassesFound /\ DefinitionsListed

\* The classes a query answers from, collected when it was about another mesh the
\* last time (reset_class_data), are the mesh's classes, in every session.
ClassesCurrent ==
    cached.mesh # 0 => /\ cached.mesh \in DOMAIN meshes
                       /\ cached.classes = Defined(cached.mesh)

\* The classes collected are the mesh's, and its answers and counts are right.
QueriesCurrent == ClassesCurrent /\ AnswersRight /\ CountsRight
=============================================================================
