# A verification development for the Mili library

Mili is a C library for binary databases of mesh simulations. A *family* of
files holds one database: non-state files (meshes, definitions, parameters and
the directory that finds them), state-data files (one record per time step) and
the *state map*, which says in which file and at which offset each state is.
One process writes a family; others read it, sometimes while it is written.

This directory holds TLA+ modules translated from `src/src/*.c` and, for the
combiner, `src/utils/*.c`, the TLC
configurations that check them on small instances, and proofs for every value
of the constants. `PROJECT.json` maps each definition to the lines it models.

## 1. The system

| component | state | operations | interacts with |
|---|---|---|---|
| State-data files (`mili.c`, `srec.c`) | `cur_st_file`, `cur_st_index`, `cur_st_file_size`, `st_file_count`, `file_st_qty`, `file_map`, limits | `mc_new_state`, `mc_wrt_subrec`, `mc_wrt_stream`, `mc_end_state`, `mc_rewrite_subrec`, `mc_partition_state_data`, `mc_limit_states`, `mc_limit_filesize` | the state map, the stdio buffer of the open file |
| State map on disk, restart (`mili_statemap.c`) | `state_map`, `state_qty`, `state_dirty`, `state_closed`; the tail of the A-file, or the T-file kept open as `time_state_file` | `update_static_map`, `load_static_maps`, `truncate_family`, `mc_restart_at_state`, `mc_restart_at_file`, `mc_reload_states`, `rebuild_state_tfile` | both kinds of file; any reader |
| Families and handles (`mili.c`) | `fam_list`, `fam_qty`, reuse of freed slots | `mc_open`, `mc_close`, `mc_delete_family` | everything |
| Locks (`mili.c`) | the write-lock file with two names in it; the name-lock file | `create_write_lock`, `test_write_lock`, `get_name_lock`, `free_name_lock` | two processes, on the file system |
| Non-state files, directories, parameters (`mili.c`, `direc.c`, `param.c`, `ti.c`) | `cur_file`, `next_free_byte`, `directory[]`, commit counts, `param_table` | `prep_for_new_data`, `add_dir_entry`, `commit_dir`, `load_directories`, `mc_wrt_scalar` and its kind | I/O stores, hash tables |
| I/O stores (`io_mem.c`) | buffers, traversal cursors, invalid ranges | `ios_alloc`, `ios_unalloc`, `ios_output`, `ios_get_fresh` | `svar.c`, `srec.c`: definitions wait there until committed |
| Object ranges, mesh (`mesh_u.c`) | sorted block lists per class | `insert_range`, `check_object_ids`, `mc_def_*` | definitions of subrecords |
| State variables, formats (`svar.c`, `srec.c`) | `svar_table`, `srecs[]` | `mc_def_svars`, `mc_open_srec`, `mc_def_subrec`, `mc_close_srec` | I/O stores |
| Input buffers (`mili_util.c`, `mr_funcs.c`) | a ring of buffers, `recent`, `buffer_count` | `init_buffer_queue`, `mc_set_buffer_qty`, `mc_read_results` | state files |
| The combiner (`src/utils`: `driver.c`, `combine_db.c`, `process_ti.c`, `misc.c`) | label maps, `in_db[]` and `out_db` with their result buffers, `state_times`, `env` | `main`, `get_next_state`, `end_of_run`, `set_timesteps`, `load_ti_labels`, `mc_combine_srecs`, `merge_state_data` | reads families while a parallel run writes them; writes one |
| The rest | hash tables, byte swapping, file names, printing, the Taurus importer, wrappers, a JSON parser | | |

What is hard here: a call makes several writes to different files with nothing
to make them one; stdio delays some of them; the process may die between any
two, or a reader look; counts kept in memory must follow every restart; and the
same state may enter the map in any of three calls (`mc_end_state`, the next
`mc_new_state`, `mc_close`) but must enter it once. Definitions are packed by
one piece of code and unpacked by another; labels, ids and places in records are
three numberings that must agree; and the combiner reads families that are being
written, each at its own pace. `PROJECT.json` lists
each hazard at its line with the property that is for it.

## 2. Modules

| module | what it is |
|---|---|
| `StateArchive` | the promise: a log of states that only a restart shortens |
| `StateLog` | the state branch of a family as its writer drives it |
| `MCStateLog` | the small instances |
| `StateLogProofs` | the inductive invariant; `TypeOK`, `MapIsMemory`, `CountsAgree`, `PreviousKnown` proved, and that `StateLog` implements `StateArchive`; then places and data: `FilesFilled`, `MappedIsWritten`, `StatesIntact`, `PublishedIsKept`, `Reopenable` |
| `NonState` | the non-state files with their directories, parameters and formats |
| `NonStateProofs` | the inductive invariants of directories, commits and formats; `CommitReturns`, `FormatsSaved`, and that a closed family is committed, proved |
| `NonStateDataProofs` | what files and entries hold; `TypeOK`, `LastValueRead`, `ClosedIsLoadable`, `CommittedIsFinal` proved |
| `Families` | handles, opening, writing, closing and deleting a family, the write lock and the name lock, by several processes |
| `FamiliesProofs` | the invariant of tables and locks; `TypeOK`, `IdsStayValid`, `OneWriter`, `UnfinishedIsMarked`, `FilesStay` proved |
| `Mesh` | object classes, their blocks of ids, definitions of objects, `init_meshes`, what queries answer |
| `MeshProofs` | the invariant of files, classes and calls in progress; `BlocksExact` proved |
| `MeshDataProofs` | types, where the data of an object is, what queries answer; `TypeOK`, `DataLoaded`, `QueriesCurrent` proved |
| `MCMesh` | the small instance of classes and lists |
| `Records` | the words of a record: atoms, lumps, and the references that name some of them |
| `Results` | writing and reading the results of states, with the rings of input buffers |
| `ResultsProofs` | rings, times, and where the subrecords of a record are; `TypeOK`, `TimesFound` and `BuffersCurrent` proved |
| `MCResults` | the variables, formats and requests of the instance |
| `Params` | parameters and the description of a class from which their names are made: writing, reading, listing, sizes |
| `Labels` | labels, global ids and node labels, as the arrays of parameters they are; extends `Params` |
| `MCLabels` | the small instance |
| `Formats` | definitions of variables and record formats: in I/O stores, packed into files, read back |
| `MCFormats` | the variables, subrecords and calls of the instance |
| `Combine` | what the combiner makes of several processors' families: labels, mesh, formats, records |
| `Combiner` | a run of the combiner beside the run that writes its input |
| `CombinerProofs` | the invariant of families, times and buffers; `TypeOK`, `StatesCombined` proved |
| `MCCombiner` | five partitions, one of them for a violation |

### StateLog

Its variables are the fields of `Mili_family` by their own names, and the disk:
`dfile` (state files), `dmap` and `dtrailer` (the map's records and what comes
after them: the A-file's 16-byte header, or the T-file's `~`) and `dlimit` (the
"states per file" parameter, which is written through at once). Data is cut to
what the properties tell apart: a file is a sequence of units of 8 bytes, a
unit holds the time of the state it was written for, a subrecord is one unit.

* **Calls that write a state**: `NewState` is the whole of `mc_new_state` with
  `test_open_next`, `prep_for_new_data`, the closing of a state nobody ended,
  and the map's update; `EndState` is `mc_end_state` however often it is called, also for a
  state that is ended already; `WriteSubrec`, `RewriteSubrec`, `Partition`,
  `LimitStates` are one call each.
* **Restarts** are several actions, because the disk changes in several steps:
  `RestartAtState`/`RestartAtFile` begin `truncate_family`, then `TruncUnlink`
  (one per file), `TruncFile`, `TruncMap`, `TruncEnd`. So is a close: `CloseMap`,
  `CloseFile`.
* **stdio**: `sbuf` is the one write the state file's stream may hold back (every
  write follows an `fseek`, which flushes), `tbuf` what the T-file's stream does.
* **Crash** forgets the process, each buffer written or not; **Reopen** is
  `load_static_maps` for append access.

`App` says what the application may do besides writing states one after the
other; each run names it, so a reader sees under which use a property holds.

### StateArchive

Four actions: begin, end, restart, fail. `StateLog` is mapped to it by the times
of the records in `dmap \o tbuf`. Every step within a restart or a close, and
every reopening, has to be a step of it or nothing.

### NonState

`files` is the disk: each file's units, and the directory in which it ends once it
is committed. `fam` is the part of `Mili_family` that the calls use: the directories
in memory, the parameter table (`names`: for each name the place of the entry a
search finds first, or `Nowhere`), the formats' states, `commit_max`,
`non_state_ready`, and the open file with its position and `next_free_byte`
(`cur_index` is 0 when no file is open, so files count from 1). The character
header is the first unit of the first file. A unit holds the number of the
write it came from, so a property can say which write a reader would find.

The C functions here call each other many times within one call of the
application, so each is an operator from a workspace to a workspace, in the
order of the code: `PrepForNewData`, `FileOpen`, `FileClose`, `CommitNonState`
(with `CommitSvars`, `CommitSrecs` and `CommitDir`), `AddEntry`, `WriteNew`,
`Rewrite`. An action is one call of the application: it composes them.
`commit_non_state` and `non_state_file_close` call each other; where the inner call
would find the very state of the outer one the workspace's `ok` turns FALSE and
the process ends in `"overflow"`.

`App` here names what an application may do beyond defining everything and then
flushing: `late_format`, `open_format`, `empty_format`, `suffix`, and `crash`. The
first four are legal calls; `late_format` is finding 2, and the others are told after the findings.

stdio's buffers have no place of their own in this module: a file is readable
only once its directory, its last write, is out, and a rewrite in a committed file
is followed by an `fclose` or an `fseek` in the same call. So a crash leaves
either a file that ends in its directory or one that `load_directories` refuses.

### Families

`fam_list` and `fam_qty` are each process's table of handles. A slot has the family's
non-state file (`cur_file`: none, a new one, or one that was committed and is still open) and the
descriptor of the lock file. The file system is what the locks depend on: `wlock` is the inode that has the
lock file's name, `owner` who has byte 0 of each inode locked, `namer` who has bytes 1 to 255 (the
name of the last complete non-state file), and `files` whether the family's non-state files are
gone, complete, or one of them has no directory yet (`partial`).
An `mc_open` is the steps `Open` (`set_defaults`, and the decision of `parse_control_string` to
create the family, which comes before any lock), `TestOpen`, `TestByte`
(`test_write_lock`), `LockOpen`, `LockByte` (`create_write_lock`), and then `CreateFamily`, `Load`
or, of a family that somebody writes, `LoadActive`;
between any two another process runs, or this one ends. `Write` puts data into a new
non-state file, `Flush` and `Close` commit it, which needs the name bytes. `mc_delete_family` is `DeleteFamily`,
`DeleteTest` (the look for a lock) and `DeleteFiles`.

Opening an active family never succeeds (finding 4), so no handle of one is ever there and
`update_active_family`, which the queries call for such a handle, has nothing to do; it is not modelled.
`App` names the uses that break the lock in this code; `Families_Locks` has none of them.

### Mesh

`meshes` is `umesh_data`: each mesh's table of classes, each with its blocks and the
count of its objects. `files` holds the mesh's entries of the non-state files.
A call that defines objects is `Define` (the checks, and the entry it will
make), one `AddBlock` for each block of ids (`add_geom`), and `Defines` (the entry
and its data) or `RefuseBlock`; `init_meshes` after `Reopen` takes the entries one after
the other through the same `AddBlock`. The walk along a class's blocks
(`insert_range`) is `Place`, the four ways it ends `InsertBlock`. `UpdateNodes` is
`update_nodes_def`, where coordinates are given again. `Read` is what a reader does
to the file that is open and not committed; what it gets is `ReadObject` and
`ReadSurface`, in the property. The datum of a surface is its number of facets, for its
connectivities never get to the file: `conn_words` is 0 for surfaces (`ConnWords`), and what `mc_load_surface` makes
of the words behind the definition is `SurfaceRead`, which `SurfacesLoaded` compares with what was given (finding 13). The operators after the actions (`ClassInfo`, `ClassQty`,
`ElemQtyInDef`, `NodeBlockSize`, `ElemConnClassNames` and the others) are what the queries of those
names answer. `QueriesCurrent` has three parts: the classes a query keeps for the next (`cached`)
are the mesh's (`ClassesCurrent`), between calls the answers are what the entries define
(`AnswersRight`), and elements are counted right (`CountsRight`). The search for the definition of an index
(`NthEntry`) is modelled without the position that `get_elem_qty_in_def` and `get_node_block_size` keep
in statics: they compare the family with `last_fam`, which is not static (`mesh_u.c:3353`),
so each call starts anew.

### Records and Results

`Records` has no state: `AtomQty`, `SetMetrics`, `Translate`, `MapSubset` and
`Distribute` are the functions of `srec.c` of those names, and `AtomPaths` and `RefAtoms`
the reference, which lists the atoms of a variable by index and component.
In `Results` a record is its words and an atom carries the write it came from.
`WrtSubrec` and `RewriteSubrec` put lumps where `LumpPlace` says; `ReadResults` is a
call of `mc_read_results`, whose effect is on the ring of buffers (`queue`) and on
what the handle knows of the state map; what it returns is `Rval` and `Results`. The
property compares it with the meaning of each request. `MrGetResult` is `mc_mr_get_result`, a
call of `mc_read_results` for each subrecord of a class that has the variable;
`GetResult` is the array it puts together. `times` is what the state map says of the states'
times, `StateOfTime`, `SeriesTimes` and their like the answers of `mc_query_family`. `srec` is chosen
at the start and does not change: what a format goes through is in `NonState`.

### Params and Labels

`Params` has the parameters of a family, `log`, in the order they were entered, and the fields
`ti_*` and `ti_saved_*` that describe a class (`ti_class`, `ti_saved`). A scalar is written over the one of its
name, a string if it fits where the old one is, and an array is entered beside the old ones
(`WriteScalar`, `WriteString`, `WriteArray`); `MakeVarName` puts the class into a name. `DefTIClass`,
`UndefTIClass`, `SaveTIClass`, `RestoreTIClass`, `EnableTI`, `WriteParam`, `SetGlobalClassCount` and
`TIInitMetadata` are a call each. The rest is what can be read back: values (`ReadScalar`, `ReadString`,
`ReadParamArray`, which takes the newest array, and `TIReadArray`, which takes all of them), lists of names
(`ParamList`, `AppParameterNames`), sizes (`ParamAttributes`, `DataLen`, `ParamArrayLen`), and what a name
says (`MetadataFromName`). The names of a directory are the same after a reopening (`NonState` has that), so here
a reopening changes the session and the description.

A label is a number the application has for an object, kept in arrays of parameters
whose names carry the class, the mesh and a number that counts the class's
definitions. `Labels` adds `label_class_list`
and `global_id_class_list`, the two lists from which the numbers come and which no
file keeps. `DefLabels`, `DefGlobals`,
`DefConnAndLabels`, `DefConnArbAll`, `DefConnSeqAll` and `DefNodeLabels` are a call each, `Reopen`
forgets the lists. What a reader gets is `LoadConnLabels`, `GetGlobalsAndLocals` and
`LoadNodeLabels`; the wildcard search goes through buckets whose order depends on the
hash, so the properties ask for the answer in every order. These calls describe a class of their
own for a while, in the one place there is to save the application's, which is why the two modules are
checked together: `ParamsFound` says that an application finds its own parameters under the names it
made although it labelled in between, `LabelsRead` that its labels are all read, each with its
element, and `GlobalsFound` that local counts and global ids are right.

### Formats

`fam` has the I/O stores (`c_ios`, `i_ios`: lists of buffers with their output mark and
invalid ranges), the table of variables and the formats; `files` is the chunks that
commits wrote and the entries that find them. An item of a store is a field of a
definition with the variable it belongs to, so a reader that takes the wrong number of
items gets what is no definition. `CallDefSvars`, `CallDefListSvar` (vectors and vector
arrays), `CallDefArrSvar`, `CallOpenSrec`, `CallDefSubrec`, `CallCloseSrec` are a call each with all its
refusals, `CallDefSubrecFrom` defines a subrecord as another family's is described. `Content` is
what all queries say of a family, and what must be the same after a reopening; `Flush`, `Close` and `Reopen` write and read. `App` names what the run leaves out, see below.

### Combine and Combiner

`Combine` has no state. A partition is what the processors have: classes with labels
and objects, the subrecords of one format, parameters. From it come the label maps
(`LoadTiLabels`, `FilterCount`), the combined mesh (`CopyGeometry`), the combined format
(`CombineSrecs`) and, for each processor, the words it reads (`ReadStateData`) and where
they go (`MergeMoves`, which is `merge_state_data` as a list of moves). The reference is
`Promises`: for each variable of each object, where a reader of the combined family looks,
and what it should find.

`Combiner` is `main` of `driver.c`. Its environment is the run: `Write` adds a state to one
processor's family, `Finish` ends the run. The combiner's steps are the openings, one
processor at a time (`OpenInput`, `GetNextState`, `Reopen`: the run goes on between two),
`Define` or `AppendTo`, the decisions of the waiting loop (`DecideWaiting`, `Timeout`, `EndOfRun`,
`DecideFinal`), `Merge` for one processor and `WriteState`. `Kill` ends it anywhere with
some of the states it wrote; `Start` starts another. A state's data is its number here: `buffer`
says which state a processor's buffer is of, so stale data shows.

The modules meet at their data. The size of a record, which `StateLog` takes as given, is
`RecordSize` of `Results`; the entries that `NonState` keeps in files are those that
`Mesh` reads again; whether a second writer can be there at all is in `Families`, and the
other modules assume what `OneWriter` says.

## 3. What TLC checks

| run | instance | result |
|---|---|---|
| `StateLog_AFile` | map in the A-file; 2 subrecords per state, 3 states per file, 7 states begun; restarts, unfinished states, crashes between calls | six properties hold |
| `StateLog_TFile` | map in the buffered T-file; limits 1 and 2 and changes between them, 4 states; crashes inside calls, partitions, rewrites | four properties hold |
| `StateLog_Overwrite` | partitions, limit 3 | `StatesIntact` fails: finding 1 |
| `NonState_Core` | four parameters of three kinds with values of one or two units, two formats, four files, six writes; crashes | six properties hold |
| `NonState_LateFormat` | a format closed with no uncommitted file open | `FormatsSaved` fails: finding 2 |
| `Mesh_Blocks` | one mesh and one class of any superclass; ids up to 4, three definitions by ranges and lists, refused or not; three files, closing and opening | four properties hold; what `QueriesCurrent` says of more than one class is in its proof |
| `Mesh_Update` | coordinates given again for a range that no one definition contains | `DataLoaded` fails: finding 3 |
| `Families_Locks` | two processes, two handles each, three lock files; processes end at any step | five invariants hold |
| `Labels_Read` | three applications: one labels three classes, two of one name, and nodes, with every call, in parts, interleaved and in up to three sessions; one writes parameters of every kind, again and of another type or length, and the machine's description; one describes classes, saves and restores them while it labels | four properties hold |
| `Results_Read` | three formats of a result-ordered and an object-ordered subrecord each, one of a surface, all four kinds of variables, three widths; fourteen lists of requests and results by class; two states, one rewrite or restart, rings of up to two buffers at two handles | three invariants hold |
| `Formats_Reload` | buffers of twelve units; scalars, vectors of either component order, a vector array, an array; subrecords of both orders, by blocks and lists, global ones and a surface, defined or copied; three calls, two formats, any number of commits and sessions | four properties hold |
| `Combiner_Run` | four partitions for two or three processors; four states, three combiners, waiting or not, with any stop, killed or timed out | three invariants and `CombinesAll` hold |

These are the runs of `PROJECT.json`. Each of the following configurations adds one more use that the code gets
wrong, and TLC finds the counterexample in seconds to minutes (`tlc -config X.cfg M`). They are kept beside the runs because a change that
mends the code should make them pass, and then their use belongs into the run of that module:

| configuration | module | use | violated | finding | the source says |
|---|---|---|---|---|---|
| `Families_NameLock` | `Families` | as `Families_Locks` | `NameLockPlaced` | 4 | `mili.c:2650` "Shouldn't ever get here - notify user." |
| `Families_AppendCreates` | `Families` | as `Families_Locks` | `AppendKeeps` | 5 | `mili.c:683` "Opened with "append", but must be created." |
| `Families_CloseRace` | `Families` | a close while another process is between opening and locking the lock file | `SoleWriter` | 6 | `mili.c:1170` "Only one process can have write access on a family." |
| `Families_DeleteRace` | `Families` | deleting while another process opens | `FilesStay` | 7 | `mili.c:1949` "Another process has a write lock in place - don't delete." |
| `Families_FailInHole` | `Families` | an opening that fails in a slot used again | `IdsStayValid` | 8 | `mili.c:2836` "Verify that a family identifier is valid" |
| `StateLog_RestartOpen` | `MCStateLog` | a restart over a state that was not ended | `MapIsMemory` | 9 | `srec.c:3215` "If we failed to close the previous state do so now." |
| `NonState_OpenFormat` | `NonState` | a commit while a format is open | `FormatsSaved` | 10 | `srec.c:1213` "Write state record formats to disk." |
| `NonState_EmptyFile` | `NonState` | a format closed again after its commit | `DirectoriesWritten` | 11 | `direc.c:170` "Write a non-state file's directory to the file" |
| `Mesh_LateClass` | `MCMesh` | a class defined after a query | `QueriesCurrent` | 12 | `mesh_u.c:3622` "Get the name(s) and number of objects in a class" |
| `Mesh_Surfaces` | `MCMesh` | as `Mesh_Blocks`, without refused lists | `SurfacesLoaded` | 13 | `mesh_u.c:2904` "Read connectivities for all nodes of a surface class." |
| `Mesh_SurfaceFiles` | `MCMesh` | surfaces of a class in two files | `DataLoaded` | 14 | the same |
| `Results_MixedLengths` | `MCResults` | two parts of a variable in one read | `ReadsBack` | 15 | `srec.c:2442` "Get appropriate function to move data to output buffer." |
| `Results_LateComponent` | `MCResults` | a later component of a cell of a vector array | `ReadsBack` | 16 | `srec.c:2254` "Get the size and offset." |
| `Results_Restart` | `MCResults` | a state read, pruned by a restart and written anew | `OwnBuffersCurrent` | 17 | `srec.c:2564` "Found requested state in memory." |
| `Labels_SingleNode` | `MCLabels` | one node label | `NodeBlocksExact` | 18 | `mesh_u.c:2708` "Read node labels for all nodes of a particular class." |
| `Labels_GlobalTurns` | `MCLabels` | global ids of two classes in turns, in one session | `GlobalsKept` | 19 | `mesh_u.c:1321` "Define element global_ids" |
| `Formats_InvalidList` | `MCFormats` | a list refused for a component of another type | `FormatsReload` | 20 | `io_mem.c:515` "Tag previously allocated IO memory as invalid for output." |
| `Formats_SurfaceFirst` | `MCFormats` | a surface subrecord before another | `FormatsReload` | 21 | `srec.c:1332` "Copy the surface variable flags" |
| `Combiner_Behind` | `MCCombiner` | a processor that is behind the first | `StatesCombined` | 22 | `driver.c:1635` "cycle over all the file until they are at least at the new state" |
| `Combiner_Parts` | `MCCombiner` | a processor's part of a class in a subrecord that has the whole of it | `MeshCombined` | 23 | `combine_db.c:1781` "There is a subset of the select object in this subrecord" |

**Bounds.** `MaxStates` counts `mc_new_state` calls over all sessions. Seven
states with three per file fill two files and begin a third, and leave states to
write after a restart; most calls that go wrong do so at the second file or the
first record after a cut. The T-file instance needs fewer states, for its
questions are about one buffered record, but every step within a call can be the
last. Its limits are 1 and 2 because from 3 on a partition meets finding 1,
and the limit of the A-file run is 3 so that the record placed after a restart
is neither the first nor the second of its file.

For `NonState`, `MaxWrites` bounds the writes of a behaviour, the two of
`create_family` included, and `MaxFiles` the files. Four files and six writes are
enough for a name that has entries in two files, a rewrite in a file before the last
while a later one is open and uncommitted, a close, a reopening and a write after
it. Values of two sizes make a rewrite shorter than the space it has.

In `Mesh_Blocks` a class has four ids and `MaxDefs` 3: enough for a block that is in front
of another, behind it, between two (a gap closed), overlapping one or several, and for
a list whose second block is refused. Each superclass has its own path, and classes share
nothing but the files, so one class is enough. In `Families_Locks` two processes
show all that lock files do to each other but a third process's view, which `OneWriter`
covers by what it says of the inode. Three lock files are as many as a family that is closed and reopened
twice has, and each opening in progress counts for one, so the bound never stops a call in its middle. `Results_Read` needs two states for a ring
that has the wrong one, and two buffers for a ring that turns. `Labels_Read` has two meshes with a class of one name and a third class and lists of two classes
(`MAX_LABEL_CLASSES`); the application that labels makes three calls (`calls`) in up to three `sessions`: what goes wrong goes
wrong at the second definition of a class, or the first of another after it. The two others make four calls in two
sessions: enough to describe a class, save it, label, restore it and write, and to write a name three times
with a reopening between. Of the two machines the strings of one fit over those of the first, and the
other's system name does not.

In `Formats_Reload` a buffer of twelve units (three definitions fill it, and one vector array is
longer) makes definitions continue in another buffer; three calls are enough for a list, the list
that shares its components, and a refusal between or after them, in one commit or in three. In
`Combiner_Run` four states let a combiner fall behind, be killed with two states written and
another append; a third combiner can append to what the second appended. The partitions have
shared nodes, labels out of order and in several definitions, a class
without labels, subrecords of parts of a class and of whole classes, a processor without a
subrecord, global classes, values of both widths and an array. Classes are independent of
each other but for the nodes, so one class of elements is enough.

**Deadlock** is not checked where the system may stop: in the T-file run a family
that died before its first state cannot be reopened (an empty T-file makes
`load_static_maps` fail), and the small violation runs end at their bound; in `NonState`
a crash before the first commit leaves a family that cannot be opened; the others
reach their bounds, as an application may stop calling and a run ends.

**Liveness.** `CombinesAll` in `Combiner`: a combiner that is
neither killed nor out of patience ends with all states combined. It assumes that the combiner
goes on (weak fairness of `Step`: it waits by sleeping and looking again), and nothing of the
run, whose end is the property's condition. Elsewhere, `Families` included, nothing is fair: the writer is driven by its
application, and no step of those modules is one the library must take by
itself. That a commit ends, which would be liveness of single C functions, is the
invariant `CommitReturns`.

### Findings

1. *Overwritten states.* `prep_for_new_data` takes the previous record from
   `state_map[file_st_qty - 1]`: a count within the file used as an index of the
   family. After `mc_partition_state_data` with room left in the file the next
   records are placed after some other file's record. The built library shows it
   too: with a limit of 3, state 4 overwrites state 3.
2. *A lost format, or no end.* A format closed after `mc_flush`, or in a family
   opened again, waits for a commit that `mc_close` skips because no file is
   open; if a committed file is open the commit recurses until the stack overflows.
   Seen with the built library.
3. *Coordinates not written.* `mc_def_nodes` for nodes that are there already returns
   OK and writes nothing when the range is not within one definition. The built library
   shows it too.
4. *A reader stops the writer.* `load_directories` asks for `M_MAX_NAME_LEN - 1` bytes of the lock
   file and wants 256, so a family that is being written cannot be opened; and it returns
   with the name bytes locked. The writer's next `mc_flush` or `mc_close` fails with
   `LOCK_NAME_FAILED` and leaves the family open; a second `mc_close` succeeds. Seen with the built library.
5. *Append deletes.* Whether a family opened with `a` is to be created is decided before any lock is tried.
   If another process creates, writes and closes it in between, its files are deleted.
6. *Two writers.* `mc_close` unlinks the lock file while another process has opened but not locked it, and
   the next finds no lock.
7. *Deleted under the writer.* `mc_delete_family` looks for a lock, and deletes later.
8. *The wrong handle freed.* A failing `mc_open` frees the family at `fam_qty` in place of its own.
9. *A state listed twice.* A restart that prunes an unfinished state leaves `state_closed` at 0, and
   the next `mc_new_state` puts the state before it into the map a second time. Seen with the built library.
10. *Formats passed over.* `commit_srecs` moves `commit_max` past a format that is still open; the
    formats after it are loaded under other numbers. The built library crashes when it opens such a family.
11. *A file for nothing.* A format closed again after its commit makes `mc_flush` open a file and write
    no directory to it, so the family cannot be opened. Seen with the built library.
12. *Late classes.* Queries keep the classes they found first. Seen with the built library.
13. *Surfaces without connectivities.* `conn_words` is 0 for surfaces, so the words of the facets are not
    written, and `mc_load_surface` returns what follows in the file. Seen with the built library.
14. *Surfaces in two files.* `mc_load_surface` counts from 0 in each file.
15. *Lengths mixed.* `get_ro_svars` moves the data of all requests as the length of the first one says.
    Seen with the built library, as is the next.
16. *Late components.* In a vector array the offset of a component is multiplied by its size.
17. *Buffers after a restart.* The writer's own handle reads a state it has read before from its buffer,
    though a restart has taken it back and another was written in its place. Seen with the built library.
18. *A single node label* is compared with the one before it, and given back as two blocks.
19. *Global ids in turns.* `mc_def_global_ids` numbers a class's parameters by the class entered last.
20. *An invalid range written.* Of two `M_FLOAT4` vectors with a shared component the second is refused, for
    the external `M_FLOAT` is compared with `M_FLOAT4` (`svar.c:424`, `706`); what it had put into the store is
    written with the rest (`io_mem.c:728`) and the family may not open any more.
21. *Flags of surfaces.* `commit_srecs` writes every surface with the last subrecord's `svar_atoms`, and
    `mc_get_subrec_def` never copies the flags.
22. *A processor behind.* With `-wait`, `get_next_state` opens the other processors' families again only
    when the first has grown, so a processor that was behind at the start is read as it was, and a
    state gets the data of an earlier one. Seen with the built combiner.
23. *Parts taken for the whole.* A processor's values of part of a class go to the places of its first objects when all
    processors' subrecords together have the whole class.

Findings 1 to 3 are runs of `PROJECT.json`; those of 4 to 23 differ from a passing run in the one use named in their
cfg's `App`, or in the property (4, 5, 13, 18), the classes (19) or the partition (23). The hazards of `PROJECT.json` say
which of them are only caught there.

Other privileges of `App`, which no run gives, are uses whose outcome is wrong or undefined in the code,
for which the repository promises nothing that a run could state, and which the runs leave out. In
`StateLog`, `rewrite_any`: a state of an earlier file is rewritten in the file that is open; `crash_inside`
with the map in the A-file: `truncate_family` cuts the header off before it writes it again, and a
process that dies in between leaves a family that cannot be opened. In
`NonState`, `empty_format`, and `suffix`: `write_header` does not seek, so `mc_suffix_width` writes the header
elsewhere. In `Families`, `own_read`: a writer that opens its family for reading as well loses
its lock at `close` of the second descriptor; `two_writers`.
In `Results`, `stale_rewrite`: a state is rewritten that another handle has
in its buffers, of which nothing tells that handle; `mr_arrays`: `mc_mr_get_result_len` multiplies the size of an
array once more for each further subrecord of the class that has it, takes a vector
within a vector array for one value, and counts one object for a surface, so
`mc_mr_get_result` puts values under wrong ids. `mc_mr_get_subrecs` fills the subrecords of a second format over those
of the first (`mr_funcs.c:185`), so it is of use for families with one format, as those
of the run have.

In `Formats`, `redeclare`: a vector declared again with another type returns OK and stays as it was;
`invalid_list`: as finding 20, with a list refused for another reason; `bad_flag`: a surface subrecord refused for a flag leaves its name in the table; `surface_copy`: a subrecord of a surface that is copied is given a flag for
each variable, and `mc_def_subrec_from_subrec` reads one for each atom of the first; `late_format`, `open_format` and `empty_format` as in `NonState`.

In `Combiner`, `two_new`: exactly two new states are "Nothing to append"; `wait_stop`: `-wait` with `-stop`
reads the times from an empty array; both seen with the built combiner. `early`: combining without
waiting while the run writes takes half a state, and the last processor's count decides how many;
`empty_append`: a waiting combiner that appends to a family without states stops at the states of that
moment. `-wait` always leaves the last state to another combiner.
In `Combine` the partitions avoid what the code gets wrong: subrecords that have parts of a processor's objects
while all processors' subrecords together have the whole class (finding 23), arrays in several
subrecords (`define_variable` fails at the second and the subrecords behind are
lost), object-ordered arrays beside other variables, vectors of doubles behind others in object
order, global vectors in object order and global arrays, two subrecords whose name is "sand", variables that
only a later processor has, and global ids.

In `Labels` the model shows, and the properties allow for, what follows: global ids and local ids
come back in each other's place; labels of classes of one name in two meshes are
found together, for the mesh is not asked for; at `MAX_LABEL_CLASSES` classes even those already in
the list are refused; global ids of a class that is defined again after a reopening are lost, as are those
of classes that take turns (finding 19). `LabelsRead` and `GlobalsFound` ask for what is not lost.

In `Params` likewise: `mc_ti_savedef_class` has one place to save to and the calls on labels use it, so what
an application saved is lost after one of them; `mc_load_conn_labels` and `mc_load_node_labels` leave no
class described when they fail, and the model lets them be called where they do not; names
of a later file are listed as one kind or the other by an index into the first file's (`mili.c:4041`), so
lists are only asked for names of the first; `mc_ti_get_data_len` counts all that follows in a bucket and takes
every array for one of order 3, so sizes are only asked for those; a flag in a name is read as true
when `TR` occurs anywhere behind it, so also for trusses and triangles, and a pyramid's or wedge's name is refused
(`mesh_u.c:142`). In the present directory version `mc_ti_init_metadata` writes over what `mc_init_metadata` wrote: when a
string does not fit it stops, with those before it of the new machine and those behind of the old; and
`mc_ti_check_arch`, there "to make sure that TI files were generated on same arch" (`mili.c:3983`), compares a
string with itself and refuses when they are equal, so it always refuses (`MetadataRead` states it).

## 4. What is proved

For all formats, limits, modes and numbers of states, and every use of the
library in which a restart follows an ended state (`RestartsClosed`; without it
a state is listed twice: finding 9):

| theorem | property |
|---|---|
| `TypeCorrect` | `TypeOK` |
| `MapExact` | `MapIsMemory` |
| `CountsCorrect` | `CountsAgree` |
| `PreviousIsKnown` | `PreviousKnown` |
| `Refinement` | `KeepsArchive` |

They include partitions, changed limits, rewrites of any state, and crashes
inside calls, in both modes.

None of the properties is inductive. `IInv` in `StateLogProofs` adds what a call
needs to find when it starts in the middle of things:

* `MapInv` says how far the map on disk has come in each phase: a prefix of the
  one in memory, of length `state_qty`, `state_qty - 1` or `target`.
* `OrderInv`: states are in the order of their files, and a record is at offset
  0 exactly when it is the first of a file. `TruncFile` decides by the offset alone
  whether to unlink the target's file; the invariant is why that is right.
* `FileInv`: below a file that is there and that the map can name there is no
  gap, so a crash within a restart leaves a map whose last file, if it is
  there, has all the others before it.
* `CountInv`: `file_map` counts what `state_map` lists.

`TypeOK` itself needs all of them: `mc_end_state` and `truncate_family` take sizes
and counts from files and records that must be there. The proof has one lemma
per action; those of `TruncFile` and `TruncEnd` carry the argument about
the cut, `NewPlace` the one about where a record goes. The refinement has one
lemma per kind of step: `mc_new_state` is Begin, `mc_end_state` End, the cut of
the map Restart, a close End or nothing, a crash Fail.

The second part of `StateLogProofs` proves what became of the data, for the uses of the library in which
the code keeps it:

| theorem | property | if |
|---|---|---|
| `FilesAreFilled` | `FilesFilled` | `FilledUse`, no file reaches the library's limit |
| `ListedIsWritten` | `MappedIsWritten` | `PlainUse`, no file reaches the library's limit |
| `StatesStay` | `StatesIntact` | `PlainUse`, no file reaches the library's limit |
| `ListedStays` | `PublishedIsKept` | `PlainUse`, no file reaches the library's limit |
| `CanReopen` | `Reopenable` | `ReopenUse` |

* `FilledUse`: states are ended before a restart, the limit on states per file is given once,
  and there are neither partitions nor a byte limit (the default). Crashes within calls are included.
* `PlainUse`: besides, records have one size, a process dies between calls, and only
  the last state is rewritten. Each condition is one the code needs. `prep_for_new_data` places a record
  behind `state_map[file_st_qty - 1]`, which is a record of the *first* file: that is the right place
  only when files are filled to one limit with records of one size (finding 1 is what happens
  otherwise). A crash within a restart leaves a map that lists records of files that are gone.
* `ReopenUse`: states are ended before a restart, a process dies between calls, the map is in the A-file.
  A T-file that never got a record has no trailer, so a family that crashes early cannot be opened again.
* The library's limit is stated as `[]~HardLimit`, not as a bound on the number of states: when a file
  reaches `ABSOLUTE_MAX_FILE_SIZE` with no byte limit, `test_open_next` changes the limit on states itself.

Again none is inductive. `FillInv` says that state `i` is in a file `f` with `limit * f < i <= limit * f + limit`, and that a
new file is due only when the last is full, also within a restart and for the map left on disk.
`PlaceInv` derives offsets from it: state `i` is at `(i - 1 - limit * f)` records of its file. With both,
`NewStatePlaced` shows that the wrong file's record has the right offset, and `Apart` that two
records of a file do not meet. `DataInv` says where the data is: on disk for ended states between calls, on disk
for the states a restart keeps, and for the others on disk or in stdio's buffer, which holds one write back
(`HeldInv`; `FlushHolds` is the lemma about it). What remains is one lemma per action. A state reaches the map
only after its file was flushed (`EndedInv`), and that is why `ListedIsWritten` survives the loss
of stdio's buffer. `LoadInv` carries `CanReopen`. TLC checked the four invariants on
instances of both modes, with limits 0 and 2, before they were proved.

`NonStateProofs` proves about `NonState`, for every set of names and sizes and every
bound:

| theorem | what it says |
|---|---|
| `CommitsReturn` | `CommitReturns`: `commit_non_state` and `non_state_file_close` do not call each other for ever |
| `ClosedCommits` | after `mc_close` each file is committed and holds the directory memory had for it, and no variable is left in memory |
| `FormatsAreSaved` | `FormatsSaved`: after `mc_close` each closed format is in the files, once, and in every state those in the files have the numbers they will be loaded under |

All assume that `App` has no `late_format`: formats are closed, and variables are
defined, while an uncommitted file is open (finding 2 is what happens without it).
The first two include formats open across other calls, empty formats, suffix changes
and crashes; `FormatsAreSaved` those but the first two (`TimelyUse`): TLC finds `FormatsSaved` violated
with `open_format`, and with `empty_format`, as it does with `late_format`.

`CommitReturns` is not inductive: whether a commit ends depends on what earlier calls
left in memory. `Good` says what they leave: either the last file is the open one,
uncommitted, and has something in its directory (`Busy`: so `commit_dir` will set its
commit count and the inner call finds nothing to do), or every file is committed
and neither variables nor closed formats wait (`Settled`: so closing a file has no
reason to commit). `Shaped` adds that files and directories match one to one and
that only the last can be uncommitted, which is what makes a new file, and the
committed ones a reopening finds, `Good` again. The lemmas go from the steps of a call
outwards, then one per action.

Nor is `FormatsSaved`: it says nothing of what a commit will find in memory. `Formatted` adds that: the formats in the
files are numbered 1..`commit_max` in the order of their places (`FormatsNumbered`); those up to `commit_max` are written,
those behind it are not, and one of these that is closed has set `non_state_ready` (`FormatStatuses`); a file at work has
no format, on disk or in memory (`NoneYet`). A call starts with no format open, so what a commit finds
fresh is all that is behind `commit_max`, and its numbers go on from there (`FreshFrom`, `NumberedOn`). A format
closed a second time changes none of this. `NumberedLoads` counts: of
formats numbered 1..`m` in the order of their places the `k`-th has number `k`, and there are `m`, which is what a reopening
sets `commit_max` to. TLC checked `FormatInv` on the instance of `NonState_Core` before it was proved.

`NonStateDataProofs` goes on from there to the data, again for every set of names, sizes
and bounds:

| theorem | property of the runs | what it says |
|---|---|---|
| `TypeCorrect` | `TypeOK` | places are entries, entries lie within their files, the stream within the open file |
| `LastValueFound` | `LastValueRead` | every entry names what was last written for it, and a read finds the value last given to its name, also after closing, dying and opening again |
| `ClosedLoads` | `ClosedIsLoadable` | after `mc_close` every file ends in the directory memory had for it |
| `CommittedStays` | `CommittedIsFinal` | no step changes the directory or the length of a committed file |

They assume `PlainUse`: no `late_format`, and no `suffix` (`mc_suffix_width` is called
while the A-file is not open). TLC finds `LastValueRead`, `ClosedIsLoadable` and
`CommittedIsFinal` violated with `suffix`, and `ClosedIsLoadable` with `late_format`; the other
properties held with `late_format` on the small instance, but their proof rests on `Good`,
which does not hold then. Formats open across calls, empty formats and crashes are included.

Again the properties are not inductive. `Layout` says of one file that its entries are in
order, do not meet, end before its directory, and that the units of each are the history's; it is
preserved by an append at the end and by a rewrite that fits (`LayoutGrows`, `LayoutRewritten`).
`Held` adds the stream: `next_free_byte` of the open file is its length, the
reason why `add_dir_entry` may take the offset before the data is written, and why a
seek to an entry is never refused. `Found` says that the table has the *last* entry
of each name, in the order of files and entries, and `Valued` that this entry's data is
the value given last: so the table `load_directories` builds is the one the writer had (`TableLoaded`), although
only closed or crashed families are loaded and the writer's table grows through other
calls. `Extends` says what a step leaves as it was; every step from `AddEntry` to
`CommitNonState`, `FileClose` and `FileOpen` is one, a rewrite is not, and `Final` is what both
keep. TLC checked the invariant (`DataInv`) on the instance of `NonState_Core`, with one write less,
before it was proved.

`FamiliesProofs` proves about `Families`, for any number of processes, handles and lock
files, with processes that end at any step:

| theorem | property | if `App` has no |
|---|---|---|
| `TypeCorrect` | `TypeOK` | `fail_in_hole` |
| `HandlesValid` | `IdsStayValid` | `fail_in_hole` |
| `OneWriterHolds` | `OneWriter` | `fail_in_hole`, `own_read`, `two_writers`, `close_race` |
| `UnfinishedIsMarkedHolds` | `UnfinishedIsMarked` | those |
| `FilesStayHolds` | `FilesStay` | those, nor `delete_race` |

That is what the write lock is worth: each use left out is one that breaks it, and findings 6 to 8 show
three of them. The invariant has five parts. `Table` says which slot a call works on: a family that is opened
for writing is the last of a table without holes, which is why the error path of
`mc_open`, which takes the last slot, takes the right one. `Disk` says that the lock file is one of those made,
and that there is room for one by each call that may yet make it. `Locking` says that whoever is
about to lock has opened the inode that has the name *now*, so that the lock it gets is
the one the next process will find, and that it has no second family open for writing.
`Marked` says that while somebody has the family open with nothing to commit no file lacks its
directory: so an `mc_close`, which unlinks the lock file, leaves every file complete, and one whose commit
fails leaves the lock file. `DeletesAlone` says that between the look for a lock
and the deletion nobody comes to write. The lemmas go from tables (`Entering`, `Clearing`,
`Popping`) to rows of one process (`RowOpen` to `RowCall`), and then one per action.

`MeshProofs` proves `BlocksExact` of `Mesh` (`BlocksCorrect`), for any number of meshes, classes and
ids, any finite set of names and any `App`, the uses that lose data included. The property says that
no id is defined twice, and that the blocks in memory are the ids of the files; neither is
inductive, for a call adds its blocks one at a time before its entry is written, and `init_meshes`
reads the entries one at a time into an empty table. So the invariant is about what is *known*: the
entries up to the one `init_meshes` has come to, or all of them. `FilesInv` is about
the files alone: meshes are numbered in their order, a class is defined before its objects,
surfaces are numbered by their entries, no id is twice in a class. `MemoryInv`: each table holds
what the known entries say, and the blocks of a class are the ids of the known entries, those of refused calls
(`stranded`) and `Pending`, the blocks added for the entry in progress. `CallInv`: the ids of a call that are not
added yet meet no block, and at a refusal all earlier ones are added. The lemmas about blocks come first: where the
walk stops (`Walk`), when it refuses (`Refusal`), and that each of the four insertions keeps the
list in order and adds just the range (`Inserted`). Then what an entry that becomes known changes (`AppendGrows` for
a call, `LoadGrows` for `init_meshes`: one argument for both), and one lemma per action. TLC checked
the invariant on the instance of `Mesh_Blocks` before it was proved.

`MeshDataProofs` goes on to types, data and answers:

| theorem | property | if `App` has no |
|---|---|---|
| `TypeCorrect` | `TypeOK` | (any) |
| `DataKept` | `DataLoaded` | `span_update`, `surface_files` |
| `CountsCorrect` | `CountsRight` | (any) |
| `ClassesCorrect` | `ClassesCurrent` | `late_class` |
| `QueriesCorrect` | `QueriesCurrent` | `late_class`, and `Lists` has no empty list |

The first two uses left out lose data: finding 3 is the first, and with the second `mc_load_surface` finds
several surfaces for one index. Refused lists of ids, late classes, and any number of restarts are included.
The datum of a surface is its number of facets here, the only thing of it that is in the file.
`DataInv` says where the data is. `ObjectData`: the data of *every* entry, old or new, is what was last
told of its objects, in the order of its ids, so a rewrite has to change the one entry that has them
(`OverwriteIs` says that the new coordinates come to stand where the old ones were, at `from` from the start of the
definition) and a new entry must not have any id that is in another, which is `IdsOnce` of `MeshProofs`.
`GivenInFiles`: whoever was told OK has an entry. `SurfacesTogether`: the
surfaces of a class are in one file, where the count from the file's first is the surface's id (`SurfacesCount`).
`CallData` carries to the end of a call what its first step looked at: that some definition
contains the nodes it gives again (`UpdateNodes` then has one to write to, and opens it), and that the file at work is
the one with the class's surfaces. `DataFollows` derives the property: the ids of
a class are in one entry each, of the type that the class's superclass has. How a list of blocks
becomes a list of ids (`BlocksToList`, a fold) is `ListIs`, whose proof unfolds the recursion of `FlattenSeq` and
does its induction by hand, with a least counterexample.

The answers need three more invariants. `QueryInv`: nothing is kept of a family that is not open. `LengthInv`: an
entry has a datum for each of its ids, so the length of its data (`MODIFIER2`), which is what the queries read, is
the number of its ids. `NodesKept`: no call about nodes leaves ids behind, since it has
one block. `CountsCorrect` then is a sum over the entries of a class in all
files, which `FoldSet` computes: `Summing` is the recursion it is defined by, `SumOfSizes` says that over disjoint sets it
gives the size of their union, and that the ids of the entries are disjoint is `IdsOnce` again. `Ranked` numbers the definitions
of a class from 1 through all files, so asked for one by one they have the same sum (`ListedSum`). For
classes, `ListOfSet` and `KeepsThem` say that the list of a superclass has each of its classes once, `SpotOf` that a class has one
index in one superclass, and `FirstIsLeast` that its first id is that of its first block. A definition of an empty list
of elements has to be left out: the class would be listed as one that has
elements (`ElemConnClassNames`), and its count is 0. A class defined after a query is one that no index finds.

`CombinerProofs` proves about `Combiner`, for any number of processors, states and combiners:

| theorem | property | if `App` has no |
|---|---|---|
| `TypeCorrect` | `TypeOK` | (any) |
| `StatesInOrder` | `StatesCombined` | `early`, `behind`, `wait_stop`, `empty_append` (`MadeFor`) |

TLC finds `StatesCombined` violated with any one of those four, so the condition is as weak as it can be; `two_new` is
allowed. What has to be known is where a state's data comes from when `merge_state_data` runs, and that is set up by
steps far before it. `GrowthInv`: the state to combine is always the one behind those that are there, also after
a kill or an append. `OpensInv`: outside the loop that opens families again, each processor has as many
states open as the first, and without `-wait` exactly those of the run, which has ended; so a
combiner that waits never reads a state the run is still writing (`Ready`). `TimesInv`: `state_times` has the time of every state up to
`current_state_max`, which never goes beyond what the first family showed, although the array is only taken
again when it is too short. `MergedInv`: the buffer has the state to combine for each processor merged so far.
`AppendIs` is the lemma about `set_timesteps`, `BeginIs` the one about how far a combiner goes.
What the words of a record are (`MeshCombined`) is about the data, and stays with TLC.

`ResultsProofs` proves about `Results`, for any variables, formats and requests, and any number of states,
buffers, rewrites and restarts:

| theorem | property | if `App` has no |
|---|---|---|
| `TypeCorrect` | `TypeOK` | (any) |
| `TimesCorrect` | `TimesFound` | `restart` |
| `BuffersCorrect` | `BuffersCurrent`, a conjunct of `ReadsBack` | `restart`, `stale_rewrite` |

The uses left out are those where one process takes back or rewrites a state that another has
in a buffer or in its map: nothing tells the reader. What is assumed of constants is what
`mc_def_subrec` checks (one type in an object-ordered subrecord, no vector array in a result-ordered
one), what it takes as given (a variable at least, blocks of ids in order), and one variable in a surface's
subrecord. `TypeInv` is the type invariant of the rings as sequences: `NextBuffer` says
that a read takes an unused buffer as long as `new_count` says there is one, and otherwise one
after the cursor, so that the count stays that of the unused ones and a state is never in two buffers.
`TimesInv`: the times of the files are in order, although a restart takes back states and
the application goes on with later times. `KnownInv`: a handle knows only of complete
states, which is what makes its map a prefix of that of the files.

`BuffersInv` is `BuffersCurrent` made inductive: *every* buffer that claims a state, and not only the
first one found, has the words the files have of it, that state is complete, and an unused
buffer is empty. The last is needed because `get_oo_svars` claims a buffer before it reads: where a subrecord has
no words, the buffer keeps what it had. The step that is hard is `mc_rewrite_subrec`: the writer gives up its ring of
one subrecord only, so its rings of all others, and the reader's, must not have been
touched. `OtherWords` says so: the lump is written within the words of its own subrecord (`LumpIs`, from what
`set_metrics` computes), and the subrecords of a record do not meet (`PlacesAre`, from the
sums `mc_def_subrec` places them by). Those sums are folds; `FoldedIs` gives each partial sum from the one before it by unfolding what
`FoldLeft` is defined as, and its induction is done by hand, with a least counterexample. `FormatInv` says that the
records of all states have the length for it.

`Formats`, `Combine`, `Params` and `Labels` have no proofs. Model-checked only: `PublishedIsKept` under
crashes within calls, partitions and changing limits, `MeshCombined` of `Combiner`, the rest of `ReadsBack` of
`Results` (that the atoms come back that a reference means: `AtomPaths` enumerates them by folds over the dimensions),
the properties of `Labels` and `Formats`, and liveness.
No proof assumes fairness.

## 5. What is not modelled, and the plan

Not in `StateLog`: failing system calls, `mc_wrt_stream`, `rebuild_state_tfile`,
`mc_reload_states`, byte limits in a run, formats of different sizes in a run.

Not in `NonState`: failing I/O, TI files, `update_nodes_def`, a string or array
written under the name of a parameter of another kind, the name locks (see `Families`), and bytes that
look like a directory but are not.

In `RestartAtState`, `find_state_index` is what it finds: its loop reads `state_map[state_qty]`, one behind
the last state, before it gives up (`mili_statemap.c:841`), and what it reads there changes nothing.
In `Combiner`, times are equal when they are the same state's; the code takes times that differ by less than 1e-7 for equal
(`is_equal`, `misc.c`), so a run with smaller steps is not modelled. `Combine` assumes that every label's id is
one of the class's objects (`IdsFit`): of another the code gives the loading up and says that all is well (`process_ti.c:350`).

Not in `Params` and `Labels`: directory version 1 with its own files and table for time-independent parameters,
`mc_ti_check_if_data_found` and its kind, the long name of a class, names that are too long,
`mc_mr_get_param_data` (its body is compiled out), failing I/O.

Not in `Families`: `update_active_family` (an active family cannot be opened, finding 4, so no call gets to it),
the name lock around each new state file, which fails as that of `Write` and `Flush` does, the fields of the control string but the mode.
Not in `Records` and `Results`: rings that shrink,
the other functions of `mr_funcs.c`, deeper vector arrays than one level.

Not in `Formats`: formats for several meshes, `mc_set_subrec_check`, stores of TI files.
Not in `Combine` and `Combiner`: the selection of processors and materials, `-start` and the wait for
a restart, surfaces, several meshes or formats, the question whether to overwrite, and limits on the
combined family's files (`StateLog` has those).

Next: `TypeOK` of `Labels` and `Formats`, and `LabelsRead`; then what `FormatsSaved` says,
stated without the fold.

Left out: `makemili`, printing, byte swapping, the Taurus importer, the wrappers and
the JSON parser (pure computation or clients of the library), and the vendored regular
expressions of the Windows build.
