------------------------------ MODULE StateLog ------------------------------
(***************************************************************************)
(* The state-data branch of a Mili family, as its one writer drives it:    *)
(* the numbered state files, the state map kept on disk (the tail of the   *)
(* A-file, or the standalone T-file), and the writer's in-memory picture   *)
(* of both (fields of Mili_family, mili_internal.h).                       *)
(*                                                                         *)
(* One unit of file length stands for 8 bytes, the length of the header    *)
(* (time, srec id) Mili puts before every state.  A subrecord is one unit. *)
(* A file is a sequence of units, each the time of the state that was      *)
(* written there: times are unique, so a unit that holds another state's   *)
(* time is a unit that was lost.                                           *)
(*                                                                         *)
(* What stdio holds back is explicit: sbuf for the open state file (one    *)
(* write at most, for every write follows a seek), tbuf for the T-file,    *)
(* whose handle stays open across calls.  A process that dies loses what   *)
(* stdio had not written; the operating system survives.                   *)
(***************************************************************************)
EXTENDS Integers, Sequences, FiniteSets, Functions

CONSTANTS
    Srecs,                  \* ids of the state record formats
    SrecSize,               \* subrecords in a record of each format
    write_tfile,            \* TRUE: the map is in the T-file; FALSE: in the A-file
    Limits,                 \* values the application gives mc_limit_states
    bytes_per_file_limit,   \* the value given to mc_limit_filesize; 0 is none
    ABSOLUTE_MAX_FILE_SIZE, \* the library's own limit
    App,                    \* what the application and its host may do
    MaxStates               \* bound: mc_new_state calls in a behaviour

(***************************************************************************)
(* What an application may do beyond writing one state after another:      *)
(*   leave_open   start the next state, or close, without mc_end_state     *)
(*   restart      mc_restart_at_state and mc_restart_at_file               *)
(*   restart_open restart while the last state has not been ended          *)
(*   partition    mc_partition_state_data                                  *)
(*   limits       call mc_limit_states again later                         *)
(*   rewrite      mc_rewrite_subrec, on a state in the open state file     *)
(*   rewrite_any  mc_rewrite_subrec, on any state                          *)
(*   crash        the process dies between two calls                       *)
(*   crash_inside the process dies within a restart or a close             *)
(***************************************************************************)
Privileges == {"leave_open", "restart", "restart_open", "partition",
               "limits", "rewrite", "rewrite_any", "crash", "crash_inside"}

ASSUME SrecAssumption == /\ Srecs \subseteq Nat /\ 0 \in Srecs
                         /\ SrecSize \in [Srecs -> Nat]
ASSUME LimitAssumption == /\ Limits \subseteq Nat /\ Limits # {}
                          /\ bytes_per_file_limit \in Nat
                          /\ ABSOLUTE_MAX_FILE_SIZE \in Nat
                          /\ bytes_per_file_limit <= ABSOLUTE_MAX_FILE_SIZE
ASSUME ModeAssumption == /\ write_tfile \in BOOLEAN
                         /\ App \subseteq Privileges
                         /\ MaxStates \in Nat

VARIABLES
    dfile,    \* disk: the state files
    dmap,     \* disk: the state map's records
    dtrailer, \* disk: the map ends in its trailer (A: the header, T: '~')
    dlimit,   \* disk: the "states per file" parameter
    open,               \* a process has the family open for writing
    state_map,          \* State_descriptor *state_map; its length is state_qty
    file_map,           \* State_file_descriptor *file_map: states in each file
    st_file_count,
    file_st_qty,
    cur_st_index,       \* -1: cur_st_file is NULL
    cur_st_file_size,
    cur_srec_id,
    states_per_file,
    state_dirty,
    state_closed,
    sbuf,     \* stdio buffer of cur_st_file
    tbuf,     \* stdio buffer of time_state_file: map records
    call,     \* the call in progress, when it has several steps on disk
    target,   \* the state a restart in progress truncates at
    todo,     \* subrecords the application has yet to write in the last state
    clock     \* the time given to the last mc_new_state

disk   == <<dfile, dmap, dtrailer, dlimit>>
files  == <<file_map, st_file_count, file_st_qty, cur_st_index, cur_st_file_size>>
stdio  == <<sbuf, tbuf>>
flags  == <<state_dirty, state_closed>>
caller == <<call, target>>
vars   == <<disk, open, state_map, files, cur_srec_id, states_per_file,
            flags, stdio, caller, todo, clock>>

HDR    == 1     \* EXT_SIZE(M_FLOAT) + EXT_SIZE(M_INT): 8 bytes
NoFile == -1
Empty == << >>

\* struct _State_descriptor
Descriptor == [file : Nat, offset : Nat, time : Nat \ {0}, srec : Srecs]

state_qty == Len(state_map)
Idle == open /\ call = "none"
RecordSize(s) == HDR + SrecSize[s]
Extent(d) == d.offset + 1 .. d.offset + RecordSize(d.srec)

\* A file after truncate(2), which also extends.
Truncated(file, len) == [u \in 1..len |-> IF u <= Len(file) THEN file[u] ELSE 0]

\* The files after one is created, or emptied.
Created(fs, f) == [g \in DOMAIN fs \cup {f} |-> IF g = f THEN Empty ELSE fs[g]]

\* A file after a write of one unit at an offset; what is skipped reads 0.
Put(file, w) ==
    LET len == IF w.at < Len(file) THEN Len(file) ELSE w.at + 1
    IN  [Truncated(file, len) EXCEPT ![w.at + 1] = w.time]

-----------------------------------------------------------------------------
(***************************************************************************)
(* Files.  Every fseek and fclose on a stream first writes what stdio      *)
(* holds back, so Flushed is what the disk holds after either.             *)
(***************************************************************************)
Flushed == IF cur_st_index = NoFile \/ sbuf = Empty THEN dfile
           ELSE [dfile EXCEPT ![cur_st_index] = Put(@, sbuf[1])]

\* How many of a map's states are in a file.
StatesIn(map, f) == Cardinality({i \in 1..Len(map) : map[i].file = f})

FlushedMap == dmap \o tbuf

\* The first state file opened puts the trailer into an empty T-file's buffer.
FlushedTrailer == \/ dtrailer \/ tbuf # Empty
                  \/ write_tfile /\ st_file_count > 0 /\ call # "end_map"

\* Mutant: the fflush of mc_end_state and mc_close is forgotten.
NoFlush == UNCHANGED <<dfile, sbuf>>

\* fflush and fsync of the state file
FlushStateFile == dfile' = Flushed /\ sbuf' = Empty

\* state_file_close
StateFileClose == dfile' = Flushed /\ sbuf' = Empty /\ cur_st_index' = NoFile

\* Mutant: the record still in the T-file's buffer is overwritten.
UpdateInPlace(d) ==
    IF write_tfile
    THEN tbuf' = <<d>> /\ UNCHANGED <<dmap, dtrailer>>
    ELSE dmap' = Append(dmap, d) /\ UNCHANGED <<dtrailer, tbuf>>

\* update_static_map: the A-file is opened, written and closed again; in the
\* T-file the record stays in the buffer until the next seek or the close.
UpdateStaticMap(d) ==
    IF write_tfile
    THEN /\ dmap' = FlushedMap
         /\ dtrailer' = FlushedTrailer
         /\ tbuf' = <<d>>
    ELSE /\ dmap' = Append(dmap, d)
         /\ UNCHANGED <<dtrailer, tbuf>>

KeepMap == UNCHANGED <<dmap, dtrailer, tbuf>>

\* Mutant: state_closed is not looked at.
CloseLastStateAlways ==
    IF state_qty > 0 THEN UpdateStaticMap(state_map[state_qty]) ELSE KeepMap

\* The descriptor of a state nobody has ended yet goes into the map.
CloseLastState ==
    IF ~state_closed /\ state_qty > 0
    THEN UpdateStaticMap(state_map[state_qty])
    ELSE KeepMap

-----------------------------------------------------------------------------
(***************************************************************************)
(* Writing a state                                                         *)
(***************************************************************************)
\* Mutant: a file takes one state more than its limit.
FileOverfull == states_per_file > 0 /\ file_st_qty > states_per_file

FileFull == \/ bytes_per_file_limit > 0 /\ cur_st_file_size >= bytes_per_file_limit
            \/ states_per_file > 0 /\ file_st_qty >= states_per_file

\* The branches of test_open_next that also call mc_limit_states(file_st_qty).
HardLimit == /\ cur_st_index # NoFile
             /\ cur_st_file_size >= ABSOLUTE_MAX_FILE_SIZE
             /\ bytes_per_file_limit = 0

\* Mutant: a family without an open state file is not given one.
OpenNextWhenFull == FileFull \/ HardLimit

\* Mutant: only a family without state files is given one.
OpenNextAtStart == (cur_st_index = NoFile /\ st_file_count = 0) \/ FileFull \/ HardLimit

\* test_open_next
OpenNext == cur_st_index = NoFile \/ FileFull \/ HardLimit

\* Mutant: the header of the previous record is forgotten.
NextOffsetNoHeader == state_map[file_st_qty].offset + SrecSize[cur_srec_id]

\* prep_for_new_data(fam, STATE_DATA), else branch: where the next record of
\* the open file goes.  The map is indexed by the count of states in the file.
NextOffset == LET prev == state_map[file_st_qty]
              IN  prev.offset + RecordSize(cur_srec_id)

\* mc_new_state
NewState(s) ==
    /\ Idle /\ clock < MaxStates
    /\ todo = {}
    /\ state_closed \/ state_qty = 0 \/ "leave_open" \in App
    /\ LET file == IF OpenNext THEN st_file_count ELSE cur_st_index
           offset == IF OpenNext THEN 0 ELSE NextOffset
           d == [file |-> file, offset |-> offset, time |-> clock + 1, srec |-> s]
           count == IF OpenNext THEN 1 ELSE file_st_qty + 1
       IN  /\ OpenNext \/ file_st_qty \in DOMAIN state_map
           /\ dfile' = IF OpenNext THEN Created(Flushed, file) ELSE Flushed
           /\ sbuf' = <<[at |-> offset, time |-> clock + 1]>>
           /\ state_map' = Append(state_map, d)
           /\ st_file_count' = IF OpenNext THEN st_file_count + 1 ELSE st_file_count
           /\ file_map' = IF OpenNext THEN Append(file_map, count)
                          ELSE [file_map EXCEPT ![st_file_count] = count]
           /\ file_st_qty' = count
           /\ cur_st_index' = file
           /\ cur_st_file_size' = HDR + (IF OpenNext THEN 0 ELSE cur_st_file_size)
    /\ IF HardLimit
       THEN dlimit' = file_st_qty /\ states_per_file' = file_st_qty
       ELSE UNCHANGED <<dlimit, states_per_file>>
    /\ CloseLastState
    /\ cur_srec_id' = s
    /\ state_dirty' = TRUE
    /\ state_closed' = FALSE
    /\ todo' = 1 .. SrecSize[s]
    /\ clock' = clock + 1
    /\ UNCHANGED <<open, caller>>

\* mc_wrt_subrec: seek to cur_st_offset plus the subrecord's offset, write.
WriteSubrec(k) ==
    /\ Idle /\ k \in todo
    /\ dfile' = Flushed
    /\ LET last == state_map[state_qty]
       IN  sbuf' = <<[at |-> last.offset + HDR + k - 1, time |-> last.time]>>
    /\ cur_st_file_size' = cur_st_file_size + 1
    /\ todo' = todo \ {k}
    /\ UNCHANGED <<dmap, dtrailer, dlimit, open, state_map, file_map, st_file_count,
                   file_st_qty, cur_st_index, cur_srec_id, states_per_file, flags,
                   tbuf, caller, clock>>

\* mc_end_state, with no subrecord left to write; it may be called again.  Where
\* the stream is not at the end of the record only the value returned tells so,
\* after all of this.
EndState ==
    /\ Idle /\ state_qty > 0
    /\ todo = {}
    /\ FlushStateFile
    /\ IF cur_st_index = NoFile
       THEN /\ cur_st_index' = st_file_count - 1
            /\ cur_st_file_size' = Len(dfile[st_file_count - 1])
            /\ file_st_qty' = file_map[st_file_count]
       ELSE UNCHANGED <<cur_st_index, cur_st_file_size, file_st_qty>>
    /\ CloseLastState
    /\ state_dirty' = FALSE
    /\ state_closed' = TRUE
    /\ UNCHANGED <<dlimit, open, state_map, file_map, st_file_count, cur_srec_id,
                   states_per_file, caller, todo, clock>>

\* mc_rewrite_subrec(i, k): the seek is in whatever state file is open.
RewriteSubrec(i, k) ==
    /\ Idle
    /\ \/ "rewrite_any" \in App
       \/ "rewrite" \in App /\ state_map[i].file = cur_st_index
    /\ cur_st_index # NoFile
    /\ todo = {}
    /\ k \in 1 .. SrecSize[state_map[i].srec]
    /\ dfile' = Flushed
    /\ sbuf' = <<[at |-> state_map[i].offset + HDR + k - 1, time |-> state_map[i].time]>>
    /\ UNCHANGED <<dmap, dtrailer, dlimit, open, state_map, files, cur_srec_id,
                   states_per_file, flags, tbuf, caller, todo, clock>>

\* mc_partition_state_data
Partition ==
    /\ Idle /\ "partition" \in App
    /\ cur_st_index # NoFile
    /\ todo = {}
    /\ StateFileClose
    /\ UNCHANGED <<dmap, dtrailer, dlimit, open, state_map, file_map, st_file_count,
                   file_st_qty, cur_st_file_size, cur_srec_id, states_per_file, flags,
                   tbuf, caller, todo, clock>>

\* mc_limit_states
LimitStates(n) ==
    /\ Idle /\ "limits" \in App
    /\ n # states_per_file
    /\ states_per_file' = n
    /\ dlimit' = n
    /\ UNCHANGED <<dfile, dmap, dtrailer, open, state_map, files, cur_srec_id, flags,
                   stdio, caller, todo, clock>>

-----------------------------------------------------------------------------
(***************************************************************************)
(* Restarting: truncate_family prunes the states from index target (0-     *)
(* based) on.  Its steps on disk are separate: a reader, or a crash, may   *)
(* come between them.                                                      *)
(***************************************************************************)
\* find_state_index: the index of the first state of file f, plus the local
\* index.  Where no state is in file f or a later one, the code reads on behind
\* the map: whatever it finds there the index is not that of a state, and the call
\* is refused, changes nothing or dies, which is Crash.
IsStateIndex(i, f, local) ==
    \E first \in 1..state_qty :
        /\ state_map[first].file >= f
        /\ \A j \in 1..first - 1 : state_map[j].file < f
        /\ i = first - 1 + local

TargetFile == state_map[target + 1].file

\* Mutant: the record before the target goes too.
OffsetBefore == state_map[target].offset

TargetOffset == state_map[target + 1].offset

\* truncate_family up to its loop, for a state the family has.
BeginTruncate(i) ==
    /\ IF cur_st_index >= state_map[i + 1].file
       THEN StateFileClose
       ELSE UNCHANGED <<dfile, sbuf, cur_st_index>>
    /\ call' = "unlink"
    /\ target' = i
    /\ todo' = {}
    /\ UNCHANGED <<dmap, dtrailer, dlimit, open, state_map, file_map, st_file_count,
                   file_st_qty, cur_st_file_size, cur_srec_id, states_per_file, flags,
                   tbuf, clock>>

MayRestart == /\ Idle /\ "restart" \in App
              /\ state_closed \/ state_qty = 0 \/ "restart_open" \in App

\* mc_restart_at_state; an index past the last state is refused, the index
\* just past it changes nothing.
RestartAtState(f, local) ==
    /\ MayRestart
    /\ \E i \in 0..state_qty - 1 :
          /\ IF f > 0 THEN IsStateIndex(i, f, local) ELSE i = local
          /\ BeginTruncate(i)

\* mc_restart_at_file: the next file of the sequence only closes this one.
RestartAtFile(f) ==
    /\ MayRestart
    /\ st_file_count > 0
    /\ \/ /\ f < st_file_count
          /\ \E i \in 0..state_qty - 1 :
                /\ i = FoldFunction(+, 0, SubSeq(file_map, 1, f))
                /\ BeginTruncate(i)
       \/ /\ f = st_file_count /\ "partition" \in App
          /\ cur_st_index # NoFile
          /\ StateFileClose
          /\ UNCHANGED <<dmap, dtrailer, dlimit, open, state_map, file_map,
                         st_file_count, file_st_qty, cur_st_file_size, cur_srec_id,
                         states_per_file, flags, tbuf, caller, todo, clock>>

\* The files after the target's are unlinked, the last one first.
Later == {f \in DOMAIN dfile : TargetFile < f /\ f < st_file_count}

TruncUnlink ==
    /\ open /\ call = "unlink"
    /\ \E f \in Later :
          /\ \A g \in Later : g <= f
          /\ dfile' = Restrict(dfile, DOMAIN dfile \ {f})
    /\ UNCHANGED <<dmap, dtrailer, dlimit, open, state_map, files, cur_srec_id,
                   states_per_file, flags, stdio, caller, todo, clock>>

\* The target's file is unlinked when nothing would be left of it, otherwise
\* truncated and opened again.
TruncFile ==
    /\ open /\ call = "unlink"
    /\ Later = {}
    /\ IF target = 0 \/ TargetOffset = 0
       THEN /\ dfile' = Restrict(dfile, DOMAIN dfile \ {TargetFile})
            /\ st_file_count' = TargetFile + (IF target = 0 THEN 1 ELSE 0)
            /\ UNCHANGED <<cur_st_index, cur_st_file_size, file_st_qty>>
       ELSE /\ dfile' = [dfile EXCEPT ![TargetFile] = Truncated(@, TargetOffset)]
            /\ st_file_count' = TargetFile + 1
            /\ cur_st_index' = TargetFile
            /\ cur_st_file_size' = Len(dfile'[TargetFile])
            /\ file_st_qty' = file_map[TargetFile + 1]
    /\ call' = "cut_map"
    /\ UNCHANGED <<dmap, dtrailer, dlimit, open, state_map, file_map, cur_srec_id,
                   states_per_file, flags, stdio, target, todo, clock>>

\* Mutant: the record of the target itself stays in the map.
KeptLong == SubSeq(FlushedMap, 1, target + 1)

\* The records of the map that a restart keeps.
Kept == SubSeq(FlushedMap, 1, target)

\* The map is cut after its first target records, its trailer with the rest.
TruncMap ==
    /\ open /\ call = "cut_map"
    /\ dmap' = Kept
    /\ dtrailer' = FALSE
    /\ tbuf' = Empty
    /\ call' = "end_map"
    /\ UNCHANGED <<dfile, dlimit, open, state_map, files, cur_srec_id,
                   states_per_file, flags, sbuf, target, todo, clock>>

\* Mutant: the states of the whole family are counted.
CountAll(last) == target

\* How many states the last file is left with.
CountLast(last) == StatesIn(SubSeq(state_map, 1, target), last)

\* The trailer is written again and the maps in memory are cut.
TruncEnd ==
    /\ open /\ call = "end_map"
    /\ dtrailer' = TRUE
    /\ state_map' = SubSeq(state_map, 1, target)
    /\ IF target = 0
       THEN /\ file_map' = << >>
            /\ file_st_qty' = 0
            /\ cur_st_file_size' = 0
            /\ st_file_count' = 0
       ELSE LET last == state_map[target].file
                count == CountLast(last)
            IN  /\ file_st_qty' = count
                /\ file_map' = [SubSeq(file_map, 1, st_file_count)
                                   EXCEPT ![last + 1] = count]
                /\ UNCHANGED <<cur_st_file_size, st_file_count>>
    /\ call' = "none"
    /\ target' = 0
    /\ UNCHANGED <<dfile, dmap, dlimit, open, cur_st_index, cur_srec_id,
                   states_per_file, flags, stdio, todo, clock>>

-----------------------------------------------------------------------------
(***************************************************************************)
(* The end of a process, and the next one                                  *)
(***************************************************************************)
Forget ==
    /\ open' = FALSE
    /\ state_map' = << >> /\ file_map' = << >>
    /\ st_file_count' = 0 /\ file_st_qty' = 0
    /\ cur_st_index' = NoFile /\ cur_st_file_size' = 0
    /\ cur_srec_id' = 0 /\ states_per_file' = 0
    /\ state_dirty' = FALSE /\ state_closed' = FALSE
    /\ sbuf' = Empty /\ tbuf' = Empty
    /\ call' = "none" /\ target' = 0
    /\ todo' = {}

\* mc_close, up to the fclose of the T-file: the map comes first.
CloseMap ==
    /\ Idle /\ todo = {}
    /\ state_closed \/ state_qty = 0 \/ "leave_open" \in App
    /\ LET last == IF state_dirty /\ ~state_closed /\ state_qty > 0
                   THEN <<state_map[state_qty]>> ELSE << >>
       IN  /\ dmap' = FlushedMap \o last
           /\ dtrailer' = (FlushedTrailer \/ last # << >>)
    /\ tbuf' = Empty
    /\ call' = "close"
    /\ UNCHANGED <<dfile, dlimit, open, state_map, files, cur_srec_id,
                   states_per_file, flags, sbuf, target, todo, clock>>

\* mc_close: the state file is flushed and closed, the family forgotten.
CloseFile ==
    /\ open /\ call = "close"
    /\ dfile' = Flushed
    /\ Forget
    /\ UNCHANGED <<dmap, dtrailer, dlimit, clock>>

\* The process dies.  Stdio had written each buffer, or had not.
Crash(written, mapped) ==
    /\ open
    /\ \/ call = "none" /\ "crash" \in App
       \/ call # "none" /\ "crash_inside" \in App
    /\ dfile' = IF written THEN Flushed ELSE dfile
    /\ IF mapped
       THEN dmap' = FlushedMap /\ dtrailer' = FlushedTrailer
       ELSE UNCHANGED <<dmap, dtrailer>>
    /\ Forget
    /\ UNCHANGED <<dlimit, clock>>

\* open_family and load_static_maps, for append access: the map is read from
\* disk and the last state file it names is opened.  They give up when that file
\* is missing, on an A-file without its header and on an empty T-file; a T-file
\* whose trailer alone is missing stays closed here too (rebuild_state_tfile is
\* not part of this module).
Reopen ==
    /\ ~open /\ dtrailer
    /\ \E count \in {0} \cup {d.file + 1 : d \in Range(dmap)} :
          /\ \A d \in Range(dmap) : d.file < count
          /\ count = 0 \/ count - 1 \in DOMAIN dfile
          /\ state_map' = dmap
          /\ file_map' = [f \in 1..count |-> StatesIn(dmap, f - 1)]
          /\ st_file_count' = count
          /\ cur_st_index' = count - 1
          /\ file_st_qty' = IF count = 0 THEN 0 ELSE StatesIn(dmap, count - 1)
          /\ cur_st_file_size' = IF count = 0 THEN 0 ELSE Len(dfile[count - 1])
    /\ open' = TRUE
    /\ states_per_file' = dlimit
    /\ state_closed' = TRUE
    /\ UNCHANGED <<disk, cur_srec_id, state_dirty, stdio, caller, todo, clock>>

-----------------------------------------------------------------------------
\* A family just created (create_family) or, with a T-file, just after
\* mc_set_state_map_file_on: the A-file is committed, no state file exists and
\* the T-file is empty.
Init ==
    /\ dfile = Empty /\ dmap = << >>
    /\ dtrailer = ~write_tfile
    /\ states_per_file \in Limits /\ dlimit = states_per_file
    /\ open = TRUE
    /\ state_map = << >> /\ file_map = << >>
    /\ st_file_count = 0 /\ file_st_qty = 0
    /\ cur_st_index = NoFile /\ cur_st_file_size = 0
    /\ cur_srec_id = 0
    /\ state_dirty = FALSE /\ state_closed = FALSE
    /\ sbuf = Empty /\ tbuf = Empty
    /\ call = "none" /\ target = 0
    /\ todo = {} /\ clock = 0

Next ==
    \/ \E s \in Srecs : NewState(s)
    \/ \E k \in todo : WriteSubrec(k)
    \/ EndState
    \/ \E i \in 1..state_qty : \E k \in 1..SrecSize[state_map[i].srec] :
          RewriteSubrec(i, k)
    \/ Partition
    \/ \E n \in Limits : LimitStates(n)
    \/ \E f \in 0..st_file_count, i \in 0..state_qty : RestartAtState(f, i)
    \/ \E f \in 0..st_file_count : RestartAtFile(f)
    \/ TruncUnlink \/ TruncFile \/ TruncMap \/ TruncEnd
    \/ CloseMap \/ CloseFile
    \/ \E written, mapped \in BOOLEAN : Crash(written, mapped)
    \/ Reopen

Spec == Init /\ [][Next]_vars

-----------------------------------------------------------------------------
(***************************************************************************)
(* Properties                                                              *)
(***************************************************************************)
FilesTyped == /\ DOMAIN dfile \subseteq Nat /\ \A f \in DOMAIN dfile : dfile[f] \in Seq(Nat)
              /\ sbuf \in Seq([at : Nat, time : Nat])
MapsTyped == dmap \in Seq(Descriptor) /\ tbuf \in Seq(Descriptor) /\ state_map \in Seq(Descriptor)
CountsTyped == /\ dlimit \in Nat /\ states_per_file \in Nat
               /\ file_map \in Seq(Nat) /\ st_file_count \in Nat /\ file_st_qty \in Nat
               /\ cur_st_index \in Nat \cup {NoFile} /\ cur_st_file_size \in Nat
               /\ cur_srec_id \in Srecs
FlagsTyped == {dtrailer, open, state_dirty, state_closed} \subseteq BOOLEAN
CallTyped == /\ call \in {"none", "unlink", "cut_map", "end_map", "close"}
             /\ target \in Nat /\ todo \subseteq Nat /\ clock \in 0..MaxStates

\* Every variable holds what the C field it models can hold: in particular no
\* size or count of a state file is taken from a file that is not there.
TypeOK == FilesTyped /\ MapsTyped /\ CountsTyped /\ FlagsTyped /\ CallTyped

\* The units of d that hold d's own data in a set of files.
Holds(fs, d, u) == /\ d.file \in DOMAIN fs
                   /\ u \in DOMAIN fs[d.file]
                   /\ fs[d.file][u] = d.time

Written(fs, d) == \A u \in Extent(d) : Holds(fs, d, u)

\* Nothing written into the family is ever overwritten: every state the writer
\* has in its map, but for the subrecords of the last one that are still to
\* come, reads back from the place the map gives.  Breaks if the place of a new
\* record is computed from the wrong predecessor, if a restart cuts too much,
\* or if a rewrite goes to another file.
StatesIntact ==
    Idle => \A i \in 1..state_qty :
        LET d == state_map[i]
            missing == IF i = state_qty THEN {d.offset + HDR + k : k \in todo} ELSE {}
        IN  \A u \in Extent(d) \ missing : Holds(Flushed, d, u)

\* The states the map on disk must have: those that have been ended.
Ended == SubSeq(state_map, 1, IF state_closed THEN state_qty ELSE state_qty - 1)

\* The map on disk (with what the T-file's buffer still holds) lists every
\* ended state, in order, once: across sessions, crashes and restarts neither
\* mc_new_state, mc_end_state nor mc_close records a state twice or skips one.
MapIsMemory == Idle => FlushedMap = Ended

\* Between calls, and after any crash between calls, whoever reads the map on
\* disk finds the data of every state it lists in the state files on disk.
MappedIsWritten == call = "none" => \A d \in Range(dmap) : Written(dfile, d)

\* The record that prep_for_new_data places the next one after is in the map:
\* its index is a count of states in a file, which nothing checks against the
\* length of the map before state_map[file_st_qty - 1] is read.
PreviousKnown == Idle /\ ~OpenNext => file_st_qty \in 1..state_qty

\* The counts the writer keeps of files and of states per file (which place the
\* next record and decide when a file is full) agree with its state map.
CountsAgree ==
    Idle => /\ st_file_count = Len(file_map)
            /\ \A f \in 1..st_file_count : file_map[f] = StatesIn(state_map, f - 1)
            /\ \A d \in Range(state_map) : d.file < st_file_count
            /\ cur_st_index \in {NoFile, st_file_count - 1}
            /\ cur_st_index # NoFile => file_st_qty = file_map[st_file_count]
            /\ 0..st_file_count - 1 \subseteq DOMAIN dfile

\* With a limit on states per file every file but the last is exactly full and
\* none has more, however often the writer restarted, crashed or reopened.
FilesFilled ==
    Idle /\ states_per_file > 0 =>
        \A f \in 1..st_file_count :
            IF f < st_file_count THEN file_map[f] = states_per_file
            ELSE file_map[f] \in 1..states_per_file

\* A database whose writer stopped can be opened again to append.
Reopenable ==
    ~open => /\ dtrailer
             /\ dmap # << >> => dmap[Len(dmap)].file \in DOMAIN dfile

\* A state that reached the map on disk stays there with its data: the map only
\* grows, but for the cut a restart makes, and no step of any call (nor a
\* crash) takes data away from a listed state that no restart has pruned.
PublishedIsKept ==
    [][/\ \/ Len(dmap) <= Len(dmap') /\ SubSeq(dmap', 1, Len(dmap)) = dmap
          \/ call = "cut_map" /\ dmap' = SubSeq(FlushedMap, 1, target)
       /\ \A i \in DOMAIN dmap :
             Written(dfile, dmap[i]) =>
                 \/ Written(dfile', dmap[i])
                 \/ call = "unlink" /\ i > target]_vars

-----------------------------------------------------------------------------
\* The family keeps the promise of StateArchive: seen through the map on disk,
\* every call, every step of a restart or a close, every crash and every
\* reopening is a step of the archive or changes nothing.
Times(map) == [i \in DOMAIN map |-> map[i].time]
Unended == Idle /\ ~state_closed /\ state_qty > 0

Archive == INSTANCE StateArchive WITH
               LosesLast <- write_tfile,
               log <- Times(FlushedMap),
               current <- IF Unended THEN state_map[state_qty].time ELSE 0

KeepsArchive == Archive!Spec
=============================================================================
