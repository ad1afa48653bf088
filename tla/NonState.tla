------------------------------ MODULE NonState ------------------------------
(***************************************************************************)
(* The non-state files of a Mili family (the A-file, B-file, ...), their   *)
(* directories, and the parameters and record formats they hold, as the    *)
(* family's one writer drives them.                                        *)
(*                                                                         *)
(* Data goes to the last file while that file is uncommitted.  Committing  *)
(* it writes what is still in memory (state variables, closed formats) and *)
(* then the directory, with which every readable file ends.  Every later   *)
(* write of something new starts another file; a parameter that exists is  *)
(* rewritten where it is.                                                  *)
(*                                                                         *)
(* A file is a sequence of units of 4 bytes (the character header is one   *)
(* unit here), each a token naming the write it came from; DIR stands for  *)
(* a directory.  Bytes that stdio holds back need no place of their own:   *)
(* a file without a directory cannot be read, and a rewrite of one that    *)
(* has it ends in an fclose or an fseek.                                   *)
(*                                                                         *)
(* An operation is a chain of steps on a workspace w: the files, the       *)
(* writer's memory, and what the history remembers.  w.ok turns FALSE when *)
(* commit_non_state and non_state_file_close call each other without end.  *)
(***************************************************************************)
EXTENDS Integers, Sequences, FiniteSets, SequencesExt, FiniteSetsExt

CONSTANTS
    Scalars, Strings, Arrays,  \* names of parameters of each kind
    FirstParam,                \* a scalar that mc_init_metadata writes
    Sizes,                     \* sizes of values, in units
    App,                       \* what the application and its host may do
    MaxSrecs,                  \* bound: record formats
    MaxFiles,                  \* bound: non-state files
    MaxWrites                  \* bound: writes, in a behaviour

(***************************************************************************)
(* What an application may do beyond defining the mesh, the variables and  *)
(* the formats in one go, then flushing:                                   *)
(*   late_format   close a format, or define variables, with no            *)
(*                 uncommitted file open                                   *)
(*   open_format   other calls between mc_open_srec and mc_close_srec      *)
(*   empty_format  close a format that has no subrecords                   *)
(*   suffix        mc_suffix_width while the A-file is open                *)
(*   crash         the process dies                                        *)
(***************************************************************************)
Privileges == {"late_format", "open_format", "empty_format", "suffix", "crash"}

Names == Scalars \cup Strings \cup Arrays

ASSUME NamesAssumption == /\ "" \notin Names
                          /\ FirstParam \in Scalars
                          /\ Scalars \cap Strings = {}
                          /\ (Scalars \cup Strings) \cap Arrays = {}
ASSUME SizesAssumption == Sizes \subseteq Nat \ {0} /\ 1 \in Sizes
ASSUME BoundAssumption == /\ App \subseteq Privileges
                          /\ MaxSrecs \in Nat /\ MaxFiles \in Nat /\ MaxWrites \in Nat

VARIABLES
    files,  \* disk: the units of each file, and the directory it ends in
    fam,    \* the writer's Mili_family
    proc,   \* "open", "closed", "dead" (crashed) or "overflow" (of the stack)
    wrote,  \* history: what was last written for each directory entry
    value,  \* history: the value each parameter was last given
    clock   \* history: the token of the last write

vars == <<files, fam, proc, wrote, value, clock>>

NoFile  == 0
Nowhere == [file |-> NoFile, entry |-> 0]
DIR    == 0
Empty  == << >>

File(units) == [data |-> units, dir |-> Empty, commit_count |-> 0]
FileDir     == [entries |-> Empty, commit_count |-> 0]

file_count(w)  == Len(w.fam.directory)
LastDir(w)     == w.fam.directory[file_count(w)]
Uncommitted(w) == LastDir(w).commit_count = 0
COMMIT_NS(w)   == Uncommitted(w) \/ w.fam.non_state_ready
AtWork(w)      == w.fam.cur_index = file_count(w) /\ Uncommitted(w)

Size(w, i) == Len(w.files[i].data)

\* A file's units after a write.
Put(data, at, units) ==
    LET stop == at + Len(units)
    IN  [u \in 1..(IF stop > Len(data) THEN stop ELSE Len(data)) |->
            IF u > at /\ u <= stop THEN units[u - at] ELSE data[u]]

Copies(token, len) == [u \in 1..len |-> token]

\* fwrite at the stream's position
Write(w, units) ==
    [w EXCEPT !.files[w.fam.cur_index].data = Put(@, w.fam.pos, units),
              !.fam.pos = @ + Len(units)]

\* fseek(cur_file, 0, SEEK_END)
SeekEnd(w) == [w EXCEPT !.fam.pos = Size(w, w.fam.cur_index)]

-----------------------------------------------------------------------------
(***************************************************************************)
(* Writing something new.                                                  *)
(***************************************************************************)
\* add_dir_entry, then the data; wrote and clock are history.
AddEntry(w, kind, name, len) ==
    LET n == file_count(w)
        c == w.clock + 1
        e == [kind |-> kind, name |-> name, id |-> 0,
              offset |-> w.fam.next_free_byte, length |-> len]
    IN  [Write(w, Copies(c, len)) EXCEPT
            !.fam.directory[n].entries = Append(@, e),
            !.fam.next_free_byte = @ + len,
            !.wrote[n] = Append(@, Copies(c, len)),
            !.clock = c]

\* Mutant: next_free_byte goes on from the file before.
NewFileGoesOn(w) ==
    [w EXCEPT !.files = Append(@, File(Empty)),
              !.wrote = Append(@, Empty),
              !.fam.directory = Append(@, FileDir),
              !.fam.cur_index = file_count(w) + 1,
              !.fam.pos = 0]

\* non_state_file_open of the file after the last, nothing being open
NewFile(w) ==
    [w EXCEPT !.files = Append(@, File(Empty)),
              !.wrote = Append(@, Empty),
              !.fam.directory = Append(@, FileDir),
              !.fam.cur_index = file_count(w) + 1,
              !.fam.pos = 0,
              !.fam.next_free_byte = 0]

CommitSvars(w) ==
    IF w.fam.svars_fresh
    THEN [AddEntry(w, "svars", "", 1) EXCEPT !.fam.svars_fresh = FALSE]
    ELSE w

\* Closed formats that are not yet in a file.
FreshFormats(w) == {i \in w.fam.commit_max + 1 .. Len(w.fam.srecs) :
                        w.fam.srecs[i] = "closed"}

\* Mutant: the formats are written in the opposite order.
NthLast(S, k) == CHOOSE i \in S : Cardinality({j \in S : j >= i}) = k

\* The k-th smallest of a set.
Nth(S, k) == CHOOSE i \in S : Cardinality({j \in S : j <= i}) = k

\* Mutant: formats written are not marked as saved.
CommitSrecsAgain(w) ==
    LET qty == Cardinality(FreshFormats(w))
        n   == file_count(w)
    IN  [Write(w, [k \in 1..qty |-> w.clock + k]) EXCEPT
            !.fam.directory[n].entries = @ \o [k \in 1..qty |->
                [kind |-> "srec", name |-> "", id |-> Nth(FreshFormats(w), k),
                 offset |-> w.fam.next_free_byte + k - 1, length |-> 1]],
            !.fam.next_free_byte = @ + qty,
            !.wrote[n] = @ \o [k \in 1..qty |-> <<w.clock + k>>],
            !.clock = @ + qty]

\* One directory entry, and one unit, for each fresh format.
CommitSrecs(w) ==
    LET fresh == FreshFormats(w)
        qty   == Cardinality(fresh)
        n     == file_count(w)
        entry(k) == [kind |-> "srec", name |-> "", id |-> Nth(fresh, k),
                     offset |-> w.fam.next_free_byte + k - 1, length |-> 1]
    IN  [Write(w, [k \in 1..qty |-> w.clock + k]) EXCEPT
            !.fam.directory[n].entries = @ \o [k \in 1..qty |-> entry(k)],
            !.fam.next_free_byte = @ + qty,
            !.fam.srecs = [i \in DOMAIN @ |-> IF i \in fresh THEN "saved" ELSE @[i]],
            !.fam.commit_max = Len(w.fam.srecs),
            !.wrote[n] = @ \o [k \in 1..qty |-> <<w.clock + k>>],
            !.clock = @ + qty]

\* The directory goes after the data; a directory without entries is not written.
CommitDir(w) ==
    LET n == file_count(w)
        c == w.fam.commit_count + 1
        d == LastDir(w).entries
    IN  IF d = Empty THEN w
        ELSE [Write(w, <<DIR>>) EXCEPT
                 !.files[n].dir = d,
                 !.files[n].commit_count = c,
                 !.fam.directory[n].commit_count = c,
                 !.fam.next_free_byte = @ + 1]

\* Mutant: the commit leaves non_state_ready set.
CommitStaysReady(w) ==
    LET v == IF w.fam.cur_index = NoFile THEN NewFile(w) ELSE SeekEnd(w)
    IN  IF w.fam.cur_index # NoFile /\ ~AtWork(w) THEN [w EXCEPT !.ok = FALSE]
        ELSE [CommitDir(CommitSrecs(CommitSvars(v))) EXCEPT !.fam.commit_count = @ + 1]

(***************************************************************************)
(* commit_non_state.  Its caller found COMMIT_NS, and so does every        *)
(* non_state_file_close within it: prep_for_new_data, when it has to close *)
(* the open file before a new one, calls commit_non_state again, in the    *)
(* same state.                                                             *)
(***************************************************************************)
CommitNonState(w) ==
    LET v == IF w.fam.cur_index = NoFile THEN NewFile(w) ELSE SeekEnd(w)
    IN  IF w.fam.cur_index # NoFile /\ ~AtWork(w) THEN [w EXCEPT !.ok = FALSE]
        ELSE [CommitDir(CommitSrecs(CommitSvars(v))) EXCEPT
                 !.fam.commit_count = @ + 1,
                 !.fam.non_state_ready = FALSE]

\* Mutant: the file is closed without its directory.
FileCloseOnly(w) == [w EXCEPT !.fam.cur_index = NoFile]

\* non_state_file_close
FileClose(w) ==
    IF w.fam.cur_index = NoFile THEN w
    ELSE LET v == IF COMMIT_NS(w) THEN CommitNonState(w) ELSE w
         IN  [v EXCEPT !.fam.cur_index = NoFile]

\* non_state_file_open of a file of the family
FileOpen(w, i) ==
    IF w.fam.cur_index = i THEN w
    ELSE LET v == FileClose(w)
         IN  [v EXCEPT !.fam.cur_index = i, !.fam.pos = 0,
                       !.fam.next_free_byte = Size(v, i)]

\* Mutant: the last file stays the one to write to after its commit.
PrepInLast(w) == IF w.fam.cur_index = file_count(w) THEN SeekEnd(w)
                 ELSE NewFile(FileClose(w))

\* prep_for_new_data(NON_STATE_DATA)
PrepForNewData(w) == IF AtWork(w) THEN SeekEnd(w) ELSE NewFile(FileClose(w))

-----------------------------------------------------------------------------
(***************************************************************************)
(* Parameters.  fam.names is the hash table: for each name the place of    *)
(* its entry that a search finds, of those that were entered under it.     *)
(***************************************************************************)
Known(n) == fam.names[n] # Nowhere
Place(n) == fam.names[n]
EntryOf(n) == fam.directory[Place(n).file].entries[Place(n).entry]

\* The units of a file that an entry names; past its end there is nothing to read.
UnitsOf(data, e) == [u \in 1..e.length |->
    IF e.offset + u <= Len(data) THEN data[e.offset + u] ELSE DIR]

\* Mutant: entry_index is one less than it should be.
EnterEarlier(w, n) ==
    [w EXCEPT !.fam.names[n] =
        [file |-> w.fam.cur_index, entry |-> Len(LastDir(w).entries) - 1]]

\* ENTER_MERGE on a name that is not there, or ENTER_ALWAYS: found before the rest.
Enter(w, n) ==
    [w EXCEPT !.fam.names[n] =
        [file |-> w.fam.cur_index, entry |-> Len(LastDir(w).entries)]]

\* write_scalar, write_string and write_array of something new
WriteNew(w, n, len) == Enter(AddEntry(PrepForNewData(w), "param", n, len), n)

\* non_state_file_seek, which refuses to go to next_free_byte or beyond
CanSeek(w, offset)  == offset < w.fam.next_free_byte
FileSeek(w, offset) == [w EXCEPT !.fam.pos = offset]

\* Mutant: a file that is there is written where its stream stands.
RewriteNoSeek(w, n, len) ==
    LET p == w.fam.names[n]
        o == FileOpen(w, p.file)
        c == o.clock + 1
    IN  [Write(o, Copies(c, len))
            EXCEPT !.wrote[p.file][p.entry] = Put(@, 0, Copies(c, len)), !.clock = c]

\* write_scalar and write_string on a name that is there
Rewrite(w, n, len) ==
    LET p == w.fam.names[n]
        e == w.fam.directory[p.file].entries[p.entry]
        o == FileOpen(w, p.file)
        c == o.clock + 1
        v == Write(FileSeek(o, e.offset), Copies(c, len))
        u == [v EXCEPT !.wrote[p.file][p.entry] = Put(@, 0, Copies(c, len)),
                       !.clock = c]
    IN  IF ~CanSeek(o, e.offset) THEN o
        ELSE IF w.fam.cur_index = p.file THEN SeekEnd(u) ELSE FileClose(u)

-----------------------------------------------------------------------------
(***************************************************************************)
(* The calls.                                                              *)
(***************************************************************************)
Now == [files |-> files, fam |-> fam, wrote |-> wrote, clock |-> clock, ok |-> TRUE]

\* A call ends; or it never does, and the process dies of its stack.
Becomes(w, p) ==
    IF w.ok
    THEN /\ files' = w.files /\ fam' = w.fam /\ proc' = p
         /\ wrote' = w.wrote /\ clock' = w.clock
    ELSE proc' = "overflow" /\ UNCHANGED <<files, fam, wrote, clock>>

FormatOpen(i) == fam.srecs[i] \in {"open", "filled"}

Running == /\ proc = "open"
           /\ "open_format" \in App \/ \A i \in DOMAIN fam.srecs : ~FormatOpen(i)
MayWrite == Running /\ clock < MaxWrites /\ Len(fam.directory) < MaxFiles

(***************************************************************************)
(* mc_wrt_scalar and mc_wrt_string.  A scalar of another type is refused,  *)
(* and so is a string longer than the space the first one took.            *)
(***************************************************************************)
WriteParam(n, len) ==
    /\ MayWrite
    /\ Known(n) => IF n \in Scalars THEN EntryOf(n).length = len
                                    ELSE EntryOf(n).length >= len
    /\ LET w == IF Known(n) THEN Rewrite(Now, n, len) ELSE WriteNew(Now, n, len)
       IN  /\ Becomes(w, "open")
           /\ value' = IF w.ok THEN [value EXCEPT ![n] = Put(@, 0, Copies(w.clock, len))]
                               ELSE value

\* mc_wrt_array: always a new entry, even for a name that is there
WriteArray(n, len) ==
    /\ MayWrite
    /\ LET w == WriteNew(Now, n, len)
       IN  /\ Becomes(w, "open")
           /\ value' = IF w.ok THEN [value EXCEPT ![n] = Copies(w.clock, len)] ELSE value

\* mc_read_scalar, mc_read_string and mc_read_param_array leave the file open.
ReadParam(n) ==
    /\ MayWrite /\ Known(n)
    /\ LET e == EntryOf(n)
           w == FileOpen(Now, Place(n).file)
       IN  Becomes(IF CanSeek(w, e.offset) THEN FileSeek(w, e.offset + e.length) ELSE w,
                   "open")
    /\ UNCHANGED value

\* mc_def_nodes, mc_def_conn_seq and the other definitions of a mesh
DefMesh ==
    /\ MayWrite
    /\ Becomes(AddEntry(PrepForNewData(Now), "mesh", "", 1), "open")
    /\ UNCHANGED value

Timely == "late_format" \in App \/ AtWork(Now)

\* mc_def_svars: in memory until a commit
DefSvars ==
    /\ Running /\ Timely /\ clock < MaxWrites
    /\ ~fam.svars_fresh
    /\ fam' = [fam EXCEPT !.svars_fresh = TRUE]
    /\ UNCHANGED <<files, proc, wrote, value, clock>>

\* mc_open_srec
OpenSrec ==
    /\ Running /\ Len(fam.srecs) < MaxSrecs
    /\ fam' = [fam EXCEPT !.srecs = Append(@, "open")]
    /\ UNCHANGED <<files, proc, wrote, value, clock>>

\* mc_def_subrec
DefSubrec(i) ==
    /\ proc = "open" /\ fam.srecs[i] = "open"
    /\ fam' = [fam EXCEPT !.srecs[i] = "filled"]
    /\ UNCHANGED <<files, proc, wrote, value, clock>>

\* mc_close_srec, which does not ask whether the format was closed before
CloseSrec(i) ==
    /\ proc = "open" /\ Timely
    /\ IF fam.srecs[i] \in {"open", "empty"}
       THEN /\ "empty_format" \in App
            /\ fam' = [fam EXCEPT !.srecs[i] = "empty"]
       ELSE fam' = [fam EXCEPT !.srecs[i] = "closed", !.non_state_ready = TRUE]
    /\ UNCHANGED <<files, proc, wrote, value, clock>>

\* mc_flush(NON_STATE_DATA)
Flush ==
    /\ MayWrite /\ COMMIT_NS(Now)
    /\ Becomes(FileClose(CommitNonState(Now)), "open")
    /\ UNCHANGED value

(***************************************************************************)
(* mc_suffix_width: write_header opens the A-file and writes the character *)
(* header where the stream stands.                                         *)
(***************************************************************************)
SuffixWidth ==
    /\ MayWrite
    /\ "suffix" \in App \/ fam.cur_index # 1
    /\ LET o == FileOpen(Now, 1)
           c == o.clock + 1
           v == Write(o, <<c>>)
       IN  Becomes(FileClose([v EXCEPT !.fam.char_header = c, !.clock = c]), "open")
    /\ UNCHANGED value

\* mc_close: a flush and a close, if a non-state file is open
Close ==
    /\ Running
    /\ LET v == IF COMMIT_NS(Now) THEN FileClose(CommitNonState(Now)) ELSE Now
       IN  Becomes(IF fam.cur_index = NoFile THEN Now ELSE FileClose(v), "closed")
    /\ UNCHANGED value

\* The writing process dies.
Crash ==
    /\ "crash" \in App /\ proc = "open"
    /\ proc' = "dead"
    /\ UNCHANGED <<files, fam, wrote, value, clock>>

(***************************************************************************)
(* load_directories: each file must end in its directory.                  *)
(***************************************************************************)
Loadable(file) == file.commit_count > 0 /\ file.data[Len(file.data)] = DIR

\* The entries of a name, and which of two entries load_directories meets later.
Named(fs, n) ==
    UNION {{[file |-> i, entry |-> j] : j \in {k \in DOMAIN fs[i].dir : fs[i].dir[k].name = n}} :
           i \in DOMAIN fs}
NotBefore(p, q) == p.file > q.file \/ (p.file = q.file /\ p.entry >= q.entry)

\* Mutant: each entry is put behind those of the same name.
ParamTableInOrder(fs) ==
    [n \in Names |-> IF Named(fs, n) = {} THEN Nowhere
                     ELSE CHOOSE p \in Named(fs, n) : \A q \in Named(fs, n) : NotBefore(q, p)]

\* The parameter table: each entry is put before those of the same name.
ParamTable(fs) ==
    [n \in Names |-> IF Named(fs, n) = {} THEN Nowhere
                     ELSE CHOOSE p \in Named(fs, n) : \A q \in Named(fs, n) : NotBefore(p, q)]

\* Where the formats are, and which of two load_directories meets no later.
FormatPlaces(fs) ==
    UNION {{<<i, j>> : j \in {k \in DOMAIN fs[i].dir : fs[i].dir[k].kind = "srec"}} :
           i \in DOMAIN fs}
NotAfter(p, q) == p[1] < q[1] \/ (p[1] = q[1] /\ p[2] <= q[2])

\* The formats in the files: the ids they were given, in the order they are met.
SavedFormats(fs) ==
    LET places   == FormatPlaces(fs)
        place(k) == CHOOSE p \in places : Cardinality({q \in places : NotAfter(q, p)}) = k
    IN  [k \in 1..Cardinality(places) |-> fs[place(k)[1]].dir[place(k)[2]].id]

(***************************************************************************)
(* mc_open for append access: load_directories, load_srec_formats, and the *)
(* reading of the first parameter, which leaves the A-file open.           *)
(***************************************************************************)
Reopen ==
    /\ proc \in {"closed", "dead"}
    /\ clock < MaxWrites
    /\ \A i \in DOMAIN files : Loadable(files[i])
    /\ LET qty == Cardinality(FormatPlaces(files))
           e   == files[1].dir[1]
       IN  fam' = [directory |-> [i \in DOMAIN files |->
                       [entries |-> files[i].dir, commit_count |-> files[i].commit_count]],
                   names |-> ParamTable(files),
                   srecs |-> [i \in 1..qty |-> "saved"],
                   commit_max |-> qty,
                   svars_fresh |-> FALSE,
                   non_state_ready |-> FALSE,
                   commit_count |-> Max({files[i].commit_count : i \in DOMAIN files}),
                   char_header |-> files[1].data[1],
                   cur_index |-> 1,
                   pos |-> e.offset + e.length,
                   next_free_byte |-> Len(files[1].data)]
    /\ proc' = "open"
    /\ UNCHANGED <<files, wrote, value, clock>>

(***************************************************************************)
(* create_family: the A-file with its header and the first parameter.      *)
(***************************************************************************)
Init ==
    /\ files = <<File(<<1, 2>>)>>
    /\ fam = [directory |-> <<[FileDir EXCEPT !.entries =
                  <<[kind |-> "param", name |-> FirstParam, id |-> 0,
                     offset |-> 1, length |-> 1]>>]>>,
              names |-> [n \in Names |-> IF n = FirstParam
                                         THEN [file |-> 1, entry |-> 1] ELSE Nowhere],
              srecs |-> Empty, commit_max |-> 0,
              svars_fresh |-> FALSE, non_state_ready |-> FALSE, commit_count |-> 0,
              char_header |-> 1, cur_index |-> 1, pos |-> 2, next_free_byte |-> 2]
    /\ proc = "open"
    /\ wrote = <<<<Copies(2, 1)>>>>
    /\ value = [n \in Names |-> IF n = FirstParam THEN Copies(2, 1) ELSE Empty]
    /\ clock = 2

Next ==
    \/ \E n \in Scalars \cup Strings, len \in Sizes : WriteParam(n, len)
    \/ \E n \in Arrays, len \in Sizes : WriteArray(n, len)
    \/ \E n \in Names : ReadParam(n)
    \/ DefMesh \/ DefSvars \/ OpenSrec
    \/ \E i \in DOMAIN fam.srecs : DefSubrec(i) \/ CloseSrec(i)
    \/ Flush \/ SuffixWidth \/ Close \/ Crash \/ Reopen

Spec == Init /\ [][Next]_vars

-----------------------------------------------------------------------------
(***************************************************************************)
(* Properties.                                                             *)
(***************************************************************************)
\* Types and ranges: every place in the table is an entry, every entry is in its file.
Entry == [kind : {"param", "mesh", "svars", "srec"}, name : Names \cup {""},
          id : Nat, offset : Nat, length : Nat]
PlacesTyped == \A n \in Names : Known(n) =>
    LET p == Place(n)
    IN  p.file \in DOMAIN fam.directory /\ p.entry \in DOMAIN fam.directory[p.file].entries
EntriesTyped == \A i \in DOMAIN fam.directory : \A j \in DOMAIN fam.directory[i].entries :
    LET e == fam.directory[i].entries[j]
    IN  e \in Entry /\ e.offset + e.length <= Len(files[i].data)
TypeOK ==
    /\ proc \in {"open", "closed", "dead", "overflow"}
    /\ DOMAIN files = DOMAIN fam.directory
    /\ fam.cur_index \in {NoFile} \cup DOMAIN files
    /\ fam.cur_index # NoFile => fam.pos \in 0..Len(files[fam.cur_index].data)
    /\ \A i \in DOMAIN fam.srecs :
           fam.srecs[i] \in {"open", "filled", "closed", "empty", "saved"}
    /\ PlacesTyped /\ EntriesTyped

(***************************************************************************)
(* What a directory entry names in its file is what was last written for   *)
(* it: the offset, taken from next_free_byte before the data is written,   *)
(* is where the data went, and nothing else was written there since        *)
(* (add_dir_entry and its callers, rewrites, directories, the header).     *)
(***************************************************************************)
EntriesHoldData ==
    \A i \in DOMAIN fam.directory : \A j \in DOMAIN fam.directory[i].entries :
        UnitsOf(files[i].data, fam.directory[i].entries[j]) = wrote[i][j]

(***************************************************************************)
(* Every entry holds its data, and a read of a parameter finds the value   *)
(* last given to its name, in this session and after the family is opened  *)
(* again: the table in memory and the one load_directories builds agree on *)
(* which entry comes first, and a rewrite that fits is never refused for   *)
(* its offset.                                                             *)
(***************************************************************************)
LastValueRead ==
    /\ EntriesHoldData
    /\ proc = "open" => \A n \in Names :
           IF Known(n) THEN UnitsOf(files[Place(n).file].data, EntryOf(n)) = value[n]
                       ELSE value[n] = Empty

\* Closing a file and committing it never call each other without end.
CommitReturns == proc # "overflow"

(***************************************************************************)
(* "Write a non-state file's directory to the file" (commit_dir): every    *)
(* file of a family that was closed has a directory that load_directories  *)
(* can find.                                                               *)
(***************************************************************************)
DirectoriesWritten ==
    proc = "closed" => \A i \in DOMAIN files : Loadable(files[i])

(***************************************************************************)
(* A family that was closed can be opened: each of its files ends in its   *)
(* directory, which is the one the writer had in memory, and no variable   *)
(* is left in memory only.                                                 *)
(***************************************************************************)
ClosedIsLoadable ==
    proc = "closed" =>
        /\ ~fam.svars_fresh
        /\ \A i \in DOMAIN files :
               Loadable(files[i]) /\ files[i].dir = fam.directory[i].entries

(***************************************************************************)
(* Closing a record format "indicates there's data ready for output"       *)
(* (mc_close_srec): once the writer is done with the family every closed   *)
(* format is in the files, once; and those in the files are numbered as    *)
(* they will be loaded: add_srec makes the next format and fills the one   *)
(* whose id is in the file.                                                *)
(***************************************************************************)
FormatsSaved ==
    /\ proc \in {"closed", "overflow"} =>
           \A i \in DOMAIN fam.srecs : fam.srecs[i] \in {"closed", "saved"} =>
               Cardinality({k \in DOMAIN SavedFormats(files) : SavedFormats(files)[k] = i}) = 1
    /\ \A k \in DOMAIN SavedFormats(files) : SavedFormats(files)[k] = k

(***************************************************************************)
(* A committed file keeps its directory and its length: what is added to   *)
(* the family goes to another file, and a rewrite stays within its entry.  *)
(***************************************************************************)
CommittedIsFinal ==
    [][\A i \in DOMAIN files : files[i].commit_count > 0 =>
           /\ i \in DOMAIN files'
           /\ files'[i].dir = files[i].dir
           /\ files'[i].commit_count = files[i].commit_count
           /\ Len(files'[i].data) = Len(files[i].data)]_vars
=============================================================================
