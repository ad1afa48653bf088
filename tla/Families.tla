------------------------------ MODULE Families ------------------------------
(***************************************************************************)
(* Several processes open, write, close and delete one family.  Each keeps *)
(* its table of handles, fam_list; the write-lock file is what keeps a     *)
(* second writer out (mc_filelock_enable).                                 *)
(*                                                                         *)
(* The file system is reduced to what locking depends on: the inode that   *)
(* has the lock file's name, the process that has each of its two locks,   *)
(* and whether the family's other files are there and complete.  Byte 0 is *)
(* a writer's for as long as it writes; bytes 1 to 255, the name of the    *)
(* last complete non-state file, are locked to write or read that name.    *)
(* Locks are POSIX record locks: a process never meets its own lock, and   *)
(* loses it when it closes any descriptor of the inode.  mc_close unlocks  *)
(* from the descriptor's position on, which is never byte 0, and does not  *)
(* close the descriptor, so the byte stays locked until the process exits. *)
(*                                                                         *)
(* Family ids count from 1 here.                                           *)
(***************************************************************************)
EXTENDS Integers, Sequences, FiniteSets, SequencesExt, FiniteSetsExt

CONSTANTS
    Processes,
    App,        \* what the processes may do
    MaxSlots,   \* bound: slots of a process's fam_list
    MaxInodes   \* bound: lock files, in a behaviour

(***************************************************************************)
(* What processes may do beyond opening and closing:                       *)
(*   own_read      open the family again for reading while writing it      *)
(*   two_writers   open it twice for writing in one process                *)
(*   close_race    close the family, having written it, while another      *)
(*                 process is between opening the lock file and locking it *)
(*   fail_in_hole  go on after an mc_open failed whose slot was not the    *)
(*                 last of a full fam_list                                 *)
(*   delete_race   delete the family while another process opens it        *)
(***************************************************************************)
Privileges == {"own_read", "two_writers", "close_race", "fail_in_hole", "delete_race"}

ASSUME FamiliesAssumption ==
    /\ IsFiniteSet(Processes)
    /\ App \subseteq Privileges
    /\ MaxSlots \in Nat /\ MaxInodes \in Nat

Inodes == 1..MaxInodes
Modes  == {"r", "a", "w"}
Nobody == "nobody"

ASSUME NobodyAssumption == Nobody \notin Processes

VARIABLES
    wlock,    \* the inode that has the lock file's name, or 0
    owner,    \* the process that has byte 0 of each inode locked
    namer,    \* the process that has the name bytes of each inode locked
    made,     \* inodes made so far
    files,    \* the family's non-state files: gone, partial (one has no
              \* directory yet) or complete
    fam_list, \* each process's handles; its length is fam_array_length
    fam_qty,  \* each process's count of open families
    call,     \* the call each process is in
    held,     \* history: the ids mc_open returned to each process, still open
    deleted   \* history: a writer's files were deleted by another process

vars == <<wlock, owner, namer, made, files, fam_list, fam_qty, call, held, deleted>>
table == <<fam_list, fam_qty, held>>

\* NULL, a family that is open or being opened, and one that was freed.  Its
\* cur_file is NULL, a new file, or one that is committed but not closed yet.
Slot(state, mode) == [state |-> state, mode |-> mode, fd |-> 0, cur_file |-> "NULL"]
NULL   == Slot("null", "r")
Freed  == Slot("freed", "r")
NoCall == [step |-> "none", id |-> 0, fd |-> 0, create_db |-> FALSE]

Idle(p)        == call[p] = NoCall
Handles(p)     == {id \in DOMAIN fam_list[p] : fam_list[p][id].state = "open"}
Writes(p)      == \E id \in Handles(p) : fam_list[p][id].mode # "r"

Opening(p)  == call[p].step \in {"test", "test_byte", "lock", "lock_byte", "create",
                                 "load", "load_active"}
Deleting(p) == call[p].step \in {"delete_test", "delete"}

\* Whether F_TEST or F_TLOCK by p finds another process's lock.
LockedOut(p, ino) == owner[ino] \notin {p, Nobody}
NameTaken(p, ino) == namer[ino] \notin {p, Nobody}

\* p gives up its lock; close() of a descriptor gives up both.
Release(lock, p, ino) == [lock EXCEPT ![ino] = IF @ = p THEN Nobody ELSE @]
CloseLockFile(p, ino) == owner' = Release(owner, p, ino) /\ namer' = Release(namer, p, ino)

Set(p, id, slot) == [fam_list EXCEPT ![p][id] = slot]
Goto(p, step, fd) == call' = [call EXCEPT ![p].step = step, ![p].fd = fd]
Return(p) == call' = [call EXCEPT ![p] = NoCall]

-----------------------------------------------------------------------------
(***************************************************************************)
(* mc_open.                                                                *)
(***************************************************************************)
Holes(list) == {i \in DOMAIN list : list[i] = NULL}

\* Mutant: a family is always entered at fam_qty.
EnterAtQty(list, qty, slot) ==
    LET grown == IF qty < Len(list) THEN list ELSE Append(list, NULL)
    IN  [list |-> [grown EXCEPT ![qty + 1] = slot], id |-> qty + 1]

\* set_defaults: a free slot, if fam_qty says there is one, or another one.
EnterFamily(list, qty, slot) ==
    IF qty < Len(list) /\ Holes(list) # {}
    THEN [list |-> [list EXCEPT ![Min(Holes(list))] = slot], id |-> Min(Holes(list))]
    ELSE [list |-> [Append(list, NULL) EXCEPT ![qty + 1] = slot], id |-> qty + 1]

\* parse_control_string reads the header of a family that is not to be created,
\* and decides, before any lock is tried, whether this one is (create_db).
Open(p, mode) ==
    LET new    == EnterFamily(fam_list[p], fam_qty[p], Slot("opening", mode))
        create == mode = "w" \/ (mode = "a" /\ files = "gone")
    IN  /\ Idle(p)
        /\ mode = "r" => files # "gone"
        /\ Len(new.list) <= MaxSlots
        /\ mode # "r" => made + Cardinality({q \in Processes : Opening(q)}) < MaxInodes
        /\ "own_read" \in App \/ ~(mode = "r" /\ Writes(p))
        /\ "two_writers" \in App \/ ~(mode # "r" /\ Writes(p))
        /\ "delete_race" \in App \/ \A q \in Processes : ~Deleting(q)
        /\ fam_list' = [fam_list EXCEPT ![p] = new.list]
        /\ fam_qty' = [fam_qty EXCEPT ![p] = @ + 1]
        /\ call' = [call EXCEPT ![p] = [step |-> IF create THEN "lock" ELSE "test",
                                        id |-> new.id, fd |-> 0, create_db |-> create]]
        /\ UNCHANGED <<wlock, owner, namer, made, files, held, deleted>>

\* mc_open returns OK
Opened(p, id, slot) ==
    /\ fam_list' = Set(p, id, [slot EXCEPT !.state = "open"])
    /\ held' = [held EXCEPT ![p] = @ \cup {id}]
    /\ Return(p)
    /\ UNCHANGED fam_qty

\* mc_open fails: the table is made one shorter, and the family at fam_qty, not
\* the one being opened, is freed; the descriptor of the lock file stays open.
OpenFails(p) ==
    LET last  == fam_qty[p]
        freed == Set(p, last, IF fam_list[p][last] = NULL THEN NULL ELSE Freed)[p]
    IN  /\ "fail_in_hole" \in App \/ (call[p].id = last /\ last = Len(fam_list[p]))
        /\ fam_list' = [fam_list EXCEPT ![p] = Front(freed)]
        /\ fam_qty' = [fam_qty EXCEPT ![p] = @ - 1]
        /\ Return(p)
        /\ UNCHANGED held

\* test_write_lock: open the lock file
TestOpen(p) ==
    /\ call[p].step = "test"
    /\ IF wlock # 0 THEN Goto(p, "test_byte", wlock)
       ELSE Goto(p, IF fam_list[p][call[p].id].mode = "r" THEN "load" ELSE "lock", 0)
    /\ UNCHANGED <<wlock, owner, namer, made, files, table, deleted>>

\* F_TEST: the family is active if another process has the lock; if not, the
\* descriptor is closed again.
TestByte(p) ==
    LET fd   == call[p].fd
        mode == fam_list[p][call[p].id].mode
    IN  /\ call[p].step = "test_byte"
        /\ IF LockedOut(p, fd)
           THEN /\ IF mode = "r" THEN Goto(p, "load_active", fd) /\ UNCHANGED table
                   ELSE OpenFails(p)
                /\ UNCHANGED <<owner, namer>>
           ELSE /\ Goto(p, IF mode = "r" THEN "load" ELSE "lock", 0)
                /\ CloseLockFile(p, fd)
                /\ UNCHANGED table
        /\ UNCHANGED <<wlock, made, files, deleted>>

\* create_write_lock: open the lock file, or create it
LockOpen(p) ==
    /\ call[p].step = "lock"
    /\ IF wlock = 0
       THEN /\ made' = made + 1 /\ wlock' = made + 1
       ELSE UNCHANGED <<made, wlock>>
    /\ Goto(p, "lock_byte", wlock')
    /\ UNCHANGED <<owner, namer, files, table, deleted>>

\* Mutant: a lock that is held is not noticed.
NeverLockedOut(p, ino) == FALSE

\* Whether F_TLOCK fails.
LockTaken(p, ino) == LockedOut(p, ino)

LockByte(p) ==
    LET fd == call[p].fd
    IN  /\ call[p].step = "lock_byte"
        /\ IF LockTaken(p, fd) THEN OpenFails(p) /\ UNCHANGED owner
           ELSE /\ owner' = [owner EXCEPT ![fd] = p]
                /\ fam_list' = [fam_list EXCEPT ![p][call[p].id].fd = fd]
                /\ Goto(p, IF call[p].create_db THEN "create" ELSE "load", fd)
                /\ UNCHANGED <<fam_qty, held>>
        /\ UNCHANGED <<wlock, namer, made, files, deleted>>

OthersWrite(p) == \E q \in Processes \ {p} : Writes(q)

\* create_family: the files of the old family go, the first of the new one comes.
CreateFamily(p) ==
    /\ call[p].step = "create"
    /\ Opened(p, call[p].id, [fam_list[p][call[p].id] EXCEPT !.cur_file = "new"])
    /\ files' = "partial"
    /\ deleted' = (deleted \/ OthersWrite(p))
    /\ UNCHANGED <<wlock, owner, namer, made>>

\* open_family, when no other process writes: the directories are loaded, and an
\* append writes the last file's name to the lock file, unless no file is left.
\* A file without its directory cannot be loaded.
Load(p) ==
    LET id   == call[p].id
        slot == fam_list[p][id]
        name == slot.mode = "a" /\ files = "complete"
        fail == files = "partial" \/ (name /\ NameTaken(p, slot.fd))
    IN  /\ call[p].step = "load"
        /\ IF fail THEN OpenFails(p) ELSE Opened(p, id, slot)
        /\ namer' = IF name /\ ~fail THEN Release(namer, p, slot.fd) ELSE namer
        /\ UNCHANGED <<wlock, owner, made, files, deleted>>

\* load_directories of an active family: the name is locked, but what is read of
\* the lock file is never the 256 bytes the reader wants, and it returns without
\* unlocking the name.
LoadActive(p) ==
    LET fd == call[p].fd
    IN  /\ call[p].step = "load_active"
        /\ OpenFails(p)
        /\ namer' = IF NameTaken(p, fd) THEN namer ELSE [namer EXCEPT ![fd] = p]
        /\ UNCHANGED <<wlock, owner, made, files, deleted>>

-----------------------------------------------------------------------------
(***************************************************************************)
(* Non-state data, mc_flush, mc_close, mc_delete_family, exit.             *)
(***************************************************************************)
\* Mutant: a commit leaves the directory out.
NoDirectory(state) == state

\* The last file gets its directory, if it still has its name.
WithDirectory(state) == IF state = "partial" THEN "complete" ELSE state

\* commit_non_state of a new file: the directory is written, but the name in the
\* lock file cannot be locked, which is returned as an error.
CommitFails(p, id) ==
    /\ fam_list[p][id].cur_file = "new"
    /\ NameTaken(p, fam_list[p][id].fd)

\* The file stays open after that, with what was written in its buffer.
LeaveOpen(p, id) == Set(p, id, [fam_list[p][id] EXCEPT !.cur_file = "committed"])

\* Non-state data is written: a committed file is closed, and the next one opened.
Write(p, id) ==
    /\ Idle(p) /\ id \in Handles(p)
    /\ fam_list[p][id].mode # "r"
    /\ fam_list[p][id].cur_file # "new"
    /\ fam_list' = Set(p, id, [fam_list[p][id] EXCEPT !.cur_file = "new"])
    /\ files' = "partial"
    /\ UNCHANGED <<wlock, owner, namer, made, fam_qty, call, held, deleted>>

\* mc_flush
Flush(p, id) ==
    LET slot == fam_list[p][id]
    IN  /\ Idle(p) /\ id \in Handles(p) /\ slot.cur_file = "new"
        /\ IF CommitFails(p, id)
           THEN fam_list' = LeaveOpen(p, id) /\ UNCHANGED <<files, namer>>
           ELSE /\ fam_list' = Set(p, id, [slot EXCEPT !.cur_file = "NULL"])
                /\ files' = WithDirectory(files)
                /\ namer' = Release(namer, p, slot.fd)
        /\ UNCHANGED <<wlock, owner, made, fam_qty, call, held, deleted>>

\* Mutant: the slot is not set to NULL.
LeaveSlot(p, id) == Set(p, id, Freed)

ClearSlot(p, id) == Set(p, id, NULL)

\* mc_close: if the commit fails it returns that error, and the family is open.
CloseFamily(p, id) ==
    LET slot == fam_list[p][id]
    IN  /\ \/ "close_race" \in App
           \/ slot.mode = "r"
           \/ \A q \in Processes : call[q].step # "lock_byte"
        /\ IF CommitFails(p, id)
           THEN /\ fam_list' = LeaveOpen(p, id)
                /\ UNCHANGED <<wlock, namer, files, fam_qty, held>>
           ELSE /\ wlock' = IF slot.mode = "r" THEN wlock ELSE 0
                /\ namer' = IF slot.cur_file = "new" THEN Release(namer, p, slot.fd) ELSE namer
                /\ files' = IF slot.cur_file = "NULL" THEN files ELSE WithDirectory(files)
                /\ fam_list' = ClearSlot(p, id)
                /\ fam_qty' = [fam_qty EXCEPT ![p] = @ - 1]
                /\ held' = [held EXCEPT ![p] = @ \ {id}]

Close(p, id) ==
    /\ Idle(p) /\ id \in Handles(p)
    /\ CloseFamily(p, id)
    /\ UNCHANGED <<owner, made, call, deleted>>

\* mc_delete_family closes the family if this process has it open, and returns
\* if that fails.
DeleteFamily(p) ==
    LET id == Min(Handles(p))
    IN  /\ Idle(p)
        /\ "delete_race" \in App \/ \A q \in Processes : ~Opening(q)
        /\ IF Handles(p) = {}
           THEN Goto(p, "delete_test", 0) /\ UNCHANGED <<wlock, namer, files, table>>
           ELSE /\ CloseFamily(p, id)
                /\ IF CommitFails(p, id) THEN UNCHANGED call ELSE Goto(p, "delete_test", 0)
        /\ UNCHANGED <<owner, made, deleted>>

\* Then it looks for a lock of another.
DeleteTest(p) ==
    /\ call[p].step = "delete_test"
    /\ IF wlock # 0 /\ LockedOut(p, wlock)
       THEN Return(p) /\ CloseLockFile(p, wlock)
       ELSE Goto(p, "delete", 0) /\ UNCHANGED <<owner, namer>>
    /\ UNCHANGED <<wlock, made, files, table, deleted>>

DeleteFiles(p) ==
    /\ call[p].step = "delete"
    /\ files' = "gone"
    /\ deleted' = (deleted \/ OthersWrite(p))
    /\ Return(p)
    /\ UNCHANGED <<wlock, owner, namer, made, table>>

\* A process ends, at any time: the system closes its descriptors.  If it ends by
\* exit() the directory that was in a buffer gets to its file.
Exit(p) ==
    /\ files' \in {files} \cup {WithDirectory(files) :
                      id \in {i \in Handles(p) : fam_list[p][i].cur_file = "committed"}}
    /\ owner' = [ino \in Inodes |-> IF owner[ino] = p THEN Nobody ELSE owner[ino]]
    /\ namer' = [ino \in Inodes |-> IF namer[ino] = p THEN Nobody ELSE namer[ino]]
    /\ fam_list' = [fam_list EXCEPT ![p] = << >>]
    /\ fam_qty' = [fam_qty EXCEPT ![p] = 0]
    /\ held' = [held EXCEPT ![p] = {}]
    /\ Return(p)
    /\ UNCHANGED <<wlock, made, deleted>>

-----------------------------------------------------------------------------
Init ==
    /\ wlock = 0 /\ made = 0 /\ files = "gone"
    /\ owner = [ino \in Inodes |-> Nobody] /\ namer = [ino \in Inodes |-> Nobody]
    /\ fam_list = [p \in Processes |-> << >>]
    /\ fam_qty = [p \in Processes |-> 0]
    /\ call = [p \in Processes |-> NoCall]
    /\ held = [p \in Processes |-> {}]
    /\ deleted = FALSE

\* The steps within a call.
Step(p) == TestOpen(p) \/ TestByte(p) \/ LockOpen(p) \/ LockByte(p) \/ CreateFamily(p)
           \/ Load(p) \/ LoadActive(p) \/ DeleteTest(p) \/ DeleteFiles(p)

Next == \E p \in Processes :
    \/ \E mode \in Modes : Open(p, mode)
    \/ \E id \in 1..MaxSlots : Write(p, id) \/ Flush(p, id) \/ Close(p, id)
    \/ Step(p) \/ DeleteFamily(p) \/ Exit(p)

Spec == Init /\ [][Next]_vars

-----------------------------------------------------------------------------
(***************************************************************************)
(* Properties.                                                             *)
(***************************************************************************)
SlotType == [state : {"null", "opening", "open", "freed"}, mode : Modes,
             fd : 0..MaxInodes, cur_file : {"NULL", "new", "committed"}]

CallType == [step : {"none", "test", "test_byte", "lock", "lock_byte", "create", "load",
                     "load_active", "delete_test", "delete"},
             id : 0..MaxSlots, fd : 0..MaxInodes, create_db : BOOLEAN]

\* The variables have their types, fam_qty counts the slots in use, and a call
\* works on a slot that is there.
TypeOK ==
    /\ wlock \in 0..made /\ made \in 0..MaxInodes /\ files \in {"gone", "partial", "complete"}
    /\ owner \in [Inodes -> Processes \cup {Nobody}]
    /\ namer \in [Inodes -> Processes \cup {Nobody}]
    /\ fam_list \in [Processes -> Seq(SlotType)]
    /\ \A p \in Processes :
           /\ fam_qty[p] = Cardinality(DOMAIN fam_list[p] \ Holes(fam_list[p]))
           /\ Opening(p) => call[p].id \in DOMAIN fam_list[p]
    /\ call \in [Processes -> CallType]
    /\ held \in [Processes -> SUBSET (1..MaxSlots)]
    /\ deleted \in BOOLEAN

\* Two processes never have the family open for writing at a time ("Only one
\* process can have write access on a family", open_family).
SoleWriter == \A p \in Processes : Writes(p) => ~OthersWrite(p)

\* And whoever writes it holds the lock of the file that has the lock file's name:
\* so a third is kept out as well.
OneWriter == /\ SoleWriter
             /\ \A p \in Processes : Writes(p) => wlock # 0 /\ owner[wlock] = p

\* A family id that mc_open returned stays the id of that family until it is
\* closed, whatever is opened, refused and closed in other slots.
IdsStayValid == \A p \in Processes : held[p] = Handles(p)

\* Nobody deletes the files under a process that writes them: mc_delete_family
\* and mc_open with mode "w" are kept out by the lock.
FilesStay == ~deleted

\* A family with a file that lacks its directory has a lock file: the one thing
\* that tells what a dead writer, or an mc_close that failed, left from a family
\* that was closed.
UnfinishedIsMarked == files = "partial" => wlock # 0

\* A commit always finds the name free ("Shouldn't ever get here - notify user",
\* commit_non_state and open_family).
NameLockPlaced == \A p \in Processes : \A id \in Handles(p) :
                      fam_list[p][id].cur_file # "committed"

\* A family opened with "append" is created, and what is there deleted, only if
\* there is no complete one ("Opened with append, but must be created",
\* parse_control_string).
AppendKeeps == \A p \in Processes :
    call[p].step = "create" /\ fam_list[p][call[p].id].mode = "a" => files # "complete"
=============================================================================
