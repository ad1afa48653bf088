--------------------------- MODULE FamiliesProofs ---------------------------
(***************************************************************************)
(* Proofs about Families, for any number of processes, handles and lock    *)
(* files: the table of handles is right, at most one process writes,       *)
(* nobody deletes its files, and an unfinished family has a lock file.     *)
(*                                                                         *)
(* Each needs that the processes leave some of the uses in App alone; the  *)
(* assumptions below name them.  The table's invariant (Table) says which  *)
(* slot a call works on; the lock's (Locking) that whoever has got byte 0  *)
(* of the file of that name keeps it until it takes the name away; Marked, *)
(* that a file without its directory is the one its writer has open.       *)
(***************************************************************************)
EXTENDS Families, FiniteSetTheorems, WellFoundedInduction, TLAPS

NoFailInHole == "fail_in_hole" \notin App
LockRespected == App \cap {"fail_in_hole", "own_read", "two_writers", "close_race"} = {}
AllRespected  == LockRespected /\ "delete_race" \notin App

-----------------------------------------------------------------------------
(***************************************************************************)
(* The invariant.                                                          *)
(***************************************************************************)
Locks == [Inodes -> Processes \cup {Nobody}]
FileStates == {"gone", "partial", "complete"}

\* A table, and how many of its slots are in use.
IsTable(list, qty) ==
    /\ list \in Seq(SlotType) /\ Len(list) <= MaxSlots
    /\ qty = Cardinality(DOMAIN list \ Holes(list))

\* The slot of the family being opened is its call's.
OpenSteps == {"test", "test_byte", "lock", "lock_byte", "create", "load", "load_active"}
DeleteSteps == {"delete_test", "delete"}

Fits(list, c) ==
    /\ \A id \in DOMAIN list :
           /\ list[id].state # "freed"
           /\ list[id].state = "null" => list[id] = NULL
           /\ list[id].state = "opening" => c.step \in OpenSteps /\ c.id = id
    /\ c.step \in OpenSteps =>
           /\ c.id \in DOMAIN list
           /\ list[c.id].state = "opening"
    /\ c.step \in {"lock", "lock_byte", "create"} => list[c.id].mode # "r"

OpenIn(list) == {id \in DOMAIN list : list[id].state = "open"}
WritesIn(list) == \E id \in OpenIn(list) : list[id].mode # "r"

\* A family is open for writing that has no non-state file open.
CleanIn(list) == \E id \in OpenIn(list) : list[id].mode # "r" /\ list[id].cur_file = "NULL"

\* At most one family is open for writing.
Single(list) == \A i, j \in OpenIn(list) : list[i].mode # "r" /\ list[j].mode # "r" => i = j

\* A process's table, count, call and ids.
Row(list, qty, c, ids) == IsTable(list, qty) /\ Fits(list, c) /\ ids = OpenIn(list)

Table ==
    /\ fam_list \in [Processes -> Seq(SlotType)]
    /\ fam_qty \in [Processes -> Nat]
    /\ call \in [Processes -> CallType]
    /\ held \in [Processes -> SUBSET (1..MaxSlots)]
    /\ \A p \in Processes : Row(fam_list[p], fam_qty[p], call[p], held[p])

\* The calls that have yet to open the lock file, each of which may make one.
Making(c, list) == c.step \in {"test", "test_byte", "lock"} /\ list[c.id].mode # "r"
Before == {p \in Processes : Making(call[p], fam_list[p])}

Disk ==
    /\ wlock \in 0..made /\ made \in 0..MaxInodes
    /\ made + Cardinality(Before) <= MaxInodes
    /\ files \in FileStates /\ deleted \in BOOLEAN
    /\ owner \in Locks /\ namer \in Locks

\* A call that has got byte 0.
Holding(c, list) == c.step = "create" \/ (c.step = "load" /\ list[c.id].mode # "r")

Owns(p) == wlock # 0 /\ owner[wlock] = p

Locking ==
    \A p \in Processes :
        /\ call[p].step = "lock_byte" => wlock # 0 /\ call[p].fd = wlock
        /\ Holding(call[p], fam_list[p]) \/ WritesIn(fam_list[p]) => Owns(p)
        /\ call[p].step \in OpenSteps => ~WritesIn(fam_list[p])
        /\ Single(fam_list[p])

Marked ==
    /\ files = "partial" => wlock # 0
    /\ \A p \in Processes : CleanIn(fam_list[p]) => files # "partial"

\* While a process is about to delete, nobody comes to write, and nobody else
\* writes once it has found no lock.
DeletesAlone ==
    /\ deleted = FALSE
    /\ \A p, q \in Processes :
           /\ call[p].step \in DeleteSteps => call[q].step \notin OpenSteps
           /\ call[p].step = "delete" /\ q # p => ~WritesIn(fam_list[q])

IInv == /\ Table /\ Disk
        /\ LockRespected => Locking /\ Marked
        /\ AllRespected => DeletesAlone

-----------------------------------------------------------------------------
(***************************************************************************)
(* Tables.                                                                 *)
(***************************************************************************)
\* A set of natural numbers has a least element, which is Min's.
LEMMA LeastElement ==
    ASSUME NEW T \in SUBSET Nat, T # {}
    PROVE  Min(T) \in T
<1> DEFINE R == StrictSubsetOrdering(Nat)
           U == {0..x : x \in T}
<1>1. IsWellFoundedOn(R, FiniteSubsetsOf(Nat))
  BY FS_StrictSubsetOrderingWellFounded
<1>2. U \subseteq FiniteSubsetsOf(Nat)
  <2>1. \A x \in T : 0..x \subseteq Nat /\ IsFiniteSet(0..x)
    BY FS_Interval
  <2>2. QED
    BY <2>1 DEF FiniteSubsetsOf
<1>3. \E u \in U : \A v \in U : ~(<<v, u>> \in R)
  <2>1. U # {}
    OBVIOUS
  <2> HIDE DEF R, U
  <2>2. QED
    BY <2>1, <1>1, <1>2, WFMin
<1>4. PICK x \in T : \A y \in T : ~(<<0..y, 0..x>> \in R)
  <2>1. PICK u \in U : \A v \in U : ~(<<v, u>> \in R)
    BY <1>3
  <2>2. PICK x \in T : u = 0..x
    BY <2>1
  <2> HIDE DEF R
  <2>3. QED
    BY <2>1, <2>2
<1>5. ASSUME NEW y \in T PROVE x <= y
  <2>1. SUFFICES ASSUME y < x PROVE FALSE
    OBVIOUS
  <2>2. x \in 0..x /\ x \notin 0..y /\ 0..y \subseteq 0..x
    BY <2>1
  <2>3. 0..x \subseteq Nat /\ 0..y \subseteq Nat
    OBVIOUS
  <2>4. <<0..y, 0..x>> \in R
    BY <2>2, <2>3 DEF StrictSubsetOrdering
  <2>5. QED
    BY <2>4, <1>4
<1>6. QED
  BY <1>5 DEF Min

\* A call goes to another step.
Moved(c, step, fd) == [c EXCEPT !.step = step, !.fd = fd]

LEMMA Going ==
    ASSUME NEW c \in CallType, NEW step \in OpenSteps \cup DeleteSteps, NEW fd \in 0..MaxInodes
    PROVE  /\ Moved(c, step, fd) \in CallType
           /\ Moved(c, step, fd).step = step
           /\ Moved(c, step, fd).fd = fd
           /\ Moved(c, step, fd).id = c.id
  BY DEF Moved, CallType, OpenSteps, DeleteSteps

LEMMA NullSlot == NULL \in SlotType
  BY FamiliesAssumption DEF NULL, Slot, SlotType, Modes

LEMMA TableIsSeq ==
    ASSUME NEW list, NEW qty, IsTable(list, qty)
    PROVE  list \in Seq(SlotType) /\ Len(list) \in Nat /\ DOMAIN list = 1..Len(list)
  BY DEF IsTable

\* The slots in use of a table: all of them exactly if it has no hole.
LEMMA InUse ==
    ASSUME NEW list \in Seq(SlotType)
    PROVE  /\ IsFiniteSet(DOMAIN list \ Holes(list))
           /\ Cardinality(DOMAIN list \ Holes(list)) \in 0..Len(list)
           /\ Cardinality(DOMAIN list \ Holes(list)) = Len(list) <=> Holes(list) = {}
<1>1. Len(list) \in Nat /\ DOMAIN list = 1..Len(list)
  OBVIOUS
<1>2. IsFiniteSet(1..Len(list)) /\ Cardinality(1..Len(list)) = Len(list)
  BY <1>1, FS_Interval
<1> DEFINE U == DOMAIN list \ Holes(list)
<1>3. U \in SUBSET (1..Len(list)) /\ Holes(list) \subseteq 1..Len(list)
  BY <1>1 DEF Holes
<1> HIDE DEF U
<1>4. /\ IsFiniteSet(U) /\ Cardinality(U) <= Len(list)
      /\ Cardinality(U) = Len(list) => U = 1..Len(list)
  BY <1>2, <1>3, FS_Subset
<1>5. Cardinality(U) \in Nat
  BY <1>4, FS_CardinalityType
<1>6. U = 1..Len(list) <=> Holes(list) = {}
  BY <1>1, <1>3 DEF U
<1>7. Cardinality(U) \in 0..Len(list) /\ (Cardinality(U) = Len(list) <=> Holes(list) = {})
  BY <1>1, <1>2, <1>4, <1>5, <1>6
<1>8. QED
  BY <1>4, <1>7 DEF U

\* set_defaults puts the new family into a slot nobody uses, moves no other, and
\* takes the one behind the last if there is no hole.
Entered(list, qty, slot, new) ==
    /\ IsTable(new.list, qty + 1)
    /\ new.id \in DOMAIN new.list
    /\ new.list[new.id] = slot
    /\ DOMAIN new.list = DOMAIN list \cup {new.id}
    /\ new.id \in DOMAIN list => list[new.id] = NULL
    /\ \A i \in DOMAIN list : i # new.id => new.list[i] = list[i]
    /\ Holes(list) = {} => new.id = Len(new.list) /\ Holes(new.list) = {}

LEMMA Entering ==
    ASSUME NEW list, NEW qty, IsTable(list, qty), NEW slot \in SlotType, slot # NULL,
           NEW new, new = EnterFamily(list, qty, slot), Len(new.list) <= MaxSlots
    PROVE  Entered(list, qty, slot, new)
<1> DEFINE U == DOMAIN list \ Holes(list)
<1>1. /\ list \in Seq(SlotType) /\ Len(list) \in Nat /\ DOMAIN list = 1..Len(list)
      /\ qty = Cardinality(U)
  BY DEF IsTable
<1>2. /\ IsFiniteSet(U) /\ qty \in 0..Len(list)
      /\ qty = Len(list) <=> Holes(list) = {}
  BY <1>1, InUse
<1>3. Holes(list) \subseteq 1..Len(list) /\ \A i \in Holes(list) : list[i] = NULL
  BY <1>1 DEF Holes
<1>4. NULL \in SlotType
  BY NullSlot
<1>5. /\ new.list \in Seq(SlotType)
      /\ new.id \in 1..Len(new.list) /\ new.list[new.id] = slot
      /\ 1..Len(new.list) = DOMAIN list \cup {new.id}
      /\ new.id \in DOMAIN list => list[new.id] = NULL
      /\ \A i \in DOMAIN list : i # new.id => new.list[i] = list[i]
      /\ Holes(list) = {} => new.id = Len(new.list)
  <2>1. CASE Holes(list) # {}
    <3> DEFINE m == Min(Holes(list))
    <3>1. m \in Holes(list)
      BY <2>1, <1>3, LeastElement
    <3>2. new = [list |-> [list EXCEPT ![m] = slot], id |-> m]
      BY <2>1, <1>2 DEF EnterFamily
    <3> HIDE DEF m
    <3>3. new.list = [list EXCEPT ![m] = slot] /\ new.id = m /\ m \in 1..Len(list) /\ list[m] = NULL
      BY <3>1, <3>2, <1>3
    <3>4. Len(new.list) = Len(list) /\ new.list \in Seq(SlotType)
      BY <3>3, <1>1
    <3>5. QED
      BY <3>3, <3>4, <1>1, <2>1
  <2>2. CASE Holes(list) = {}
    <3>1. new = [list |-> [Append(list, NULL) EXCEPT ![Len(list) + 1] = slot], id |-> Len(list) + 1]
      BY <2>2, <1>2 DEF EnterFamily
    <3>2. /\ Append(list, NULL) \in Seq(SlotType) /\ Len(Append(list, NULL)) = Len(list) + 1
          /\ \A i \in 1..Len(list) : Append(list, NULL)[i] = list[i]
      BY <1>1, <1>4
    <3> DEFINE grown == Append(list, NULL)
    <3> HIDE DEF grown
    <3>3. new.list = [grown EXCEPT ![Len(list) + 1] = slot] /\ new.id = Len(list) + 1
      BY <3>1 DEF grown
    <3>4. /\ grown \in Seq(SlotType) /\ Len(grown) = Len(list) + 1
          /\ \A i \in 1..Len(list) : grown[i] = list[i]
      BY <3>2 DEF grown
    <3>5. /\ new.list \in Seq(SlotType) /\ Len(new.list) = Len(list) + 1
          /\ new.list[new.id] = slot
          /\ \A i \in 1..Len(list) : new.list[i] = list[i]
      BY <3>3, <3>4, <1>1
    <3>6. QED
      BY <3>3, <3>5, <1>1, <2>2
  <2>3. QED
    BY <2>1, <2>2
<1>6. DOMAIN new.list = 1..Len(new.list)
  BY <1>5
<1>7. DOMAIN new.list \ Holes(new.list) = U \cup {new.id} /\ new.id \notin U
  BY <1>5, <1>6, <1>1 DEF Holes
<1>8. Cardinality(DOMAIN new.list \ Holes(new.list)) = qty + 1
  BY <1>7, <1>1, <1>2, FS_AddElement
<1>9. Holes(list) = {} => Holes(new.list) = {}
  BY <1>5, <1>6 DEF Holes
<1>10. QED
  BY <1>5, <1>6, <1>8, <1>9 DEF IsTable, Entered

\* A slot that is set to something that is no hole, where there was none.
LEMMA Changing ==
    ASSUME NEW list, NEW qty, IsTable(list, qty), NEW i \in DOMAIN list, list[i] # NULL,
           NEW slot \in SlotType, slot # NULL
    PROVE  /\ IsTable([list EXCEPT ![i] = slot], qty)
           /\ Holes([list EXCEPT ![i] = slot]) = Holes(list)
           /\ Len([list EXCEPT ![i] = slot]) = Len(list)
<1>1. list \in Seq(SlotType) /\ Len(list) \in Nat /\ DOMAIN list = 1..Len(list)
  BY DEF IsTable
<1>2. /\ [list EXCEPT ![i] = slot] \in Seq(SlotType)
      /\ Len([list EXCEPT ![i] = slot]) = Len(list)
      /\ DOMAIN [list EXCEPT ![i] = slot] = DOMAIN list
  BY <1>1
<1>3. Holes([list EXCEPT ![i] = slot]) = Holes(list)
  BY <1>1, <1>2 DEF Holes
<1>4. QED
  BY <1>2, <1>3 DEF IsTable

\* A family that is closed leaves a hole.
LEMMA Clearing ==
    ASSUME NEW list, NEW qty, IsTable(list, qty), NEW i \in DOMAIN list, list[i] # NULL
    PROVE  /\ IsTable([list EXCEPT ![i] = NULL], qty - 1)
           /\ qty - 1 \in Nat
           /\ Len([list EXCEPT ![i] = NULL]) = Len(list)
<1> DEFINE U == DOMAIN list \ Holes(list)
           cleared == [list EXCEPT ![i] = NULL]
<1>1. /\ list \in Seq(SlotType) /\ Len(list) \in Nat /\ DOMAIN list = 1..Len(list)
      /\ qty = Cardinality(U)
  BY DEF IsTable
<1>2. NULL \in SlotType
  BY NullSlot
<1>3. cleared \in Seq(SlotType) /\ Len(cleared) = Len(list) /\ DOMAIN cleared = DOMAIN list
  BY <1>1, <1>2
<1>4. DOMAIN cleared \ Holes(cleared) = U \ {i} /\ i \in U
  BY <1>1, <1>3 DEF Holes
<1>5. IsFiniteSet(U) /\ Cardinality(U) \in Nat
  BY <1>1, InUse, FS_CardinalityType
<1>6. Cardinality(U \ {i}) = qty - 1 /\ Cardinality(U \ {i}) \in Nat
  <2>1. IsFiniteSet(U \ {i}) /\ Cardinality(U \ {i}) = qty - 1
    BY <1>1, <1>4, <1>5, FS_RemoveElement
  <2>2. QED
    BY <2>1, FS_CardinalityType
<1>7. QED
  BY <1>1, <1>3, <1>4, <1>6 DEF IsTable

\* A table without holes that loses its last slot.
LEMMA Popping ==
    ASSUME NEW list, NEW qty, IsTable(list, qty), list # << >>, Holes(list) = {},
           NEW slot
    PROVE  /\ qty = Len(list)
           /\ IsTable(Front([list EXCEPT ![qty] = slot]), qty - 1)
           /\ qty - 1 \in Nat
           /\ Front([list EXCEPT ![qty] = slot]) = SubSeq(list, 1, Len(list) - 1)
           /\ Holes(Front([list EXCEPT ![qty] = slot])) = {}
<1>1. /\ list \in Seq(SlotType) /\ Len(list) \in Nat /\ DOMAIN list = 1..Len(list)
      /\ Len(list) >= 1
  BY DEF IsTable
<1>2. qty = Len(list)
  BY <1>1, InUse DEF IsTable
<1> DEFINE short == SubSeq(list, 1, Len(list) - 1)
           front == Front([list EXCEPT ![qty] = slot])
<1>3. front = short
  <2> DEFINE other == [list EXCEPT ![qty] = slot]
  <2>1. other = [k \in 1..Len(list) |-> IF k = Len(list) THEN slot ELSE list[k]]
    BY <1>1, <1>2
  <2>2. Len(other) = Len(list)
    BY <2>1, <1>1
  <2>3. front = [k \in 1..Len(list) - 1 |-> other[k]]
    BY <2>2, <1>1 DEF Front
  <2>4. short = [k \in 1..Len(list) - 1 |-> list[k]]
    BY <1>1
  <2>5. \A k \in 1..Len(list) - 1 : other[k] = list[k]
    BY <2>1, <1>1
  <2> HIDE DEF other, short
  <2>6. QED
    BY <2>3, <2>4, <2>5
<1>4. /\ short \in Seq(SlotType) /\ Len(short) = Len(list) - 1
      /\ \A k \in 1..Len(short) : short[k] = list[k]
  BY <1>1
<1>5. Holes(short) = {}
  BY <1>1, <1>4 DEF Holes
<1>6. Cardinality(DOMAIN short \ Holes(short)) = Len(short)
  BY <1>4, <1>5, InUse
<1> HIDE DEF short, front
<1>7. Len(short) <= MaxSlots /\ Len(short) = qty - 1 /\ qty - 1 \in Nat
  BY <1>1, <1>2, <1>4, FamiliesAssumption DEF IsTable
<1>8. IsTable(short, qty - 1)
  BY <1>4, <1>6, <1>7 DEF IsTable
<1>9. QED
  BY <1>2, <1>3, <1>5, <1>7, <1>8 DEF short, front

-----------------------------------------------------------------------------
(***************************************************************************)
(* A process's row, by what a step does to it.                             *)
(***************************************************************************)
\* Entering the family that is to be opened.
LEMMA RowOpen ==
    ASSUME NEW list, NEW qty, NEW c, NEW ids, Row(list, qty, c, ids), c.step \notin OpenSteps,
           NEW mode \in Modes, NEW new, new = EnterFamily(list, qty, Slot("opening", mode)),
           Len(new.list) <= MaxSlots,
           NEW d, d.step \in {"test", "lock"}, d.step = "lock" => mode # "r", d.id = new.id
    PROVE  /\ Row(new.list, qty + 1, d, ids)
           /\ WritesIn(new.list) <=> WritesIn(list)
           /\ CleanIn(new.list) <=> CleanIn(list)
           /\ Single(list) => Single(new.list)
<1> DEFINE slot == Slot("opening", mode)
<1>1. slot \in SlotType /\ slot.state = "opening" /\ slot.mode = mode /\ slot # NULL
  BY FamiliesAssumption DEF Slot, SlotType, NULL, Modes
<1> HIDE DEF slot
<1>2. IsTable(list, qty) /\ Fits(list, c) /\ ids = OpenIn(list)
  BY DEF Row
<1>3. new = EnterFamily(list, qty, slot)
  BY DEF slot
<1>4. /\ IsTable(new.list, qty + 1)
      /\ new.id \in DOMAIN new.list
      /\ new.list[new.id] = slot
      /\ DOMAIN new.list = DOMAIN list \cup {new.id}
      /\ new.id \in DOMAIN list => list[new.id] = NULL
      /\ \A i \in DOMAIN list : i # new.id => new.list[i] = list[i]
      /\ Holes(list) = {} => new.id = Len(new.list) /\ Holes(new.list) = {}
  <2>1. slot \in SlotType /\ slot # NULL /\ IsTable(list, qty)
    BY <1>1, <1>2
  <2>2. Entered(list, qty, slot, new)
    BY <2>1, <1>3, Entering
  <2>3. QED
    BY <2>2 DEF Entered
<1>5. NULL.state = "null"
  BY DEF NULL, Slot
<1> DEFINE l == new.list
           k == new.id
<1> HIDE DEF l, k
<1>6. /\ DOMAIN l = DOMAIN list \cup {k} /\ l[k] = slot
      /\ k \in DOMAIN list => list[k].state = "null"
      /\ \A i \in DOMAIN list : i # k => l[i] = list[i]
      /\ d.id = k
  BY <1>4, <1>5 DEF l, k
<1>7. OpenIn(l) = OpenIn(list) /\ \A i \in OpenIn(list) : l[i] = list[i]
  BY <1>6, <1>1 DEF OpenIn
<1>8. Fits(l, d)
  <2>1. \A i \in DOMAIN l : /\ l[i].state # "freed"
                            /\ l[i].state = "null" => l[i] = NULL
                            /\ l[i].state = "opening" => i = k
    BY <1>2, <1>6, <1>1 DEF Fits
  <2>2. QED
    BY <2>1, <1>1, <1>6 DEF Fits, OpenSteps
<1>9. QED
  BY <1>2, <1>4, <1>7, <1>8 DEF Row, WritesIn, CleanIn, Single, l

\* A step within mc_open: the slot stays the call's, whatever its descriptor.
LEMMA RowStep ==
    ASSUME NEW list, NEW qty, NEW c, NEW ids, Row(list, qty, c, ids), c.step \in OpenSteps,
           NEW slot \in SlotType, slot.state = "opening", slot.mode = list[c.id].mode,
           NEW d, d.step \in OpenSteps, d.id = c.id,
           d.step \in {"lock", "lock_byte", "create"} => slot.mode # "r"
    PROVE  /\ Row([list EXCEPT ![c.id] = slot], qty, d, ids)
           /\ WritesIn([list EXCEPT ![c.id] = slot]) <=> WritesIn(list)
           /\ CleanIn([list EXCEPT ![c.id] = slot]) <=> CleanIn(list)
           /\ Single(list) => Single([list EXCEPT ![c.id] = slot])
<1> DEFINE l == [list EXCEPT ![c.id] = slot]
<1>1. IsTable(list, qty) /\ Fits(list, c) /\ ids = OpenIn(list)
  BY DEF Row
<1>2. /\ c.id \in DOMAIN list /\ list[c.id].state = "opening"
      /\ list[c.id] # NULL /\ slot # NULL
  BY <1>1 DEF Fits, NULL, Slot
<1>3. IsTable(l, qty) /\ Holes(l) = Holes(list) /\ Len(l) = Len(list)
  BY <1>1, <1>2, Changing
<1>4. /\ DOMAIN l = DOMAIN list /\ l[c.id] = slot
      /\ \A i \in DOMAIN list : i # c.id => l[i] = list[i]
  BY <1>2
<1> HIDE DEF l
<1>5. OpenIn(l) = OpenIn(list) /\ \A i \in OpenIn(list) : l[i] = list[i]
  BY <1>2, <1>4 DEF OpenIn
<1>6. Fits(l, d)
  <2>1. \A i \in DOMAIN l : /\ l[i].state # "freed"
                            /\ l[i].state = "null" => l[i] = NULL
                            /\ l[i].state = "opening" => i = c.id
    BY <1>1, <1>4 DEF Fits
  <2>2. QED
    BY <2>1, <1>2, <1>4 DEF Fits
<1>7. QED
  BY <1>1, <1>3, <1>5, <1>6 DEF Row, WritesIn, CleanIn, Single, l

\* mc_open returns OK.
LEMMA RowOpened ==
    ASSUME NEW list, NEW qty, NEW c, NEW ids, Row(list, qty, c, ids), c.step \in OpenSteps,
           NEW slot \in SlotType, slot.state = "open", slot.mode = list[c.id].mode
    PROVE  /\ Row([list EXCEPT ![c.id] = slot], qty, NoCall, ids \cup {c.id})
           /\ WritesIn([list EXCEPT ![c.id] = slot]) <=> WritesIn(list) \/ slot.mode # "r"
           /\ CleanIn([list EXCEPT ![c.id] = slot]) => CleanIn(list) \/ slot.cur_file = "NULL"
           /\ ~WritesIn(list) => Single([list EXCEPT ![c.id] = slot])
<1> DEFINE l == [list EXCEPT ![c.id] = slot]
<1>1. IsTable(list, qty) /\ Fits(list, c) /\ ids = OpenIn(list)
  BY DEF Row
<1>2. /\ c.id \in DOMAIN list /\ list[c.id].state = "opening"
      /\ list[c.id] # NULL /\ slot # NULL
  BY <1>1 DEF Fits, NULL, Slot
<1>3. IsTable(l, qty)
  BY <1>1, <1>2, Changing
<1>4. /\ DOMAIN l = DOMAIN list /\ l[c.id] = slot
      /\ \A i \in DOMAIN list : i # c.id => l[i] = list[i]
  BY <1>2
<1> HIDE DEF l
<1>5. /\ OpenIn(l) = OpenIn(list) \cup {c.id} /\ c.id \notin OpenIn(list)
      /\ \A i \in OpenIn(list) : l[i] = list[i]
  BY <1>2, <1>4 DEF OpenIn
<1>6. NoCall.step \notin OpenSteps /\ NoCall.step \notin {"lock", "lock_byte", "create"}
  BY DEF NoCall, OpenSteps
<1>7. Fits(l, NoCall)
  <2>1. \A i \in DOMAIN l : /\ l[i].state # "freed"
                            /\ l[i].state = "null" => l[i] = NULL
                            /\ l[i].state # "opening"
    BY <1>1, <1>4 DEF Fits
  <2>2. QED
    BY <2>1, <1>6 DEF Fits
<1>8. WritesIn(l) <=> WritesIn(list) \/ slot.mode # "r"
  BY <1>4, <1>5 DEF WritesIn
<1>9. ~WritesIn(list) => Single(l)
  BY <1>4, <1>5 DEF WritesIn, Single
<1>10. CleanIn(l) => CleanIn(list) \/ slot.cur_file = "NULL"
  BY <1>4, <1>5 DEF CleanIn
<1>11. QED
  BY <1>1, <1>3, <1>5, <1>7, <1>8, <1>9, <1>10 DEF Row, l

\* mc_open fails: what it frees is the family it was opening, the last.
LEMMA RowFails ==
    ASSUME NEW list, NEW qty, NEW c, NEW ids, Row(list, qty, c, ids), c.step \in OpenSteps,
           c.id = qty, qty = Len(list), NEW slot
    PROVE  /\ qty - 1 \in Nat
           /\ Row(Front([list EXCEPT ![qty] = slot]), qty - 1, NoCall, ids)
           /\ WritesIn(Front([list EXCEPT ![qty] = slot])) <=> WritesIn(list)
           /\ CleanIn(Front([list EXCEPT ![qty] = slot])) <=> CleanIn(list)
           /\ Single(list) => Single(Front([list EXCEPT ![qty] = slot]))
<1> DEFINE l == Front([list EXCEPT ![qty] = slot])
<1> HIDE DEF l
<1>1. IsTable(list, qty) /\ Fits(list, c) /\ ids = OpenIn(list)
  BY DEF Row
<1>2. /\ c.id \in DOMAIN list /\ list[c.id].state = "opening"
      /\ c.id = Len(list) /\ Holes(list) = {}
  BY <1>1, InUse DEF Fits, IsTable
<1>3. list \in Seq(SlotType) /\ Len(list) \in Nat /\ DOMAIN list = 1..Len(list)
  BY <1>1, TableIsSeq
<1>4. /\ qty - 1 \in Nat /\ IsTable(l, qty - 1) /\ Holes(l) = {}
      /\ l = SubSeq(list, 1, Len(list) - 1)
  <2>1. list # << >>
    BY <1>2, <1>3
  <2>2. QED
    BY <2>1, <1>1, <1>2, Popping DEF l
<1> HIDE DEF l
<1>5. /\ DOMAIN l = DOMAIN list \ {c.id}
      /\ \A i \in DOMAIN l : l[i] = list[i]
  BY <1>2, <1>3, <1>4
<1>6. OpenIn(l) = OpenIn(list) /\ \A i \in OpenIn(list) : l[i] = list[i]
  BY <1>2, <1>5 DEF OpenIn
<1>7. NoCall.step \notin OpenSteps /\ NoCall.step \notin {"lock", "lock_byte", "create"}
  BY DEF NoCall, OpenSteps
<1>8. Fits(l, NoCall)
  <2>1. \A i \in DOMAIN l : /\ l[i].state # "freed"
                            /\ l[i].state = "null" => l[i] = NULL
                            /\ l[i].state # "opening"
    BY <1>1, <1>2, <1>5 DEF Fits
  <2>2. QED
    BY <2>1, <1>7 DEF Fits
<1>9. QED
  BY <1>1, <1>4, <1>6, <1>8 DEF Row, WritesIn, CleanIn, Single, l

\* What a handle says of its family's file changes.
LEMMA RowChange ==
    ASSUME NEW list, NEW qty, NEW c, NEW ids, Row(list, qty, c, ids), c.step \notin OpenSteps,
           NEW id \in OpenIn(list),
           NEW slot \in SlotType, slot.state = "open", slot.mode = list[id].mode
    PROVE  /\ Row([list EXCEPT ![id] = slot], qty, c, ids)
           /\ WritesIn([list EXCEPT ![id] = slot]) <=> WritesIn(list)
           /\ CleanIn([list EXCEPT ![id] = slot]) => CleanIn(list) \/ slot.cur_file = "NULL"
           /\ Single(list) /\ slot.mode # "r" /\ slot.cur_file # "NULL"
                  => ~CleanIn([list EXCEPT ![id] = slot])
           /\ Single(list) => Single([list EXCEPT ![id] = slot])
<1> DEFINE l == [list EXCEPT ![id] = slot]
<1>1. IsTable(list, qty) /\ Fits(list, c) /\ ids = OpenIn(list)
  BY DEF Row
<1>2. id \in DOMAIN list /\ list[id].state = "open" /\ list[id] # NULL /\ slot # NULL
  BY DEF OpenIn, NULL, Slot
<1>3. IsTable(l, qty)
  BY <1>1, <1>2, Changing
<1>4. /\ DOMAIN l = DOMAIN list /\ l[id] = slot
      /\ \A i \in DOMAIN list : i # id => l[i] = list[i]
  BY <1>2
<1> HIDE DEF l
<1>5. /\ OpenIn(l) = OpenIn(list) /\ \A i \in OpenIn(list) : l[i].mode = list[i].mode
      /\ \A i \in OpenIn(list) : i # id => l[i] = list[i]
  BY <1>2, <1>4 DEF OpenIn
<1>6. Fits(l, c)
  <2>1. c.step \notin {"lock", "lock_byte", "create"}
    BY DEF OpenSteps
  <2>2. \A i \in DOMAIN l : /\ l[i].state # "freed"
                            /\ l[i].state = "null" => l[i] = NULL
                            /\ l[i].state # "opening"
    BY <1>1, <1>4 DEF Fits
  <2>3. QED
    BY <2>1, <2>2 DEF Fits
<1>7. CleanIn(l) => CleanIn(list) \/ slot.cur_file = "NULL"
  BY <1>4, <1>5 DEF CleanIn
<1>8. Single(list) /\ slot.mode # "r" /\ slot.cur_file # "NULL" => ~CleanIn(l)
  BY <1>4, <1>5 DEF CleanIn, Single
<1>9. QED
  BY <1>1, <1>3, <1>5, <1>6, <1>7, <1>8 DEF Row, WritesIn, Single, l

\* A family is closed; the call, none of opening, may be another then.
LEMMA RowClose ==
    ASSUME NEW list, NEW qty, NEW c, NEW ids, Row(list, qty, c, ids), c.step \notin OpenSteps,
           NEW id \in OpenIn(list), NEW d, d.step \notin OpenSteps
    PROVE  /\ qty - 1 \in Nat
           /\ Row([list EXCEPT ![id] = NULL], qty - 1, d, ids \ {id})
           /\ WritesIn([list EXCEPT ![id] = NULL]) => WritesIn(list)
           /\ CleanIn([list EXCEPT ![id] = NULL]) => CleanIn(list)
           /\ Single(list) => /\ Single([list EXCEPT ![id] = NULL])
                              /\ WritesIn([list EXCEPT ![id] = NULL]) => list[id].mode = "r"
<1> DEFINE l == [list EXCEPT ![id] = NULL]
<1>1. IsTable(list, qty) /\ Fits(list, c) /\ ids = OpenIn(list)
  BY DEF Row
<1>2. id \in DOMAIN list /\ list[id].state = "open" /\ list[id] # NULL /\ NULL.state = "null"
  BY DEF OpenIn, NULL, Slot
<1>3. IsTable(l, qty - 1) /\ qty - 1 \in Nat
  BY <1>1, <1>2, Clearing
<1>4. /\ DOMAIN l = DOMAIN list /\ l[id] = NULL
      /\ \A i \in DOMAIN list : i # id => l[i] = list[i]
  BY <1>2
<1> HIDE DEF l
<1>5. OpenIn(l) = OpenIn(list) \ {id} /\ \A i \in OpenIn(l) : l[i] = list[i]
  BY <1>2, <1>4 DEF OpenIn
<1>6. Fits(l, d)
  <2>1. d.step \notin {"lock", "lock_byte", "create"}
    BY DEF OpenSteps
  <2>2. \A i \in DOMAIN l : /\ l[i].state # "freed"
                            /\ l[i].state = "null" => l[i] = NULL
                            /\ l[i].state # "opening"
    BY <1>1, <1>2, <1>4 DEF Fits
  <2>3. QED
    BY <2>1, <2>2 DEF Fits
<1>7. /\ WritesIn(l) => WritesIn(list)
      /\ CleanIn(l) => CleanIn(list)
      /\ Single(list) => Single(l) /\ (WritesIn(l) => list[id].mode = "r")
  BY <1>5 DEF WritesIn, CleanIn, Single
<1>8. QED
  BY <1>1, <1>3, <1>5, <1>6, <1>7 DEF Row, l

\* A call that opens nothing becomes another.
LEMMA RowCall ==
    ASSUME NEW list, NEW qty, NEW c, NEW ids, Row(list, qty, c, ids), c.step \notin OpenSteps,
           NEW d, d.step \notin OpenSteps
    PROVE  Row(list, qty, d, ids)
<1>1. d.step \notin {"lock", "lock_byte", "create"}
  BY DEF OpenSteps
<1>2. QED
  BY <1>1 DEF Row, Fits

\* The table of a process that has opened nothing.
LEMMA RowEmpty ==
    /\ Row(<< >>, 0, NoCall, {})
    /\ ~WritesIn(<< >>) /\ ~CleanIn(<< >>) /\ Single(<< >>)
<1>1. IsTable(<< >>, 0)
  <2>1. DOMAIN << >> \ Holes(<< >>) = {}
    OBVIOUS
  <2>2. QED
    BY <2>1, FS_EmptySet, FamiliesAssumption DEF IsTable
<1>2. NoCall.step \notin OpenSteps /\ NoCall.step \notin {"lock", "lock_byte", "create"}
  BY DEF NoCall, OpenSteps
<1>3. QED
  BY <1>1, <1>2 DEF Row, Fits, OpenIn, WritesIn, CleanIn, Single

-----------------------------------------------------------------------------
(***************************************************************************)
(* What a step of one process leaves alone.                                *)
(***************************************************************************)
Touches(p) ==
    /\ fam_list' = [q \in Processes |-> fam_list'[q]] /\ fam_qty' = [q \in Processes |-> fam_qty'[q]]
    /\ call' = [q \in Processes |-> call'[q]] /\ held' = [q \in Processes |-> held'[q]]
    /\ \A q \in Processes \ {p} : /\ fam_list'[q] = fam_list[q] /\ fam_qty'[q] = fam_qty[q]
                                  /\ call'[q] = call[q] /\ held'[q] = held[q]

\* The definitions of Families, by what a call and a list are.
LEMMA Names ==
    /\ \A p \in Processes : /\ Opening(p) <=> call[p].step \in OpenSteps
                            /\ Deleting(p) <=> call[p].step \in DeleteSteps
                            /\ Writes(p) <=> WritesIn(fam_list[p])
                            /\ Handles(p) = OpenIn(fam_list[p])
    /\ Before \subseteq {p \in Processes : Opening(p)}
    /\ NoCall \in CallType /\ NoCall.step = "none" /\ NoCall.step \notin OpenSteps
    /\ NoCall.step \notin DeleteSteps /\ DeleteSteps \cap OpenSteps = {}
  BY FamiliesAssumption
     DEF Opening, OpenSteps, Deleting, DeleteSteps, Writes, WritesIn, Handles, OpenIn, Before, Making, NoCall, CallType

\* A step keeps the table if it keeps its process's row.
LEMMA TableFrame ==
    ASSUME Table, NEW p \in Processes, Touches(p), call'[p] \in CallType,
           Row(fam_list'[p], fam_qty'[p], call'[p], held'[p]), fam_qty'[p] \in Nat
    PROVE  Table'
<1>1. \A q \in Processes : /\ Row(fam_list'[q], fam_qty'[q], call'[q], held'[q])
                           /\ fam_qty'[q] \in Nat /\ call'[q] \in CallType
  BY DEF Table, Touches
<1>2. \A q \in Processes : /\ fam_list'[q] \in Seq(SlotType) /\ Len(fam_list'[q]) <= MaxSlots
                           /\ held'[q] = OpenIn(fam_list'[q])
  BY <1>1 DEF Row, IsTable
<1>3. \A q \in Processes : held'[q] \in SUBSET (1..MaxSlots)
  <2>1. TAKE q \in Processes
  <2>2. Len(fam_list'[q]) \in Nat /\ DOMAIN fam_list'[q] = 1..Len(fam_list'[q])
    BY <1>2
  <2>3. QED
    BY <2>2, <1>2, FamiliesAssumption DEF OpenIn
<1>4. QED
  BY <1>1, <1>2, <1>3 DEF Table, Touches

\* How the number of calls that may yet make a lock file changes.
LEMMA BeforeFrame ==
    ASSUME NEW p \in Processes, Touches(p)
    PROVE  /\ Cardinality(Before) \in Nat /\ Cardinality(Before') \in Nat
           /\ Making(call[p], fam_list[p]) \/ ~Making(call'[p], fam_list'[p]) =>
                  Cardinality(Before') <= Cardinality(Before)
           /\ Making(call[p], fam_list[p]) /\ ~Making(call'[p], fam_list'[p]) =>
                  Cardinality(Before') = Cardinality(Before) - 1
           /\ Cardinality(Before') <= Cardinality(Before) + 1
<1> DEFINE B == {q \in Processes : Making(call[q], fam_list[q])}
           C == {q \in Processes : Making(call'[q], fam_list'[q])}
<1>1. Before = B /\ Before' = C
  BY DEF Before
<1>2. B \subseteq Processes /\ C \subseteq Processes
  OBVIOUS
<1>3. B \ {p} = C \ {p}
  BY DEF Touches
<1>4. (p \in B <=> Making(call[p], fam_list[p])) /\ (p \in C <=> Making(call'[p], fam_list'[p]))
  OBVIOUS
<1> HIDE DEF B, C
<1>5. IsFiniteSet(B) /\ IsFiniteSet(C) /\ Cardinality(B) \in Nat /\ Cardinality(C) \in Nat
  BY <1>2, FamiliesAssumption, FS_Subset, FS_CardinalityType
<1>6. /\ Cardinality(B \ {p}) = IF p \in B THEN Cardinality(B) - 1 ELSE Cardinality(B)
      /\ Cardinality(C \ {p}) = IF p \in C THEN Cardinality(C) - 1 ELSE Cardinality(C)
  BY <1>5, FS_RemoveElement
<1>7. /\ p \in B \/ p \notin C => Cardinality(C) <= Cardinality(B)
      /\ p \in B /\ p \notin C => Cardinality(C) = Cardinality(B) - 1
      /\ Cardinality(C) <= Cardinality(B) + 1
  BY <1>3, <1>5, <1>6
<1>8. QED
  BY <1>1, <1>4, <1>5, <1>7

\* Who writes, or is about to, goes on to own the lock file while its name
\* stays where it is and nobody but the process that steps gives up a lock.
LEMMA LockingFrame ==
    ASSUME Locking, NEW p \in Processes, Touches(p), wlock' = wlock,
           \A q \in Processes \ {p} : wlock # 0 /\ owner[wlock] = q => owner'[wlock] = q,
           call'[p].step = "lock_byte" => wlock # 0 /\ call'[p].fd = wlock,
           Holding(call'[p], fam_list'[p]) \/ WritesIn(fam_list'[p])
               => wlock # 0 /\ owner'[wlock] = p,
           call'[p].step \in OpenSteps => ~WritesIn(fam_list'[p]),
           Single(fam_list'[p])
    PROVE  Locking'
<1>1. SUFFICES ASSUME NEW q \in Processes
               PROVE  /\ call'[q].step = "lock_byte" => wlock # 0 /\ call'[q].fd = wlock
                      /\ Holding(call'[q], fam_list'[q]) \/ WritesIn(fam_list'[q])
                             => wlock # 0 /\ owner'[wlock] = q
                      /\ call'[q].step \in OpenSteps => ~WritesIn(fam_list'[q])
                      /\ Single(fam_list'[q])
  BY DEF Locking, Owns
<1>2. CASE q = p
  BY <1>2
<1>3. CASE q # p
  BY <1>3 DEF Touches, Locking, Owns
<1>4. QED
  BY <1>2, <1>3

\* No file comes to lack its directory, and no lock file's name is taken away.
LEMMA MarkedFrame ==
    ASSUME Marked, NEW p \in Processes, Touches(p), wlock' = wlock,
           files' = "partial" => files = "partial",
           CleanIn(fam_list'[p]) => CleanIn(fam_list[p]) \/ files' # "partial"
    PROVE  Marked'
<1>1. ASSUME NEW q \in Processes, CleanIn(fam_list'[q]) PROVE files' # "partial"
  <2>1. CASE q = p
    BY <1>1, <2>1 DEF Marked
  <2>2. CASE q # p
    BY <1>1, <2>2 DEF Marked, Touches
  <2>3. QED
    BY <2>1, <2>2
<1>2. QED
  BY <1>1 DEF Marked

\* Nobody comes to write because of a step that does not begin to open and makes
\* no writer; one that begins to delete does so when nobody opens, and one that
\* goes on has found no other writer.
LEMMA DeletesFrame ==
    ASSUME DeletesAlone, NEW p \in Processes, Touches(p), deleted' = deleted,
           call'[p].step = "delete_test" => \A q \in Processes : call[q].step \notin OpenSteps,
           call'[p].step = "delete" =>
               /\ call[p].step = "delete_test"
               /\ \A q \in Processes \ {p} : ~WritesIn(fam_list[q]),
           call'[p].step \in OpenSteps => call[p].step \in OpenSteps,
           WritesIn(fam_list'[p]) => call[p].step \in OpenSteps \/ WritesIn(fam_list[p])
    PROVE  DeletesAlone'
<1>1. ASSUME NEW r \in Processes, NEW q \in Processes, call'[r].step \in DeleteSteps
      PROVE  call'[q].step \notin OpenSteps
  <2>1. \A s \in Processes : call[s].step \notin OpenSteps
    <3>1. CASE r = p
      BY <1>1, <3>1 DEF DeletesAlone, DeleteSteps
    <3>2. CASE r # p
      BY <1>1, <3>2 DEF DeletesAlone, Touches
    <3>3. QED
      BY <3>1, <3>2
  <2>2. QED
    BY <2>1 DEF Touches
<1>2. ASSUME NEW r \in Processes, NEW q \in Processes, call'[r].step = "delete", q # r
      PROVE  ~WritesIn(fam_list'[q])
  <2>1. CASE r = p
    BY <1>2, <2>1 DEF Touches
  <2>2. CASE r # p
    <3>1. call[r].step = "delete"
      BY <1>2, <2>2 DEF Touches
    <3>2. ~WritesIn(fam_list[q]) /\ call[q].step \notin OpenSteps
      BY <3>1, <1>2 DEF DeletesAlone, DeleteSteps
    <3>3. QED
      BY <3>2 DEF Touches
  <2>3. QED
    BY <2>1, <2>2
<1>3. QED
  BY <1>1, <1>2 DEF DeletesAlone

-----------------------------------------------------------------------------
(***************************************************************************)
(* How an mc_open ends.                                                    *)
(***************************************************************************)
LEMMA OpenedRow ==
    ASSUME Table, NEW p \in Processes, call[p].step \in OpenSteps,
           NEW slot \in SlotType, slot.mode = fam_list[p][call[p].id].mode,
           Opened(p, call[p].id, slot)
    PROVE  /\ Touches(p) /\ Table' /\ call'[p] = NoCall
           /\ WritesIn(fam_list'[p]) <=> WritesIn(fam_list[p]) \/ slot.mode # "r"
           /\ CleanIn(fam_list'[p]) => CleanIn(fam_list[p]) \/ slot.cur_file = "NULL"
           /\ ~WritesIn(fam_list[p]) => Single(fam_list'[p])
<1> DEFINE new == [slot EXCEPT !.state = "open"]
           list == fam_list[p]
           c == call[p]
<1>1. new \in SlotType /\ new.state = "open" /\ new.mode = slot.mode /\ new.cur_file = slot.cur_file
  BY DEF SlotType
<1>2. Row(list, fam_qty[p], c, held[p]) /\ fam_qty[p] \in Nat /\ c.step \in OpenSteps
  BY DEF Table
<1>3. /\ Row([list EXCEPT ![c.id] = new], fam_qty[p], NoCall, held[p] \cup {c.id})
      /\ WritesIn([list EXCEPT ![c.id] = new]) <=> WritesIn(list) \/ new.mode # "r"
      /\ CleanIn([list EXCEPT ![c.id] = new]) => CleanIn(list) \/ new.cur_file = "NULL"
      /\ ~WritesIn(list) => Single([list EXCEPT ![c.id] = new])
  <2>1. new.mode = list[c.id].mode
    BY <1>1
  <2> HIDE DEF new, list, c
  <2>2. QED
    BY <2>1, <1>1, <1>2, RowOpened
<1>4. /\ fam_list' = [fam_list EXCEPT ![p] = [list EXCEPT ![c.id] = new]]
      /\ held' = [held EXCEPT ![p] = @ \cup {c.id}]
      /\ call' = [call EXCEPT ![p] = NoCall] /\ fam_qty' = fam_qty
  BY DEF Opened, Set, Return
<1>5. /\ fam_list'[p] = [list EXCEPT ![c.id] = new] /\ held'[p] = held[p] \cup {c.id}
      /\ call'[p] = NoCall /\ fam_qty'[p] = fam_qty[p]
      /\ Touches(p)
  <2> HIDE DEF new
  <2>1. QED
    BY <1>4 DEF Table, Touches
<1>6. Table'
  BY <1>2, <1>3, <1>5, TableFrame, Names
<1>7. QED
  BY <1>1, <1>3, <1>5, <1>6

\* The slot that mc_open frees and takes off the table is that of its own family.
LEMMA FailsRow ==
    ASSUME Table, NoFailInHole, NEW p \in Processes, call[p].step \in OpenSteps, OpenFails(p)
    PROVE  /\ Touches(p) /\ Table' /\ call'[p] = NoCall
           /\ WritesIn(fam_list'[p]) <=> WritesIn(fam_list[p])
           /\ CleanIn(fam_list'[p]) <=> CleanIn(fam_list[p])
           /\ Single(fam_list[p]) => Single(fam_list'[p])
<1> DEFINE list == fam_list[p]
           n == fam_qty[p]
           slot == IF list[n] = NULL THEN NULL ELSE Freed
           l == Front([list EXCEPT ![n] = slot])
<1>1. Row(list, n, call[p], held[p])
  BY DEF Table
<1>2. /\ n - 1 \in Nat /\ Row(l, n - 1, NoCall, held[p])
      /\ WritesIn(l) <=> WritesIn(list)
      /\ CleanIn(l) <=> CleanIn(list)
      /\ Single(list) => Single(l)
  <2>1. call[p].id = n /\ n = Len(list)
    BY DEF OpenFails, NoFailInHole
  <2> HIDE DEF list, n, slot
  <2>2. QED
    BY <1>1, <2>1, RowFails
<1>3. /\ fam_list' = [fam_list EXCEPT ![p] = l]
      /\ fam_qty' = [fam_qty EXCEPT ![p] = n - 1]
      /\ call' = [call EXCEPT ![p] = NoCall] /\ held' = held
  <2>1. [fam_list EXCEPT ![p][n] = slot][p] = [list EXCEPT ![n] = slot]
    <3> HIDE DEF slot
    <3>1. QED
      BY DEF Table
  <2>2. fam_list' = [fam_list EXCEPT ![p] = Front([fam_list EXCEPT ![p][n] = slot][p])]
    BY DEF OpenFails, Set
  <2>3. QED
    BY <2>1, <2>2 DEF OpenFails, Return
<1> HIDE DEF l, n
<1>4. /\ fam_list'[p] = l /\ fam_qty'[p] = n - 1 /\ call'[p] = NoCall /\ held'[p] = held[p]
      /\ Touches(p)
  BY <1>3 DEF Table, Touches
<1>5. Table'
  BY <1>2, <1>4, TableFrame, Names
<1>6. QED
  BY <1>2, <1>4, <1>5

-----------------------------------------------------------------------------
(***************************************************************************)
(* The actions of mc_open.                                                 *)
(***************************************************************************)
\* A step that touches no lock file keeps what is said of the disk.
LEMMA DiskFrame ==
    ASSUME Disk, NEW p \in Processes, Touches(p), UNCHANGED <<wlock, made>>,
           files' \in FileStates, deleted' \in BOOLEAN, owner' \in Locks, namer' \in Locks,
           Making(call[p], fam_list[p]) \/ ~Making(call'[p], fam_list'[p])
    PROVE  Disk'
<1>1. /\ Cardinality(Before) \in Nat /\ Cardinality(Before') \in Nat
      /\ Cardinality(Before') <= Cardinality(Before)
  BY BeforeFrame
<1>2. QED
  BY <1>1, FamiliesAssumption DEF Disk, Locks

\* mc_open fails after a step that keeps the locks of others.
LEMMA FailKeeps ==
    ASSUME IInv, NoFailInHole, NEW p \in Processes, call[p].step \in OpenSteps, OpenFails(p),
           UNCHANGED <<wlock, owner, made, files, deleted>>, namer' \in Locks
    PROVE  IInv'
<1>1. Table /\ Disk
  BY DEF IInv
<1>2. /\ Touches(p) /\ Table' /\ call'[p] = NoCall
      /\ WritesIn(fam_list'[p]) <=> WritesIn(fam_list[p])
      /\ CleanIn(fam_list'[p]) <=> CleanIn(fam_list[p])
      /\ Single(fam_list[p]) => Single(fam_list'[p])
  BY <1>1, FailsRow
<1>3. Disk'
  <2>1. ~Making(call'[p], fam_list'[p])
    BY <1>2, Names DEF Making
  <2>2. QED
    BY <2>1, <1>1, <1>2, DiskFrame DEF Disk
<1>4. ~Holding(call'[p], fam_list'[p]) /\ call'[p].step = "none"
  BY <1>2, Names DEF Holding
<1>5. LockRespected => Locking' /\ Marked'
  BY <1>2, <1>4, Names, LockingFrame, MarkedFrame DEF IInv, Locking, Owns
<1>6. AllRespected => DeletesAlone'
  BY <1>2, <1>4, Names, DeletesFrame DEF IInv
<1>7. QED
  BY <1>2, <1>3, <1>5, <1>6 DEF IInv

LEMMA OpenKeeps ==
    ASSUME IInv, NEW p \in Processes, NEW mode \in Modes, Open(p, mode)
    PROVE  IInv'
<1> DEFINE list == fam_list[p]
           new  == EnterFamily(list, fam_qty[p], Slot("opening", mode))
           create == mode = "w" \/ (mode = "a" /\ files = "gone")
           d    == [step |-> IF create THEN "lock" ELSE "test",
                    id |-> new.id, fd |-> 0, create_db |-> create]
<1> HIDE DEF list, new, d
<1>1. call[p] = NoCall /\ UNCHANGED <<wlock, owner, namer, made, files, held, deleted>>
  BY DEF Open, Idle
<1>2. Len(new.list) <= MaxSlots
  BY DEF Open, new, list
<1>3. mode # "r" => made + Cardinality({q \in Processes : Opening(q)}) < MaxInodes
  BY DEF Open
<1>4. /\ "own_read" \in App \/ ~(mode = "r" /\ Writes(p))
      /\ "two_writers" \in App \/ ~(mode # "r" /\ Writes(p))
      /\ "delete_race" \in App \/ \A q \in Processes : ~Deleting(q)
  BY DEF Open
<1>5. /\ fam_list' = [fam_list EXCEPT ![p] = new.list]
      /\ fam_qty' = [fam_qty EXCEPT ![p] = @ + 1]
      /\ call' = [call EXCEPT ![p] = d]
  BY DEF Open, new, list, d
<1>6. Row(list, fam_qty[p], call[p], held[p]) /\ fam_qty[p] \in Nat /\ Table /\ Disk
  BY DEF IInv, Table, list
<1>7. d.step \in {"test", "lock"} /\ (d.step = "lock" => mode # "r") /\ d.id = new.id /\ d.fd = 0
  BY DEF d
<1>8. /\ Row(new.list, fam_qty[p] + 1, d, held[p])
      /\ WritesIn(new.list) <=> WritesIn(list)
      /\ CleanIn(new.list) <=> CleanIn(list)
      /\ Single(list) => Single(new.list)
  <2>1. call[p].step \notin OpenSteps
    BY <1>1, Names
  <2>2. new = EnterFamily(list, fam_qty[p], Slot("opening", mode))
    BY DEF new
  <2>3. QED
    BY <2>1, <2>2, <1>2, <1>6, <1>7, RowOpen, SMTT(60)
<1>9. d \in CallType
  <2>1. d.id \in DOMAIN new.list /\ new.list \in Seq(SlotType) /\ Len(new.list) <= MaxSlots
    BY <1>7, <1>8 DEF Row, Fits, IsTable, OpenSteps
  <2>2. d.id \in 0..MaxSlots /\ 0 \in 0..MaxInodes
    BY <2>1, FamiliesAssumption
  <2>3. create \in BOOLEAN
    OBVIOUS
  <2> HIDE DEF create
  <2>4. QED
    BY <2>2, <2>3, <1>7 DEF d, CallType
<1>10. /\ fam_list'[p] = new.list /\ fam_qty'[p] = fam_qty[p] + 1 /\ call'[p] = d
       /\ held'[p] = held[p] /\ Touches(p)
  BY <1>1, <1>5, <1>6 DEF Table, Touches
<1>11. Table'
  BY <1>6, <1>8, <1>9, <1>10, TableFrame
<1>12. Disk'
  <2>1. CASE mode = "r"
    <3>1. ~Making(call'[p], fam_list'[p])
      <4>1. new.list[new.id].mode = mode
        <5>1. Len(new.list) <= MaxSlots /\ IsTable(list, fam_qty[p])
          BY <1>2, <1>6 DEF Row
        <5>2. Slot("opening", mode) \in SlotType /\ Slot("opening", mode) # NULL
          BY FamiliesAssumption DEF Slot, SlotType, NULL, Modes
        <5>3. new.list[new.id] = Slot("opening", mode)
          BY <5>1, <5>2, Entering DEF new, Entered
        <5>4. QED
          BY <5>3 DEF Slot
      <4>2. QED
        BY <4>1, <2>1, <1>7, <1>10 DEF Making
    <3>2. QED
      BY <3>1, <1>1, <1>6, <1>10, DiskFrame DEF Disk
  <2>2. CASE mode # "r"
    <3>1. Cardinality(Before) <= Cardinality({q \in Processes : Opening(q)})
      <4> DEFINE O == {q \in Processes : Opening(q)}
      <4>1. Before \subseteq O /\ O \subseteq Processes
        BY Names
      <4> HIDE DEF O
      <4>2. IsFiniteSet(O)
        BY <4>1, FamiliesAssumption, FS_Subset
      <4>3. QED
        BY <4>1, <4>2, FS_Subset DEF O
    <3>2. /\ Cardinality(Before) \in Nat /\ Cardinality(Before') \in Nat
          /\ Cardinality(Before') <= Cardinality(Before) + 1
      BY <1>10, BeforeFrame
    <3>3. Cardinality({q \in Processes : Opening(q)}) \in Nat
      BY FamiliesAssumption, FS_Subset, FS_CardinalityType
    <3>4. made' + Cardinality(Before') <= MaxInodes
      BY <3>1, <3>2, <3>3, <2>2, <1>1, <1>3, <1>6, FamiliesAssumption DEF Disk
    <3>5. QED
      BY <3>4, <1>1, <1>6 DEF Disk, Locks
  <2>3. QED
    BY <2>1, <2>2
<1>13. LockRespected => Locking' /\ Marked'
  <2>1. SUFFICES ASSUME LockRespected PROVE Locking' /\ Marked'
    OBVIOUS
  <2>2. Locking /\ Marked /\ ~WritesIn(list)
    BY <2>1, <1>4, Names DEF IInv, LockRespected, list
  <2>3. Single(list)
    BY <2>2 DEF Locking, list
  <2>4. d.step # "lock_byte" /\ ~Holding(d, new.list)
    BY <1>7 DEF Holding
  <2>5. Locking'
    BY <2>2, <2>3, <2>4, <1>1, <1>8, <1>10, LockingFrame
  <2>6. Marked'
    BY <2>2, <1>1, <1>8, <1>10, MarkedFrame DEF list
  <2>7. QED
    BY <2>5, <2>6
<1>14. AllRespected => DeletesAlone'
  <2>1. SUFFICES ASSUME AllRespected PROVE DeletesAlone'
    OBVIOUS
  <2>2. deleted' = FALSE
    BY <2>1, <1>1 DEF IInv, DeletesAlone
  <2>3. ASSUME NEW q \in Processes PROVE call'[q].step \notin DeleteSteps
    <3>1. call[q].step \notin DeleteSteps
      BY <2>1, <1>4, Names DEF AllRespected
    <3>2. QED
      BY <3>1, <1>7, <1>10 DEF Touches, DeleteSteps
  <2>4. QED
    BY <2>2, <2>3 DEF DeletesAlone, DeleteSteps
<1>15. QED
  BY <1>11, <1>12, <1>13, <1>14 DEF IInv

\* What a call that opens works on.
LEMMA InCall ==
    ASSUME Table, NEW p \in Processes, call[p].step \in OpenSteps
    PROVE  /\ Row(fam_list[p], fam_qty[p], call[p], held[p]) /\ fam_qty[p] \in Nat
           /\ call[p].id \in DOMAIN fam_list[p] /\ call[p].id \in 0..MaxSlots
           /\ fam_list[p] \in Seq(SlotType)
           /\ fam_list[p][call[p].id] \in SlotType
           /\ fam_list[p][call[p].id].state = "opening"
           /\ call[p].step \in {"lock", "lock_byte", "create"} => fam_list[p][call[p].id].mode # "r"
           /\ call[p].fd \in 0..MaxInodes /\ call[p] \in CallType
<1>1. /\ Row(fam_list[p], fam_qty[p], call[p], held[p]) /\ fam_qty[p] \in Nat
      /\ fam_list[p] \in Seq(SlotType) /\ call[p] \in CallType
  BY DEF Table
<1>2. Fits(fam_list[p], call[p])
  BY <1>1 DEF Row
<1>3. call[p].id \in 0..MaxSlots /\ call[p].fd \in 0..MaxInodes
  BY <1>1 DEF CallType
<1>4. QED
  BY <1>1, <1>2, <1>3 DEF Fits

\* A step within mc_open.
LEMMA StepRow ==
    ASSUME Table, NEW p \in Processes, call[p].step \in OpenSteps,
           NEW slot \in SlotType, slot.state = "opening",
           slot.mode = fam_list[p][call[p].id].mode,
           NEW step \in OpenSteps, NEW fd \in 0..MaxInodes,
           step \in {"lock", "lock_byte", "create"} => slot.mode # "r",
           fam_list' = Set(p, call[p].id, slot), UNCHANGED <<fam_qty, held>>,
           Goto(p, step, fd)
    PROVE  /\ Touches(p) /\ Table'
           /\ call'[p].step = step /\ call'[p].id = call[p].id /\ call'[p].fd = fd
           /\ fam_list'[p][call[p].id].mode = fam_list[p][call[p].id].mode
           /\ WritesIn(fam_list'[p]) <=> WritesIn(fam_list[p])
           /\ CleanIn(fam_list'[p]) <=> CleanIn(fam_list[p])
           /\ Single(fam_list[p]) => Single(fam_list'[p])
<1> DEFINE list == fam_list[p]
           c == call[p]
           d == Moved(c, step, fd)
           l == [list EXCEPT ![c.id] = slot]
<1>1. /\ Row(list, fam_qty[p], c, held[p]) /\ fam_qty[p] \in Nat
      /\ c.id \in DOMAIN list /\ c.id \in 0..MaxSlots /\ c.step \in OpenSteps /\ c \in CallType
  BY InCall
<1>2. /\ d.step = step /\ d.id = c.id /\ d.fd = fd /\ d \in CallType
      /\ slot.mode = list[c.id].mode
  BY <1>1, Going
<1>3. fam_list' = [fam_list EXCEPT ![p] = l] /\ call' = [call EXCEPT ![p] = d]
  <2>1. call' = [call EXCEPT ![p] = [[c EXCEPT !.step = step] EXCEPT !.fd = fd]]
    BY DEF Goto, Table
  <2>2. [[c EXCEPT !.step = step] EXCEPT !.fd = fd] = d
    BY DEF Moved
  <2>3. QED
    BY <2>1, <2>2 DEF Set
<1>4. l[c.id] = slot
  BY <1>1
<1> HIDE DEF list, c, d
<1>5. /\ Row(l, fam_qty[p], d, held[p])
      /\ WritesIn(l) <=> WritesIn(list)
      /\ CleanIn(l) <=> CleanIn(list)
      /\ Single(list) => Single(l)
  BY <1>1, <1>2, RowStep, SMTT(60)
<1> HIDE DEF l
<1>6. /\ fam_list'[p] = l /\ call'[p] = d /\ fam_qty'[p] = fam_qty[p] /\ held'[p] = held[p]
      /\ Touches(p)
  BY <1>3 DEF Table, Touches
<1>7. Table'
  BY <1>1, <1>2, <1>5, <1>6, TableFrame
<1>8. QED
  BY <1>2, <1>4, <1>5, <1>6, <1>7 DEF c, list

\* The same where the slot stays as it is.
LEMMA GotoRow ==
    ASSUME Table, NEW p \in Processes, call[p].step \in OpenSteps,
           NEW step \in OpenSteps, NEW fd \in 0..MaxInodes,
           step \in {"lock", "lock_byte", "create"} => fam_list[p][call[p].id].mode # "r",
           UNCHANGED <<fam_list, fam_qty, held>>, Goto(p, step, fd)
    PROVE  /\ Touches(p) /\ Table'
           /\ call'[p].step = step /\ call'[p].id = call[p].id /\ call'[p].fd = fd
           /\ fam_list'[p] = fam_list[p]
<1> DEFINE slot == fam_list[p][call[p].id]
<1>1. slot \in SlotType /\ slot.state = "opening"
  BY InCall
<1>2. fam_list' = Set(p, call[p].id, slot)
  BY DEF Set, Table
<1>3. QED
  BY <1>1, <1>2, StepRow

\* A step that only goes on, for a call that has not got byte 0 before or after,
\* and that may close a descriptor.
LEMMA GotoKeeps ==
    ASSUME IInv, NEW p \in Processes, call[p].step \in OpenSteps,
           NEW step \in OpenSteps, step \notin {"lock_byte", "create"},
           NEW fd \in 0..MaxInodes, Goto(p, step, fd),
           step = "lock" => fam_list[p][call[p].id].mode # "r",
           step = "load" => fam_list[p][call[p].id].mode = "r",
           Making(call[p], fam_list[p]) \/ fam_list[p][call[p].id].mode = "r",
           UNCHANGED <<wlock, made, files, fam_list, fam_qty, held, deleted>>,
           owner' \in Locks, namer' \in Locks,
           \A q \in Processes \ {p} : wlock # 0 /\ owner[wlock] = q => owner'[wlock] = q
    PROVE  IInv'
<1>1. Table /\ Disk
  BY DEF IInv
<1>2. /\ Touches(p) /\ Table' /\ fam_list'[p] = fam_list[p]
      /\ call'[p].step = step /\ call'[p].id = call[p].id
  BY <1>1, GotoRow
<1>3. Disk'
  <2>1. Making(call[p], fam_list[p]) \/ ~Making(call'[p], fam_list'[p])
    BY <1>2 DEF Making
  <2>2. QED
    BY <2>1, <1>1, <1>2, DiskFrame DEF Disk
<1>4. ~Holding(call'[p], fam_list'[p])
  BY <1>2 DEF Holding
<1>5. LockRespected => Locking' /\ Marked'
  <2>1. SUFFICES ASSUME LockRespected PROVE Locking' /\ Marked'
    OBVIOUS
  <2>2. Locking /\ Marked
    BY <2>1 DEF IInv
  <2>3. ~WritesIn(fam_list[p]) /\ Single(fam_list[p])
    BY <2>2 DEF Locking
  <2>4. Locking'
    BY <2>2, <2>3, <1>2, <1>4, LockingFrame
  <2>5. Marked'
    BY <2>2, <1>2, MarkedFrame
  <2>6. QED
    BY <2>4, <2>5
<1>6. AllRespected => DeletesAlone'
  <2>1. step \notin DeleteSteps
    BY Names
  <2>2. QED
    BY <2>1, <1>2, DeletesFrame DEF IInv, DeleteSteps
<1>7. QED
  BY <1>2, <1>3, <1>5, <1>6 DEF IInv

LEMMA TestOpenKeeps ==
    ASSUME IInv, NEW p \in Processes, TestOpen(p)
    PROVE  IInv'
<1> DEFINE mode == fam_list[p][call[p].id].mode
<1>1. /\ call[p].step = "test" /\ call[p].step \in OpenSteps
      /\ UNCHANGED <<wlock, owner, namer, made, files, fam_list, fam_qty, held, deleted>>
  BY DEF TestOpen, OpenSteps, table
<1>2. Table /\ Disk
  BY DEF IInv
<1>3. mode # "r" => Making(call[p], fam_list[p])
  BY <1>1 DEF Making
<1>4. PICK step \in OpenSteps, fd \in 0..MaxInodes :
          /\ Goto(p, step, fd) /\ step \notin {"lock_byte", "create"}
          /\ (step = "lock" => mode # "r") /\ (step = "load" => mode = "r")
  <2>1. wlock \in 0..MaxInodes /\ 0 \in 0..MaxInodes
    BY <1>2, FamiliesAssumption DEF Disk
  <2>2. {"test_byte", "load", "lock"} \subseteq OpenSteps
    BY DEF OpenSteps
  <2>3. CASE wlock # 0
    BY <2>1, <2>2, <2>3 DEF TestOpen
  <2>4. CASE wlock = 0 /\ mode = "r"
    BY <2>1, <2>2, <2>4 DEF TestOpen
  <2>5. CASE wlock = 0 /\ mode # "r"
    BY <2>1, <2>2, <2>5 DEF TestOpen
  <2>6. QED
    BY <2>3, <2>4, <2>5
<1>5. owner' \in Locks /\ namer' \in Locks
  BY <1>1, <1>2 DEF Disk
<1>6. QED
  BY <1>1, <1>3, <1>4, <1>5, GotoKeeps

\* Closing a descriptor takes away the process's own locks only.
LEMMA Releasing ==
    ASSUME Disk, NEW p \in Processes, NEW ino
    PROVE  /\ Release(owner, p, ino) \in Locks /\ Release(namer, p, ino) \in Locks
           /\ \A q \in Processes \ {p} :
                  wlock # 0 /\ owner[wlock] = q => Release(owner, p, ino)[wlock] = q
<1>1. owner \in Locks /\ namer \in Locks
  BY DEF Disk
<1>2. wlock # 0 => wlock \in Inodes
  BY FamiliesAssumption DEF Disk, Inodes
<1>3. \A q \in Processes \ {p} :
          wlock # 0 /\ owner[wlock] = q => Release(owner, p, ino)[wlock] = q
  BY <1>1, <1>2 DEF Release, Locks
<1>4. Release(owner, p, ino) \in Locks /\ Release(namer, p, ino) \in Locks
  BY <1>1 DEF Release, Locks
<1>5. QED
  BY <1>3, <1>4

LEMMA TestByteKeeps ==
    ASSUME IInv, NoFailInHole, NEW p \in Processes, TestByte(p)
    PROVE  IInv'
<1> DEFINE mode == fam_list[p][call[p].id].mode
           fd == call[p].fd
<1>1. /\ call[p].step = "test_byte" /\ call[p].step \in OpenSteps
      /\ UNCHANGED <<wlock, made, files, deleted>>
  BY DEF TestByte, OpenSteps
<1>2. Table /\ Disk
  BY DEF IInv
<1>3. /\ mode # "r" => Making(call[p], fam_list[p])
      /\ fd \in 0..MaxInodes /\ 0 \in 0..MaxInodes
  BY <1>1, <1>2, InCall, FamiliesAssumption DEF Making
<1>4. {"load", "load_active", "lock"} \subseteq OpenSteps
  BY DEF OpenSteps
<1>5. owner \in Locks /\ namer \in Locks
  BY <1>2 DEF Disk
<1>6. CASE LockedOut(p, fd) /\ mode = "r"
  <2>1. /\ Goto(p, "load_active", fd)
        /\ UNCHANGED <<fam_list, fam_qty, held, owner, namer>>
    BY <1>6 DEF TestByte, table
  <2>2. QED
    BY <2>1, <1>1, <1>3, <1>4, <1>5, <1>6, GotoKeeps
<1>7. CASE LockedOut(p, fd) /\ mode # "r"
  <2>1. OpenFails(p) /\ UNCHANGED <<owner, namer>>
    BY <1>7 DEF TestByte
  <2>2. QED
    BY <2>1, <1>1, <1>5, FailKeeps
<1>8. CASE ~LockedOut(p, fd)
  <2>1. /\ Goto(p, IF mode = "r" THEN "load" ELSE "lock", 0)
        /\ owner' = Release(owner, p, fd) /\ namer' = Release(namer, p, fd)
        /\ UNCHANGED <<fam_list, fam_qty, held>>
    BY <1>8 DEF TestByte, CloseLockFile, table
  <2>2. /\ owner' \in Locks /\ namer' \in Locks
        /\ \A q \in Processes \ {p} : wlock # 0 /\ owner[wlock] = q => owner'[wlock] = q
    BY <2>1, <1>2, Releasing
  <2>3. CASE mode = "r"
    BY <2>1, <2>2, <2>3, <1>1, <1>3, <1>4, GotoKeeps
  <2>4. CASE mode # "r"
    BY <2>1, <2>2, <2>4, <1>1, <1>3, <1>4, GotoKeeps
  <2>5. QED
    BY <2>3, <2>4
<1>9. QED
  BY <1>6, <1>7, <1>8

\* The lock file is found, or made: in either case its name is that of the inode
\* the process opened.
LEMMA LockOpenKeeps ==
    ASSUME IInv, NEW p \in Processes, LockOpen(p)
    PROVE  IInv'
<1> DEFINE c == call[p]
<1>1. /\ c.step = "lock" /\ c.step \in OpenSteps
      /\ UNCHANGED <<owner, namer, files, fam_list, fam_qty, held, deleted>>
      /\ Goto(p, "lock_byte", wlock')
      /\ IF wlock = 0 THEN made' = made + 1 /\ wlock' = made + 1
         ELSE made' = made /\ wlock' = wlock
  BY DEF LockOpen, OpenSteps, table
<1>2. Table /\ Disk
  BY DEF IInv
<1>3. Making(c, fam_list[p]) /\ fam_list[p][c.id].mode # "r"
  BY <1>1, <1>2, InCall DEF Making
<1>4. /\ Cardinality(Before) \in Nat /\ Cardinality(Before) > 0
  <2>1. p \in Before /\ Before \subseteq Processes
    BY <1>3 DEF Before
  <2>2. IsFiniteSet(Before)
    BY <2>1, FamiliesAssumption, FS_Subset
  <2>3. QED
    BY <2>1, <2>2, FS_EmptySet, FS_CardinalityType
<1>5. wlock' \in 0..made' /\ wlock' # 0 /\ made' \in 0..MaxInodes
  BY <1>1, <1>2, <1>4, FamiliesAssumption DEF Disk
<1>6. /\ Touches(p) /\ Table' /\ fam_list'[p] = fam_list[p]
      /\ call'[p].step = "lock_byte" /\ call'[p].id = c.id /\ call'[p].fd = wlock'
  <2>1. wlock' \in 0..MaxInodes /\ "lock_byte" \in OpenSteps
    BY <1>5, FamiliesAssumption DEF OpenSteps
  <2>2. QED
    BY <1>1, <1>2, <1>3, <2>1, GotoRow
<1>7. Disk'
  <2>1. Cardinality(Before') = Cardinality(Before) - 1
    BY <1>3, <1>6, BeforeFrame DEF Making
  <2>2. made' + Cardinality(Before') <= MaxInodes
    BY <2>1, <1>1, <1>2, <1>4, FamiliesAssumption DEF Disk
  <2>3. QED
    BY <2>2, <1>1, <1>2, <1>5 DEF Disk, Locks
<1>8. LockRespected => Locking' /\ Marked'
  <2>1. SUFFICES ASSUME LockRespected PROVE Locking' /\ Marked'
    OBVIOUS
  <2>2. Locking /\ Marked
    BY <2>1 DEF IInv
  <2>3. Marked'
    BY <2>2, <1>1, <1>5 DEF Marked
  <2>4. ~Holding(call'[p], fam_list'[p])
    BY <1>6 DEF Holding
  <2>5. ~WritesIn(fam_list[p]) /\ Single(fam_list[p])
    BY <2>2, <1>1 DEF Locking
  <2>6. CASE wlock # 0
    BY <2>2, <2>3, <2>4, <2>5, <2>6, <1>1, <1>6, LockingFrame DEF Locking, Owns
  <2>7. CASE wlock = 0
    <3>1. \A q \in Processes :
              /\ call[q].step # "lock_byte" /\ ~Holding(call[q], fam_list[q])
              /\ ~WritesIn(fam_list[q])
      BY <2>2, <2>7 DEF Locking, Owns
    <3>2. SUFFICES ASSUME NEW q \in Processes
                   PROVE  /\ call'[q].step = "lock_byte" => wlock' # 0 /\ call'[q].fd = wlock'
                          /\ ~Holding(call'[q], fam_list'[q]) /\ ~WritesIn(fam_list'[q])
                          /\ Single(fam_list'[q])
      BY <2>3 DEF Locking
    <3>3. ~WritesIn(fam_list'[q]) /\ Single(fam_list'[q])
      BY <3>1, <2>2, <1>1 DEF Locking
    <3>4. /\ call'[q].step = "lock_byte" => wlock' # 0 /\ call'[q].fd = wlock'
          /\ ~Holding(call'[q], fam_list'[q])
      BY <3>1, <2>4, <1>5, <1>6 DEF Touches
    <3>5. QED
      BY <3>3, <3>4
  <2>8. QED
    BY <2>6, <2>7
<1>9. AllRespected => DeletesAlone'
  BY <1>1, <1>6, DeletesFrame DEF IInv
<1>10. QED
  BY <1>6, <1>7, <1>8, <1>9 DEF IInv

\* F_TLOCK: whoever gets the byte gets that of the inode with the name, so nobody
\* else can be writing.
LEMMA LockByteKeeps ==
    ASSUME IInv, NoFailInHole, NEW p \in Processes, LockByte(p)
    PROVE  IInv'
<1> DEFINE c == call[p]
           slot == [fam_list[p][c.id] EXCEPT !.fd = c.fd]
<1>1. /\ c.step = "lock_byte" /\ c.step \in OpenSteps
      /\ UNCHANGED <<wlock, namer, made, files, deleted>>
  BY DEF LockByte, OpenSteps
<1>2. Table /\ Disk
  BY DEF IInv
<1>3. /\ slot \in SlotType /\ slot.state = "opening" /\ slot.mode = fam_list[p][c.id].mode
      /\ slot.mode # "r" /\ c.fd \in 0..MaxInodes
  BY <1>1, <1>2, InCall DEF SlotType
<1>4. CASE LockTaken(p, c.fd)
  <2>1. OpenFails(p) /\ UNCHANGED owner
    BY <1>4 DEF LockByte
  <2>2. namer' \in Locks
    BY <1>1, <1>2 DEF Disk
  <2>3. QED
    BY <2>1, <2>2, <1>1, FailKeeps
<1>5. CASE ~LockTaken(p, c.fd)
  <2>1. PICK step \in {"create", "load"} :
            /\ owner' = [owner EXCEPT ![c.fd] = p]
            /\ fam_list' = [fam_list EXCEPT ![p][c.id].fd = c.fd]
            /\ Goto(p, step, c.fd) /\ UNCHANGED <<fam_qty, held>>
    BY <1>5 DEF LockByte
  <2>2. fam_list' = Set(p, c.id, slot)
    BY <2>1 DEF Set
  <2>3. /\ Touches(p) /\ Table'
        /\ call'[p].step = step /\ call'[p].step \in OpenSteps
        /\ WritesIn(fam_list'[p]) <=> WritesIn(fam_list[p])
        /\ CleanIn(fam_list'[p]) <=> CleanIn(fam_list[p])
        /\ Single(fam_list[p]) => Single(fam_list'[p])
    <3>1. step \in OpenSteps
      BY DEF OpenSteps
    <3> HIDE DEF slot
    <3>2. QED
      BY <2>1, <2>2, <3>1, <1>1, <1>2, <1>3, StepRow
  <2>4. Disk'
    <3>1. ~Making(call'[p], fam_list'[p])
      BY <2>3 DEF Making
    <3>2. owner' \in Locks
      BY <1>2, <2>1 DEF Disk, Locks
    <3>3. QED
      BY <3>1, <3>2, <1>1, <1>2, <2>3, DiskFrame DEF Disk
  <2>5. LockRespected => Locking' /\ Marked'
    <3>1. SUFFICES ASSUME LockRespected PROVE Locking' /\ Marked'
      OBVIOUS
    <3>2. Locking /\ Marked
      BY <3>1 DEF IInv
    <3>3. wlock # 0 /\ c.fd = wlock /\ ~WritesIn(fam_list[p]) /\ Single(fam_list[p])
      BY <3>2, <1>1 DEF Locking
    <3>4. wlock \in Inodes /\ owner[wlock] \in {p, Nobody} /\ owner'[wlock] = p
      BY <3>3, <1>2, <1>5, <2>1, FamiliesAssumption DEF Disk, Locks, Inodes, LockTaken, LockedOut
    <3>5. \A q \in Processes \ {p} : ~(wlock # 0 /\ owner[wlock] = q)
      BY <3>4, NobodyAssumption
    <3>6. Locking'
      BY <3>2, <3>3, <3>4, <3>5, <1>1, <2>3, LockingFrame
    <3>7. Marked'
      BY <3>2, <1>1, <2>3, MarkedFrame
    <3>8. QED
      BY <3>6, <3>7
  <2>6. AllRespected => DeletesAlone'
    BY <1>1, <2>3, DeletesFrame DEF IInv
  <2>7. QED
    BY <2>3, <2>4, <2>5, <2>6 DEF IInv
<1>6. QED
  BY <1>4, <1>5

\* The old family's files go: nobody else has them open for writing.
LEMMA CreateFamilyKeeps ==
    ASSUME IInv, NEW p \in Processes, CreateFamily(p)
    PROVE  IInv'
<1> DEFINE c == call[p]
           slot == [fam_list[p][c.id] EXCEPT !.cur_file = "new"]
<1>1. /\ c.step = "create" /\ c.step \in OpenSteps
      /\ Opened(p, c.id, slot) /\ files' = "partial"
      /\ deleted' = (deleted \/ OthersWrite(p))
      /\ UNCHANGED <<wlock, owner, namer, made>>
  BY DEF CreateFamily, OpenSteps
<1>2. Table /\ Disk
  BY DEF IInv
<1>3. /\ slot \in SlotType /\ slot.mode # "r" /\ slot.cur_file = "new"
      /\ slot.mode = fam_list[p][c.id].mode
  BY <1>1, <1>2, InCall DEF SlotType
<1>4. /\ Touches(p) /\ Table' /\ call'[p] = NoCall
      /\ CleanIn(fam_list'[p]) => CleanIn(fam_list[p])
      /\ ~WritesIn(fam_list[p]) => Single(fam_list'[p])
  <2> HIDE DEF slot
  <2>1. QED
    BY <1>1, <1>2, <1>3, OpenedRow
<1>5. Disk'
  <2>1. ~Making(call'[p], fam_list'[p])
    BY <1>4, Names DEF Making
  <2>2. deleted' \in BOOLEAN /\ files' \in FileStates
    BY <1>1 DEF FileStates
  <2>3. QED
    BY <2>1, <2>2, <1>1, <1>2, <1>4, DiskFrame DEF Disk
<1>6. LockRespected => Locking' /\ Marked'
  <2>1. SUFFICES ASSUME LockRespected PROVE Locking' /\ Marked'
    OBVIOUS
  <2>2. Locking
    BY <2>1 DEF IInv
  <2>3. Owns(p) /\ ~WritesIn(fam_list[p])
    BY <2>2, <1>1 DEF Locking, Holding
  <2>4. Locking'
    BY <2>2, <2>3, <1>1, <1>4, Names, LockingFrame DEF Owns
  <2>5. \A q \in Processes : ~WritesIn(fam_list[q])
    BY <2>2, <2>3 DEF Locking, Owns
  <2>6. ASSUME NEW q \in Processes PROVE ~CleanIn(fam_list'[q])
    <3>1. ~CleanIn(fam_list[q])
      BY <2>5 DEF CleanIn, WritesIn
    <3>2. QED
      BY <3>1, <1>4 DEF Touches
  <2>7. QED
    BY <2>3, <2>4, <2>6, <1>1 DEF Marked, Owns
<1>7. AllRespected => DeletesAlone'
  <2>1. SUFFICES ASSUME AllRespected PROVE DeletesAlone'
    OBVIOUS
  <2>2. Locking /\ DeletesAlone
    BY <2>1 DEF IInv, AllRespected
  <2>3. ~OthersWrite(p)
    BY <2>2, <1>1, Names DEF Locking, Holding, Owns, OthersWrite
  <2>4. deleted' = deleted
    BY <2>2, <2>3, <1>1 DEF DeletesAlone
  <2>5. QED
    BY <2>2, <2>4, <1>1, <1>4, Names, DeletesFrame
<1>8. QED
  BY <1>4, <1>5, <1>6, <1>7 DEF IInv

\* An append opens a family whose files are complete, and has got byte 0 before.
LEMMA LoadKeeps ==
    ASSUME IInv, NoFailInHole, NEW p \in Processes, Load(p)
    PROVE  IInv'
<1> DEFINE c == call[p]
           slot == fam_list[p][c.id]
<1>1. /\ c.step = "load" /\ c.step \in OpenSteps
      /\ UNCHANGED <<wlock, owner, made, files, deleted>>
      /\ namer' = namer \/ namer' = Release(namer, p, slot.fd)
      /\ OpenFails(p) \/ (Opened(p, c.id, slot) /\ files # "partial")
  BY DEF Load, OpenSteps
<1>2. Table /\ Disk
  BY DEF IInv
<1>3. namer' \in Locks
  BY <1>1, <1>2, Releasing DEF Disk
<1>4. CASE OpenFails(p)
  BY <1>1, <1>3, <1>4, FailKeeps
<1>5. CASE Opened(p, c.id, slot) /\ files # "partial"
  <2>1. slot \in SlotType
    BY <1>1, <1>2, InCall
  <2>2. /\ Touches(p) /\ Table' /\ call'[p] = NoCall
        /\ WritesIn(fam_list'[p]) <=> WritesIn(fam_list[p]) \/ slot.mode # "r"
        /\ ~WritesIn(fam_list[p]) => Single(fam_list'[p])
    BY <1>1, <1>2, <1>5, <2>1, OpenedRow
  <2>3. Disk'
    <3>1. ~Making(call'[p], fam_list'[p])
      BY <2>2, Names DEF Making
    <3>2. QED
      BY <3>1, <1>1, <1>2, <1>3, <2>2, DiskFrame DEF Disk
  <2>4. LockRespected => Locking' /\ Marked'
    <3>1. SUFFICES ASSUME LockRespected PROVE Locking' /\ Marked'
      OBVIOUS
    <3>2. Locking /\ Marked
      BY <3>1 DEF IInv
    <3>3. ~WritesIn(fam_list[p]) /\ (slot.mode # "r" => Owns(p))
      BY <3>2, <1>1 DEF Locking, Holding
    <3>4. ~Holding(call'[p], fam_list'[p])
      BY <2>2, Names DEF Holding
    <3>5. Locking'
      BY <3>2, <3>3, <3>4, <1>1, <2>2, Names, LockingFrame DEF Owns
    <3>6. Marked'
      BY <3>2, <1>1, <1>5, <2>2, MarkedFrame
    <3>7. QED
      BY <3>5, <3>6
  <2>5. AllRespected => DeletesAlone'
    BY <1>1, <2>2, Names, DeletesFrame DEF IInv
  <2>6. QED
    BY <2>2, <2>3, <2>4, <2>5 DEF IInv
<1>6. QED
  BY <1>1, <1>4, <1>5

LEMMA LoadActiveKeeps ==
    ASSUME IInv, NoFailInHole, NEW p \in Processes, LoadActive(p)
    PROVE  IInv'
<1>1. /\ call[p].step \in OpenSteps /\ OpenFails(p)
      /\ UNCHANGED <<wlock, owner, made, files, deleted>>
      /\ namer' = namer \/ namer' = [namer EXCEPT ![call[p].fd] = p]
  BY DEF LoadActive, OpenSteps
<1>2. namer' \in Locks
  BY <1>1 DEF IInv, Disk, Locks
<1>3. QED
  BY <1>1, <1>2, FailKeeps

-----------------------------------------------------------------------------
(***************************************************************************)
(* The actions of writing, closing, deleting.                              *)
(***************************************************************************)
LEMMA Directory ==
    ASSUME NEW state \in FileStates
    PROVE  WithDirectory(state) \in FileStates /\ WithDirectory(state) # "partial"
  BY DEF WithDirectory, FileStates

\* What a call that works on an open family finds.
LEMMA InHandle ==
    ASSUME Table, NEW p \in Processes, Idle(p), NEW id \in Handles(p)
    PROVE  /\ Row(fam_list[p], fam_qty[p], call[p], held[p]) /\ fam_qty[p] \in Nat
           /\ call[p] = NoCall /\ call[p].step \notin OpenSteps
           /\ id \in OpenIn(fam_list[p]) /\ id \in DOMAIN fam_list[p]
           /\ fam_list[p][id] \in SlotType /\ fam_list[p][id].state = "open"
<1>1. Row(fam_list[p], fam_qty[p], call[p], held[p]) /\ fam_qty[p] \in Nat
  BY DEF Table
<1>2. call[p] = NoCall /\ call[p].step \notin OpenSteps /\ id \in OpenIn(fam_list[p])
  BY Names DEF Idle
<1>3. fam_list[p] \in Seq(SlotType) /\ id \in DOMAIN fam_list[p] /\ fam_list[p][id].state = "open"
  BY <1>1, <1>2 DEF Row, IsTable, OpenIn
<1>4. QED
  BY <1>1, <1>2, <1>3

\* The file a family has open is made, closed, or left open after a commit.
LEMMA ChangeKeeps ==
    ASSUME IInv, NEW p \in Processes, Idle(p), NEW id \in Handles(p),
           NEW file \in {"NULL", "new", "committed"},
           fam_list' = Set(p, id, [fam_list[p][id] EXCEPT !.cur_file = file]),
           UNCHANGED <<wlock, owner, made, fam_qty, call, held, deleted>>,
           files' \in FileStates, namer' \in Locks,
           \/ fam_list[p][id].mode # "r" /\ file # "NULL" /\ files' = "partial"
           \/ files' # "partial"
           \/ file = "committed" /\ files' = files
    PROVE  IInv'
<1> DEFINE list == fam_list[p]
           slot == [list[id] EXCEPT !.cur_file = file]
           l == [list EXCEPT ![id] = slot]
<1>1. Table /\ Disk
  BY DEF IInv
<1>2. /\ Row(list, fam_qty[p], call[p], held[p]) /\ fam_qty[p] \in Nat
      /\ call[p] = NoCall /\ call[p].step \notin OpenSteps
      /\ id \in OpenIn(list) /\ id \in DOMAIN list
      /\ list[id] \in SlotType /\ list[id].state = "open"
  BY <1>1, InHandle
<1>3. /\ slot \in SlotType /\ slot.state = "open" /\ slot.mode = list[id].mode
      /\ slot.cur_file = file
  <2> HIDE DEF list
  <2>1. QED
    BY <1>2 DEF SlotType
<1>4. /\ Row(l, fam_qty[p], call[p], held[p])
      /\ WritesIn(l) <=> WritesIn(list)
      /\ CleanIn(l) => CleanIn(list) \/ slot.cur_file = "NULL"
      /\ Single(list) /\ slot.mode # "r" /\ slot.cur_file # "NULL" => ~CleanIn(l)
      /\ Single(list) => Single(l)
  <2> HIDE DEF list, slot
  <2>1. QED
    BY <1>2, <1>3, RowChange
<1>5. fam_list'[p] = l /\ Touches(p)
  <2>1. fam_list' = [fam_list EXCEPT ![p] = l]
    <3> HIDE DEF slot
    <3>1. fam_list' = Set(p, id, slot)
      BY DEF slot
    <3>2. QED
      BY <3>1, <1>1 DEF Table, Set
  <2> HIDE DEF l, list
  <2>2. QED
    BY <2>1, <1>1 DEF Table, Touches
<1> HIDE DEF l, slot
<1>6. Table'
  BY <1>1, <1>2, <1>4, <1>5, Names, TableFrame
<1>7. Disk'
  <2>1. ~Making(call'[p], fam_list'[p])
    BY <1>2, Names DEF Making
  <2>2. QED
    BY <2>1, <1>1, <1>5, DiskFrame DEF Disk
<1>8. LockRespected => Locking' /\ Marked'
  <2>1. SUFFICES ASSUME LockRespected PROVE Locking' /\ Marked'
    OBVIOUS
  <2>2. Locking /\ Marked /\ Single(list)
    BY <2>1 DEF IInv, Locking
  <2>3. ~Holding(call'[p], fam_list'[p]) /\ call'[p].step = "none"
    BY <1>2, Names DEF Holding
  <2>4. Locking'
    BY <2>2, <2>3, <1>2, <1>4, <1>5, Names, LockingFrame DEF Locking, Owns
  <2>5. CASE list[id].mode # "r" /\ file # "NULL" /\ files' = "partial"
    <3>1. WritesIn(list) /\ Owns(p)
      BY <2>2, <2>5, <1>2 DEF WritesIn, Locking
    <3>2. ASSUME NEW q \in Processes PROVE ~CleanIn(fam_list'[q])
      <4>1. CASE q = p
        BY <2>2, <2>5, <4>1, <1>3, <1>4, <1>5
      <4>2. CASE q # p
        <5>1. ~WritesIn(fam_list[q])
          BY <3>1, <2>2, <4>2 DEF Locking, Owns
        <5>2. QED
          BY <5>1, <4>2, <1>5 DEF Touches, WritesIn, CleanIn
      <4>3. QED
        BY <4>1, <4>2
    <3>3. QED
      BY <2>4, <3>1, <3>2 DEF Marked, Owns
  <2>6. CASE files' # "partial"
    BY <2>4, <2>6 DEF Marked
  <2>7. CASE file = "committed" /\ files' = files
    BY <2>2, <2>4, <2>7, <1>3, <1>4, <1>5, MarkedFrame
  <2>8. QED
    BY <2>5, <2>6, <2>7
<1>9. AllRespected => DeletesAlone'
  BY <1>2, <1>4, <1>5, Names, DeletesFrame DEF IInv
<1>10. QED
  BY <1>6, <1>7, <1>8, <1>9 DEF IInv

LEMMA WriteKeeps ==
    ASSUME IInv, NEW p \in Processes, NEW id, Write(p, id)
    PROVE  IInv'
<1>1. namer \in Locks /\ "partial" \in FileStates
  BY DEF IInv, Disk, FileStates
<1>2. QED
  BY <1>1, ChangeKeeps DEF Write

LEMMA FlushKeeps ==
    ASSUME IInv, NEW p \in Processes, NEW id, Flush(p, id)
    PROVE  IInv'
<1>1. /\ Idle(p) /\ id \in Handles(p)
      /\ UNCHANGED <<wlock, owner, made, fam_qty, call, held, deleted>>
  BY DEF Flush
<1>2. Disk /\ files \in FileStates /\ namer \in Locks
  BY DEF IInv, Disk
<1>3. CASE CommitFails(p, id)
  <2>1. fam_list' = LeaveOpen(p, id) /\ UNCHANGED <<files, namer>>
    BY <1>3 DEF Flush
  <2>2. QED
    BY <2>1, <1>1, <1>2, ChangeKeeps DEF LeaveOpen
<1>4. CASE ~CommitFails(p, id)
  <2>1. /\ fam_list' = Set(p, id, [fam_list[p][id] EXCEPT !.cur_file = "NULL"])
        /\ files' = WithDirectory(files)
        /\ namer' = Release(namer, p, fam_list[p][id].fd)
    BY <1>4 DEF Flush
  <2>2. files' \in FileStates /\ files' # "partial" /\ namer' \in Locks
    BY <2>1, <1>2, Directory, Releasing
  <2>3. QED
    BY <2>1, <2>2, <1>1, ChangeKeeps
<1>5. QED
  BY <1>3, <1>4

\* Closing a family: a writer takes the lock file's name away, when nobody is
\* about to lock the inode, and when its last file has a directory.
LEMMA ClosedRow ==
    ASSUME IInv, NEW p \in Processes, Idle(p), NEW id \in Handles(p), CloseFamily(p, id),
           ~CommitFails(p, id), UNCHANGED <<owner, made, deleted>>,
           NEW d \in CallType, d.step \notin OpenSteps, call' = [call EXCEPT ![p] = d]
    PROVE  /\ Touches(p) /\ Table' /\ Disk' /\ call'[p] = d
           /\ WritesIn(fam_list'[p]) => WritesIn(fam_list[p])
           /\ LockRespected => Locking' /\ Marked'
<1> DEFINE list == fam_list[p]
           l == [list EXCEPT ![id] = NULL]
<1>1. /\ call[p].step \notin OpenSteps /\ id \in OpenIn(list)
      /\ fam_list' = ClearSlot(p, id) /\ fam_qty' = [fam_qty EXCEPT ![p] = @ - 1]
      /\ held' = [held EXCEPT ![p] = @ \ {id}]
      /\ wlock' = IF list[id].mode = "r" THEN wlock ELSE 0
      /\ namer' = namer \/ namer' = Release(namer, p, list[id].fd)
      /\ files' = IF list[id].cur_file = "NULL" THEN files ELSE WithDirectory(files)
  BY Names DEF CloseFamily, Idle
<1>2. Table /\ Disk
  BY DEF IInv
<1>3. Row(list, fam_qty[p], call[p], held[p]) /\ fam_qty[p] \in Nat
  BY <1>2 DEF Table
<1>4. /\ fam_qty[p] - 1 \in Nat
      /\ Row(l, fam_qty[p] - 1, d, held[p] \ {id})
      /\ WritesIn(l) => WritesIn(list)
      /\ CleanIn(l) => CleanIn(list)
      /\ Single(list) => Single(l) /\ (WritesIn(l) => list[id].mode = "r")
  <2> HIDE DEF list
  <2>1. QED
    BY <1>1, <1>3, RowClose
<1>5. /\ fam_list'[p] = l /\ fam_qty'[p] = fam_qty[p] - 1 /\ held'[p] = held[p] \ {id}
      /\ call'[p] = d /\ Touches(p)
  <2>1. fam_list' = [fam_list EXCEPT ![p] = l]
    BY <1>1, <1>2 DEF Table, Set, ClearSlot
  <2> HIDE DEF l, list
  <2>2. QED
    BY <2>1, <1>1, <1>2 DEF Table, Touches
<1> HIDE DEF l
<1>6. Table'
  BY <1>2, <1>4, <1>5, TableFrame
<1>7. Disk'
  <2>1. ~Making(call'[p], fam_list'[p])
    BY <1>5 DEF Making, OpenSteps
  <2>2. /\ Cardinality(Before) \in Nat /\ Cardinality(Before') \in Nat
        /\ Cardinality(Before') <= Cardinality(Before)
    BY <2>1, <1>5, BeforeFrame
  <2>3. wlock' \in 0..made /\ made \in Nat
    BY <1>1, <1>2, FamiliesAssumption DEF Disk
  <2>4. made' + Cardinality(Before') <= MaxInodes
    BY <1>2, <2>2, <2>3, FamiliesAssumption DEF Disk
  <2>5. namer' \in Locks /\ files' \in FileStates
    BY <1>1, <1>2, Releasing, Directory DEF Disk
  <2>6. QED
    BY <1>2, <2>3, <2>4, <2>5 DEF Disk, Locks
<1>8. LockRespected => Locking' /\ Marked'
  <2>1. SUFFICES ASSUME LockRespected PROVE Locking' /\ Marked'
    OBVIOUS
  <2>2. Locking /\ Marked /\ Single(list)
    BY <2>1 DEF IInv, Locking
  <2>3. ~Holding(d, l) /\ d.step # "lock_byte"
    BY DEF OpenSteps, Holding
  <2>4. list[id].cur_file # "NULL" => files' # "partial"
    BY <1>1, <1>2, Directory DEF Disk
  <2>5. CASE list[id].mode = "r"
    <3>1. wlock' = wlock
      BY <2>5, <1>1
    <3>2. Locking'
      BY <3>1, <2>2, <2>3, <1>4, <1>5, LockingFrame DEF Locking, Owns
    <3>3. files' = "partial" => files = "partial"
      BY <2>4, <1>1
    <3>4. QED
      BY <3>1, <3>2, <3>3, <2>2, <1>4, <1>5, MarkedFrame
  <2>6. CASE list[id].mode # "r"
    <3>1. WritesIn(list) /\ Owns(p)
      BY <2>6, <2>2, <1>1 DEF WritesIn, Locking
    <3>2. \A q \in Processes \ {p} : ~Holding(call[q], fam_list[q]) /\ ~WritesIn(fam_list[q])
      BY <3>1, <2>2 DEF Locking, Owns
    <3>3. \A q \in Processes : call[q].step # "lock_byte"
      BY <2>1, <2>6 DEF CloseFamily, LockRespected
    <3>4. ~WritesIn(fam_list'[p]) /\ Single(fam_list'[p])
      BY <2>2, <2>6, <1>4, <1>5
    <3>5. ASSUME NEW q \in Processes
          PROVE  /\ call'[q].step # "lock_byte" /\ ~Holding(call'[q], fam_list'[q])
                 /\ ~WritesIn(fam_list'[q]) /\ Single(fam_list'[q])
      <4>1. CASE q = p
        BY <3>4, <4>1, <2>3, <1>5
      <4>2. CASE q # p
        BY <3>2, <3>3, <4>2, <2>2, <1>5 DEF Touches, Locking
      <4>3. QED
        BY <4>1, <4>2
    <3>6. files' # "partial"
      <4>1. CASE list[id].cur_file = "NULL"
        <5>1. CleanIn(list)
          BY <4>1, <2>6, <1>1 DEF CleanIn
        <5>2. QED
          BY <5>1, <4>1, <2>2, <1>1 DEF Marked
      <4>2. QED
        BY <4>1, <2>4
    <3>7. QED
      BY <3>5, <3>6 DEF Locking, Marked
  <2>7. QED
    BY <2>5, <2>6
<1>9. QED
  BY <1>4, <1>5, <1>6, <1>7, <1>8

\* mc_close that fails leaves the family as mc_flush does.
LEMMA CloseFailsKeeps ==
    ASSUME IInv, NEW p \in Processes, Idle(p), NEW id \in Handles(p), CloseFamily(p, id),
           CommitFails(p, id), UNCHANGED <<owner, made, call, deleted>>
    PROVE  IInv'
<1>1. fam_list' = LeaveOpen(p, id) /\ UNCHANGED <<wlock, namer, files, fam_qty, held>>
  BY DEF CloseFamily
<1>2. files \in FileStates /\ namer \in Locks
  BY DEF IInv, Disk
<1>3. QED
  BY <1>1, <1>2, ChangeKeeps DEF LeaveOpen

LEMMA CloseKeeps ==
    ASSUME IInv, NEW p \in Processes, NEW id, Close(p, id)
    PROVE  IInv'
<1>1. /\ Idle(p) /\ id \in Handles(p) /\ CloseFamily(p, id)
      /\ UNCHANGED <<owner, made, call, deleted>>
  BY DEF Close
<1>2. CASE CommitFails(p, id)
  BY <1>1, <1>2, CloseFailsKeeps
<1>3. CASE ~CommitFails(p, id)
  <2>1. call' = [call EXCEPT ![p] = NoCall]
    BY <1>1 DEF IInv, Table, Idle
  <2>2. /\ Touches(p) /\ Table' /\ Disk' /\ call'[p] = NoCall
        /\ WritesIn(fam_list'[p]) => WritesIn(fam_list[p])
        /\ LockRespected => Locking' /\ Marked'
    BY <1>1, <1>3, <2>1, Names, ClosedRow
  <2>3. AllRespected => DeletesAlone'
    BY <1>1, <2>2, Names, DeletesFrame DEF IInv
  <2>4. QED
    BY <2>2, <2>3 DEF IInv
<1>4. QED
  BY <1>2, <1>3

\* What a call that opens nothing becomes, where nothing of its process changes
\* but its locks.
LEMMA CallKeeps ==
    ASSUME IInv, NEW p \in Processes, call[p].step \notin OpenSteps,
           NEW d \in CallType, d.step \notin OpenSteps, call' = [call EXCEPT ![p] = d],
           UNCHANGED <<wlock, owner, made, fam_list, fam_qty, held>>,
           namer' \in Locks, files' \in {files, "gone"}, deleted' \in BOOLEAN,
           AllRespected =>
               /\ deleted' = deleted
               /\ d.step = "delete_test" => \A q \in Processes : call[q].step \notin OpenSteps
               /\ d.step = "delete" => /\ call[p].step = "delete_test"
                                       /\ \A q \in Processes \ {p} : ~WritesIn(fam_list[q])
    PROVE  IInv'
<1>1. Table /\ Disk
  BY DEF IInv
<1>2. Row(fam_list[p], fam_qty[p], call[p], held[p]) /\ fam_qty[p] \in Nat
  BY <1>1 DEF Table
<1>3. Touches(p) /\ call'[p] = d /\ fam_list'[p] = fam_list[p]
  BY <1>1 DEF Table, Touches
<1>4. Table'
  <2>1. Row(fam_list[p], fam_qty[p], d, held[p])
    BY <1>2, RowCall
  <2>2. QED
    BY <2>1, <1>1, <1>2, <1>3, TableFrame
<1>5. Disk'
  <2>1. ~Making(call'[p], fam_list'[p])
    BY <1>3 DEF Making, OpenSteps
  <2>2. files' \in FileStates
    BY <1>1 DEF Disk, FileStates
  <2>3. QED
    BY <2>1, <2>2, <1>1, <1>3, DiskFrame DEF Disk
<1>6. LockRespected => Locking' /\ Marked'
  <2>1. ~Holding(call'[p], fam_list'[p]) /\ call'[p].step # "lock_byte"
    BY <1>3 DEF OpenSteps, Holding
  <2>2. QED
    BY <2>1, <1>3, LockingFrame, MarkedFrame DEF IInv, Locking, Owns
<1>7. AllRespected => DeletesAlone'
  BY <1>3, DeletesFrame DEF IInv
<1>8. QED
  BY <1>4, <1>5, <1>6, <1>7 DEF IInv

LEMMA DeleteFamilyKeeps ==
    ASSUME IInv, NEW p \in Processes, DeleteFamily(p)
    PROVE  IInv'
<1> DEFINE d == Moved(NoCall, "delete_test", 0)
<1>1. /\ Idle(p) /\ UNCHANGED <<owner, made, deleted>>
      /\ "delete_race" \in App \/ \A q \in Processes : ~Opening(q)
  BY DEF DeleteFamily
<1>2. Table /\ Disk /\ call[p] = NoCall /\ call[p].step \notin OpenSteps
  BY <1>1, Names DEF IInv, Idle
<1>3. AllRespected => \A q \in Processes : call[q].step \notin OpenSteps
  BY <1>1, Names DEF AllRespected
<1>4. d \in CallType /\ d.step = "delete_test" /\ d.step \notin OpenSteps
  <2>1. NoCall \in CallType /\ 0 \in 0..MaxInodes
    BY FamiliesAssumption DEF CallType, NoCall
  <2>2. "delete_test" \in OpenSteps \cup DeleteSteps /\ "delete_test" \notin OpenSteps
    BY DEF OpenSteps, DeleteSteps
  <2>3. QED
    BY <2>1, <2>2, Going
<1>5. Goto(p, "delete_test", 0) => call' = [call EXCEPT ![p] = d]
  BY <1>2 DEF Goto, Moved, Table
<1> HIDE DEF d
<1>6. CASE Handles(p) = {}
  <2>1. /\ Goto(p, "delete_test", 0)
        /\ UNCHANGED <<wlock, namer, files, fam_list, fam_qty, held>>
    BY <1>6 DEF DeleteFamily, table
  <2>2. namer' \in Locks /\ deleted' \in BOOLEAN
    BY <1>1, <1>2, <2>1 DEF Disk
  <2>3. QED
    BY <2>1, <2>2, <1>1, <1>2, <1>3, <1>4, <1>5, CallKeeps
<1>7. CASE Handles(p) # {}
  <2> DEFINE id == Min(Handles(p))
  <2>1. id \in Handles(p)
    <3>1. Handles(p) \in SUBSET Nat
      BY <1>2 DEF Handles, Table
    <3>2. QED
      BY <3>1, <1>7, LeastElement
  <2>2. /\ CloseFamily(p, id)
        /\ IF CommitFails(p, id) THEN call' = call ELSE Goto(p, "delete_test", 0)
    BY <1>7 DEF DeleteFamily
  <2> HIDE DEF id
  <2>3. CASE CommitFails(p, id)
    BY <2>1, <2>2, <2>3, <1>1, CloseFailsKeeps
  <2>4. CASE ~CommitFails(p, id)
    <3>1. /\ Touches(p) /\ Table' /\ Disk' /\ call'[p] = d
          /\ WritesIn(fam_list'[p]) => WritesIn(fam_list[p])
          /\ LockRespected => Locking' /\ Marked'
      BY <2>1, <2>2, <2>4, <1>1, <1>4, <1>5, ClosedRow
    <3>2. AllRespected => DeletesAlone'
      BY <3>1, <1>1, <1>3, <1>4, DeletesFrame DEF IInv
    <3>3. QED
      BY <3>1, <3>2 DEF IInv
  <2>5. QED
    BY <2>3, <2>4
<1>8. QED
  BY <1>6, <1>7

\* Who finds no other's lock at the name finds no other writer.
LEMMA DeleteTestKeeps ==
    ASSUME IInv, NEW p \in Processes, DeleteTest(p)
    PROVE  IInv'
<1>1. /\ call[p].step = "delete_test" /\ call[p].step \notin OpenSteps
      /\ UNCHANGED <<wlock, made, files, fam_list, fam_qty, held, deleted>>
  BY DEF DeleteTest, OpenSteps, table
<1>2. Table /\ Disk /\ call[p] \in CallType
  BY DEF IInv, Table
<1>3. CASE wlock # 0 /\ LockedOut(p, wlock)
  <2>1. call' = [call EXCEPT ![p] = NoCall] /\ CloseLockFile(p, wlock)
    BY <1>3 DEF DeleteTest, Return
  <2>2. owner' = owner
    BY <2>1, <1>2, <1>3 DEF CloseLockFile, Release, LockedOut, Disk, Locks
  <2>3. namer' \in Locks /\ deleted' \in BOOLEAN
    BY <2>1, <1>1, <1>2, Releasing DEF CloseLockFile, Disk
  <2>4. QED
    BY <2>1, <2>2, <2>3, <1>1, Names, CallKeeps
<1>4. CASE ~(wlock # 0 /\ LockedOut(p, wlock))
  <2> DEFINE d == Moved(call[p], "delete", 0)
  <2>1. call' = [call EXCEPT ![p] = d] /\ UNCHANGED <<owner, namer>>
    BY <1>2, <1>4 DEF DeleteTest, Goto, Moved, Table
  <2>2. d \in CallType /\ d.step = "delete" /\ d.step \notin OpenSteps
    <3>1. "delete" \in OpenSteps \cup DeleteSteps /\ "delete" \notin OpenSteps
      BY DEF OpenSteps, DeleteSteps
    <3>2. 0 \in 0..MaxInodes
      BY FamiliesAssumption
    <3>3. QED
      BY <1>2, <3>1, <3>2, Going
  <2> HIDE DEF d
  <2>3. LockRespected => \A q \in Processes \ {p} : ~WritesIn(fam_list[q])
    BY <1>4, NobodyAssumption DEF IInv, Locking, Owns, LockedOut
  <2>4. namer' \in Locks /\ deleted' \in BOOLEAN
    BY <2>1, <1>1, <1>2 DEF Disk
  <2>5. QED
    BY <2>1, <2>2, <2>3, <2>4, <1>1, CallKeeps DEF AllRespected
<1>5. QED
  BY <1>3, <1>4

LEMMA DeleteFilesKeeps ==
    ASSUME IInv, NEW p \in Processes, DeleteFiles(p)
    PROVE  IInv'
<1>1. /\ call[p].step = "delete" /\ call[p].step \notin OpenSteps /\ files' = "gone"
      /\ deleted' = (deleted \/ OthersWrite(p))
      /\ call' = [call EXCEPT ![p] = NoCall]
      /\ UNCHANGED <<wlock, owner, namer, made, fam_list, fam_qty, held>>
  BY DEF DeleteFiles, OpenSteps, table, Return
<1>2. AllRespected => deleted' = deleted
  <2>1. SUFFICES ASSUME AllRespected PROVE deleted' = deleted
    OBVIOUS
  <2>2. DeletesAlone
    BY <2>1 DEF IInv
  <2>3. ~OthersWrite(p)
    BY <2>2, <1>1, Names DEF DeletesAlone, OthersWrite
  <2>4. QED
    BY <2>2, <2>3, <1>1 DEF DeletesAlone
<1>3. namer' \in Locks /\ deleted' \in BOOLEAN
  BY <1>1 DEF IInv, Disk
<1>4. QED
  BY <1>1, <1>2, <1>3, Names, CallKeeps

\* A process that ends takes its table and its locks with it.
LEMMA ExitKeeps ==
    ASSUME IInv, NEW p \in Processes, Exit(p)
    PROVE  IInv'
<1>1. /\ owner' = [ino \in Inodes |-> IF owner[ino] = p THEN Nobody ELSE owner[ino]]
      /\ namer' = [ino \in Inodes |-> IF namer[ino] = p THEN Nobody ELSE namer[ino]]
      /\ fam_list' = [fam_list EXCEPT ![p] = << >>] /\ fam_qty' = [fam_qty EXCEPT ![p] = 0]
      /\ call' = [call EXCEPT ![p] = NoCall] /\ held' = [held EXCEPT ![p] = {}]
      /\ files' = files \/ files' = WithDirectory(files)
      /\ UNCHANGED <<wlock, made, deleted>>
  BY DEF Exit, Return
<1>2. Table /\ Disk
  BY DEF IInv
<1>3. /\ fam_list'[p] = << >> /\ fam_qty'[p] = 0 /\ call'[p] = NoCall /\ held'[p] = {}
      /\ Touches(p)
  BY <1>1, <1>2 DEF Table, Touches
<1>4. ~WritesIn(fam_list'[p]) /\ ~CleanIn(fam_list'[p]) /\ Single(fam_list'[p])
  BY <1>3, RowEmpty
<1>5. Table'
  <2>1. Row(fam_list'[p], fam_qty'[p], call'[p], held'[p])
    BY <1>3, RowEmpty
  <2>2. fam_qty'[p] \in Nat /\ call'[p] \in CallType
    BY <1>3, Names
  <2>3. QED
    BY <2>1, <2>2, <1>2, <1>3, TableFrame
<1>6. /\ owner' \in Locks /\ namer' \in Locks /\ files' \in FileStates
      /\ files' = "partial" => files = "partial"
      /\ \A q \in Processes \ {p} : wlock # 0 /\ owner[wlock] = q => owner'[wlock] = q
  <2>1. wlock # 0 => wlock \in Inodes
    BY <1>2, FamiliesAssumption DEF Disk, Inodes
  <2>2. files \in FileStates /\ WithDirectory(files) \in FileStates
        /\ WithDirectory(files) # "partial"
    BY <1>2, Directory DEF Disk
  <2>3. QED
    BY <2>1, <2>2, <1>1, <1>2 DEF Disk, Locks
<1>7. Disk'
  <2>1. ~Making(call'[p], fam_list'[p])
    BY <1>3, Names DEF Making
  <2>2. QED
    BY <2>1, <1>1, <1>2, <1>3, <1>6, DiskFrame DEF Disk
<1>8. LockRespected => Locking' /\ Marked'
  <2>1. ~Holding(call'[p], fam_list'[p]) /\ call'[p].step = "none"
    BY <1>3, Names DEF Holding
  <2>2. QED
    BY <2>1, <1>1, <1>3, <1>4, <1>6, Names, LockingFrame, MarkedFrame DEF IInv
<1>9. AllRespected => DeletesAlone'
  BY <1>1, <1>3, <1>4, Names, DeletesFrame DEF IInv
<1>10. QED
  BY <1>5, <1>7, <1>8, <1>9 DEF IInv

-----------------------------------------------------------------------------
(***************************************************************************)
(* The theorems.                                                           *)
(***************************************************************************)
LEMMA InitHolds == Init => IInv
<1>1. SUFFICES ASSUME Init PROVE IInv
  OBVIOUS
<1>2. \A p \in Processes : /\ fam_list[p] = << >> /\ fam_qty[p] = 0
                           /\ call[p] = NoCall /\ held[p] = {}
  BY <1>1 DEF Init
<1>3. Table
  <2>1. \A p \in Processes : Row(fam_list[p], fam_qty[p], call[p], held[p])
    BY <1>2, RowEmpty
  <2>2. << >> \in Seq(SlotType) /\ 0 \in Nat /\ {} \in SUBSET (1..MaxSlots) /\ NoCall \in CallType
    BY Names
  <2>3. /\ fam_list \in [Processes -> Seq(SlotType)] /\ fam_qty \in [Processes -> Nat]
        /\ call \in [Processes -> CallType] /\ held \in [Processes -> SUBSET (1..MaxSlots)]
    BY <1>1, <2>2 DEF Init
  <2>4. QED
    BY <2>1, <2>3 DEF Table
<1>4. Disk
  <2>1. Before = {}
    BY <1>2, Names DEF Before, Making
  <2>2. Cardinality(Before) = 0
    BY <2>1, FS_EmptySet
  <2>3. made = 0 /\ made \in 0..MaxInodes /\ wlock \in 0..made /\ made + 0 <= MaxInodes
    BY <1>1, FamiliesAssumption DEF Init
  <2>4. owner \in Locks /\ namer \in Locks /\ files \in FileStates
    BY <1>1 DEF Init, Locks, FileStates
  <2>5. QED
    BY <1>1, <2>2, <2>3, <2>4 DEF Disk, Init
<1>5. Locking
  BY <1>2, RowEmpty, Names DEF Locking, Holding
<1>6. Marked
  BY <1>1, <1>2 DEF Marked, Init
<1>7. DeletesAlone
  BY <1>1, <1>2, Names DEF DeletesAlone, Init
<1>8. QED
  BY <1>3, <1>4, <1>5, <1>6, <1>7 DEF IInv

LEMMA StepKeeps ==
    ASSUME IInv, NoFailInHole, [Next]_vars
    PROVE  IInv'
<1>1. ASSUME NEW p \in Processes, NEW mode \in Modes, Open(p, mode) PROVE IInv'
  BY <1>1, OpenKeeps
<1>2. ASSUME NEW p \in Processes, NEW id \in 1..MaxSlots,
             Write(p, id) \/ Flush(p, id) \/ Close(p, id)
      PROVE  IInv'
  BY <1>2, WriteKeeps, FlushKeeps, CloseKeeps
<1>3. ASSUME NEW p \in Processes, Step(p) PROVE IInv'
  BY <1>3, TestOpenKeeps, TestByteKeeps, LockOpenKeeps, LockByteKeeps, CreateFamilyKeeps,
     LoadKeeps, LoadActiveKeeps, DeleteTestKeeps, DeleteFilesKeeps DEF Step
<1>4. ASSUME NEW p \in Processes, DeleteFamily(p) PROVE IInv'
  BY <1>4, DeleteFamilyKeeps
<1>5. ASSUME NEW p \in Processes, Exit(p) PROVE IInv'
  BY <1>5, ExitKeeps
<1>6. CASE UNCHANGED vars
  BY <1>6 DEF vars, IInv, Table, Disk, Locking, Marked, DeletesAlone, Before, Owns
<1>7. QED
  BY <1>1, <1>2, <1>3, <1>4, <1>5, <1>6 DEF Next

LEMMA Invariance == NoFailInHole => (Spec => []IInv)
<1>1. SUFFICES ASSUME NoFailInHole PROVE Spec => []IInv
  OBVIOUS
<1>2. IInv /\ [Next]_vars => IInv'
  BY <1>1, StepKeeps
<1>3. QED
  BY <1>2, InitHolds, PTL DEF Spec

LEMMA TableIsTyped == Table /\ Disk => TypeOK
<1>1. SUFFICES ASSUME Table, Disk PROVE TypeOK
  OBVIOUS
<1>2. ASSUME NEW p \in Processes
      PROVE  /\ fam_qty[p] = Cardinality(DOMAIN fam_list[p] \ Holes(fam_list[p]))
             /\ Opening(p) => call[p].id \in DOMAIN fam_list[p]
  <2>1. Row(fam_list[p], fam_qty[p], call[p], held[p])
    BY <1>1 DEF Table
  <2>2. Opening(p) <=> call[p].step \in OpenSteps
    BY Names
  <2>3. QED
    BY <2>1, <2>2 DEF Row, IsTable, Fits
<1>3. QED
  BY <1>1, <1>2 DEF TypeOK, Table, Disk, Locks, FileStates

\* As long as no mc_open fails whose slot is not the last of a full table, every
\* process's fam_qty counts the slots of its table in use, its calls work on slots
\* that are there, and the bound on lock files is never passed.
THEOREM TypeCorrect == NoFailInHole => (Spec => []TypeOK)
<1>1. IInv => TypeOK
  BY TableIsTyped DEF IInv
<1>2. QED
  BY <1>1, Invariance, PTL

\* Under the same condition the ids a process was given and has not closed are
\* exactly the families its table holds open.
THEOREM HandlesValid == NoFailInHole => (Spec => []IdsStayValid)
<1>1. IInv => IdsStayValid
  BY Names DEF IInv, Table, Row, IdsStayValid
<1>2. QED
  BY <1>1, Invariance, PTL

\* The write lock keeps all but one writer out, however many processes open and
\* close the family, as long as a writer does not open it a second time and no
\* other process is about to lock the lock file when one closes.
THEOREM OneWriterHolds == LockRespected => (Spec => []OneWriter)
<1>1. SUFFICES ASSUME LockRespected PROVE Spec => []OneWriter
  OBVIOUS
<1>2. IInv => OneWriter
  <2>1. SUFFICES ASSUME IInv, NEW p \in Processes, Writes(p)
                 PROVE  wlock # 0 /\ owner[wlock] = p /\ ~OthersWrite(p)
    BY DEF OneWriter, SoleWriter
  <2>2. \A q \in Processes : Writes(q) => wlock # 0 /\ owner[wlock] = q
    BY <1>1, <2>1, Names DEF IInv, Locking, Owns
  <2>3. QED
    BY <2>1, <2>2 DEF OthersWrite
<1>3. NoFailInHole
  BY <1>1 DEF LockRespected, NoFailInHole
<1>4. QED
  BY <1>2, <1>3, Invariance, PTL

\* Under the same conditions a family with a file that lacks its directory has a
\* lock file: mc_close takes the name away only when the last commit is done.
THEOREM UnfinishedIsMarkedHolds == LockRespected => (Spec => []UnfinishedIsMarked)
<1>1. SUFFICES ASSUME LockRespected PROVE Spec => []UnfinishedIsMarked
  OBVIOUS
<1>2. IInv => UnfinishedIsMarked
  BY <1>1 DEF IInv, Marked, UnfinishedIsMarked
<1>3. NoFailInHole
  BY <1>1 DEF LockRespected, NoFailInHole
<1>4. QED
  BY <1>2, <1>3, Invariance, PTL

\* If moreover nobody deletes the family while another opens it, its files are
\* never deleted under a process that writes them.
THEOREM FilesStayHolds == AllRespected => (Spec => []FilesStay)
<1>1. SUFFICES ASSUME AllRespected PROVE Spec => []FilesStay
  OBVIOUS
<1>2. IInv => FilesStay
  BY <1>1 DEF IInv, DeletesAlone, FilesStay
<1>3. NoFailInHole
  BY <1>1 DEF AllRespected, LockRespected, NoFailInHole
<1>4. QED
  BY <1>2, <1>3, Invariance, PTL
=============================================================================
