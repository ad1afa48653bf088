------------------------------- MODULE Results -------------------------------
(***************************************************************************)
(* State data by subrecord: mc_wrt_subrec puts the lumps of a subrecord    *)
(* into the record of the state being written, mc_read_results takes the   *)
(* atoms of the variables asked for out of the record of any state, for an *)
(* object-ordered subrecord by way of the ring of input buffers each       *)
(* handle keeps for it.                                                    *)
(*                                                                         *)
(* One process writes the family and may read it as well; another opened   *)
(* it for reading.  A record is the sequence of its words.  An atom is the *)
(* write it came from, its subrecord, its object (and facet), its variable *)
(* and its number there: what the application passed.                      *)
(***************************************************************************)
EXTENDS Records

CONSTANTS
    Svars,     \* the table of variables
    Formats,   \* the record formats a family may have: sequences of subrecords
    Requests,  \* the lists of results an application asks for
    App,       \* what the applications may do
    MaxStates, \* bound: states at a time
    MaxClock,  \* bound: rewrites and restarts
    MaxBuffers \* bound: input buffers of a subrecord

(***************************************************************************)
(* What the applications may do beyond the plainest use:                   *)
(*   mixed_lengths   ask in one call for parts of different lengths of one *)
(*                   variable of a result-ordered subrecord                *)
(*   late_component  ask for a vector within a vector array where other    *)
(*                   components come before it                             *)
(*   stale_rewrite   rewrite a state that the reader has in a buffer       *)
(*   restart         restart at a state that has been read                 *)
(*   mr_arrays       ask mc_mr_get_result for an array that several        *)
(*                   subrecords of a class have, for a vector array with   *)
(*                   vectors in it, or for a surface's variable            *)
(***************************************************************************)
Privileges == {"mixed_lengths", "late_component", "stale_rewrite", "restart", "mr_arrays"}

ASSUME ResultsAssumption ==
    /\ App \subseteq Privileges
    /\ MaxStates \in Nat /\ MaxClock \in Nat
    /\ MaxBuffers \in Nat /\ MaxBuffers >= 2  \* as many as a subrecord is defined with

ASSUME SvarAssumption ==
    \A v \in DOMAIN Svars :
        /\ Svars[v].agg \in Aggregates /\ Svars[v].type \in Types
        /\ Svars[v].dims \in Seq(Nat) /\ Svars[v].comps \in Seq(DOMAIN Svars)
        /\ Svars[v].agg = "vec_array" =>
               \A i \in DOMAIN Svars[v].comps : Svars[Svars[v].comps[i]].agg # "vec_array"

\* What mc_def_subrec grants: in an object-ordered subrecord all variables have one type,
\* in a result-ordered one none is a vector array.  What it takes as given: a variable
\* at least, and blocks of ids in order.  A surface's subrecord has one variable.
ASSUME FormatAssumption ==
    \A f \in DOMAIN Formats : Formats[f] \in Seq(Range(Formats[f])) /\ \A k \in DOMAIN Formats[f] :
        LET sub == Formats[f][k]
            type(i) == Svars[sub.svars[i]].type
        IN  /\ sub \in [org : Organizations, svars : Seq(DOMAIN Svars), super : STRING, class : STRING,
                        blocks : Seq({b \in [start : Nat, stop : Nat] : b.start <= b.stop}),
                        flags : Seq(SurfaceFlags), facets : Seq(Nat)]
            /\ sub.svars # << >>
            /\ sub.org = "object" => \A i \in DOMAIN sub.svars : type(i) = type(1)
            /\ sub.org = "result" => \A v \in Range(sub.svars) : Svars[v].agg # "vec_array"
            /\ sub.super = "surface" =>
                   /\ Len(sub.svars) = 1
                   /\ \A j \in 1..MoQty(sub.super, sub.blocks) :
                          sub.facets[FlatBlocks(sub.blocks)[j]] \in Nat

Handles == {"writer", "reader"}

VARIABLES
    srec,   \* the record format of the family: its subrecords with their metrics
    disk,   \* the records of the states in the state files
    times,  \* the times of those states
    writing,\* how many lumps of each subrecord of the last state are written, or NotWriting
    known,  \* how many states each handle has in its state map
    queue,  \* each handle's ring of buffers for each subrecord
    latest, \* history: the write that last gave each lump of each state
    clock   \* history: rewrites and restarts so far

vars == <<srec, disk, times, writing, known, queue, latest, clock>>

NotWriting == << >>

\* mc_def_subrec: a subrecord begins where the record ended before.
WithMetrics(subrecs) ==
    LET metrics == [k \in DOMAIN subrecs |-> SetMetrics(Svars, subrecs[k])]
    IN  [k \in DOMAIN subrecs |->
            LET sub == subrecs[k]
                m   == metrics[k]
            IN  [org |-> sub.org, svars |-> sub.svars, super |-> sub.super, class |-> sub.class,
                 blocks |-> sub.blocks, flags |-> sub.flags, facets |-> sub.facets,
                 offset |-> Sum([j \in 1..k - 1 |-> metrics[j].size]), size |-> m.size,
                 lump_atoms |-> m.lump_atoms, lump_sizes |-> m.lump_sizes,
                 lump_offsets |-> m.lump_offsets]]

Subrecs        == DOMAIN srec
Sub(k)         == srec[k]
Complete       == IF writing = NotWriting THEN Len(disk) ELSE Len(disk) - 1
ObjectOrdered  == {k \in Subrecs : Sub(k).org = "object"}
RecordSize     == Sum([k \in Subrecs |-> Sub(k).size])

\* The number of objects, or of their facets, that a variable has a value for.
Cells(sub, i) ==
    LET n == MoQty(sub.super, sub.blocks)
    IN  IF sub.super = "surface" /\ sub.flags[i] = "per_facet"
        THEN n * sub.facets[sub.blocks[1].start] ELSE n

Lumps(sub) == IF sub.org = "object"
              THEN (IF sub.super = "surface" THEN 1 ELSE MoQty(sub.super, sub.blocks))
              ELSE Len(sub.svars)

-----------------------------------------------------------------------------
(***************************************************************************)
(* Writing.                                                                *)
(***************************************************************************)
Atom(call, k, cell, v, a) == <<"atom", call, k, cell, v, a>>

\* The data an application passes for lumps of a subrecord: for each object all
\* variables, or for each variable all objects.
SvarAtoms(call, k, cell, i) ==
    LET v == Sub(k).svars[i]
    IN  [a \in 1..AtomQty(Svars, v) |-> Atom(call, k, cell, v, a)]
CellAtoms(call, k, i) == FlattenSeq([c \in 1..Cells(Sub(k), i) |-> SvarAtoms(call, k, c, i)])
LumpData(call, k, l) ==
    LET sub == Sub(k)
        all == DOMAIN sub.svars
    IN  IF sub.org = "result" THEN CellAtoms(call, k, l)
        ELSE IF sub.super = "surface" THEN FlattenSeq([i \in all |-> CellAtoms(call, k, i)])
        ELSE FlattenSeq([i \in all |-> SvarAtoms(call, k, l, i)])

\* Mutant: the offset of a lump is taken within the subrecord.
LumpPlaceWithin(sub, start) ==
    IF sub.org = "object" THEN sub.lump_sizes[1] * (start - 1) ELSE sub.lump_offsets[start]

\* loc, from the start of the record's data
LumpPlace(sub, start) ==
    sub.offset + IF sub.org = "object" THEN sub.lump_sizes[1] * (start - 1)
                 ELSE sub.lump_offsets[start]

\* What mc_wrt_subrec writes of the data: qty atoms of the type of svars[start].
WriteLumps(record, k, start, stop, data) ==
    LET sub  == Sub(k)
        type == Svars[sub.svars[start]].type
        qty  == IF sub.org = "result"
                THEN (sub.lump_offsets[stop] - sub.lump_offsets[start] + sub.lump_sizes[stop])
                         \div TypeSize(type)
                ELSE IF sub.super = "surface" THEN sub.lump_atoms[1]
                ELSE sub.lump_atoms[1] * (stop - start + 1)
    IN  PutWords(record, LumpPlace(sub, start), ToWords(SubSeq(data, 1, qty), TypeSize(type)))

\* The time an application gives the next state: never before that of the last.
NextTime == (Len(disk) + 1 + clock) \div 2

NewState ==
    /\ writing = NotWriting /\ Len(disk) < MaxStates
    /\ disk' = Append(disk, Hole(RecordSize))
    /\ times' = Append(times, NextTime)
    /\ writing' = [k \in Subrecs |-> 0]
    /\ latest' = Append(latest, [k \in Subrecs |-> [l \in 1..Lumps(Sub(k)) |-> << >>]])
    /\ UNCHANGED <<srec, known, queue, clock>>

\* Which lumps one call may write.
MayWrite(k, start, stop) ==
    LET sub == Sub(k)
    IN  /\ stop <= Lumps(sub)
           \* svars[start] is looked up, though start numbers an object
        /\ sub.org = "object" => start <= Len(sub.svars)
        /\ sub.org = "result" =>
               \A i \in start..stop : Svars[sub.svars[i]].type = Svars[sub.svars[start]].type

Data(call, k, start, stop) ==
    FlattenSeq([l \in 1..stop - start + 1 |-> LumpData(call, k, start + l - 1)])

Latest(call, st, k, start, stop) ==
    [latest EXCEPT ![st][k] = [l \in DOMAIN @ |-> IF l \in start..stop THEN call ELSE @[l]]]

\* mc_wrt_subrec: the application writes the lumps of a state in order.
WrtSubrec(k, stop) ==
    LET start == writing[k] + 1
        st    == Len(disk)
        call  == <<st, clock>>
    IN  /\ writing # NotWriting /\ clock < MaxClock
        /\ k \in Subrecs /\ \A j \in 1..k - 1 : writing[j] = Lumps(Sub(j))
        /\ start <= stop /\ MayWrite(k, start, stop)
        /\ disk' = [disk EXCEPT ![st] = WriteLumps(@, k, start, stop, Data(call, k, start, stop))]
        /\ writing' = [writing EXCEPT ![k] = stop]
        /\ latest' = Latest(call, st, k, start, stop)
        /\ UNCHANGED <<srec, times, known, queue, clock>>

EndState ==
    /\ writing # NotWriting
    /\ \A k \in Subrecs : writing[k] = Lumps(Sub(k))
    /\ writing' = NotWriting
    /\ known' = [known EXCEPT !["writer"] = Len(disk)]
    /\ UNCHANGED <<srec, disk, times, queue, latest, clock>>

\* Mutant: the buffers are left as they are.
KeepQueue(h, k) == queue

\* The end of mc_rewrite_subrec: buffer_count = 0
DropQueue(h, k) == [queue EXCEPT ![h][k].numbers = << >>, ![h][k].data = << >>]

\* mc_rewrite_subrec: one lump of an object-ordered subrecord of an earlier state.
RewriteSubrec(st, k, l) ==
    LET call == <<st, clock + 1>> IN
    /\ st \in 1..Complete /\ clock < MaxClock
    /\ k \in ObjectOrdered /\ MayWrite(k, l, l)
    /\ "stale_rewrite" \in App \/ st \notin Range(queue["reader"][k].numbers)
    /\ disk' = [disk EXCEPT ![st] = WriteLumps(@, k, l, l, Data(call, k, l, l))]
    /\ latest' = Latest(call, st, k, l, l)
    /\ clock' = clock + 1
    /\ queue' = DropQueue("writer", k)
    /\ UNCHANGED <<srec, times, writing, known>>

\* mc_restart_at_state
Restart(st) ==
    /\ "restart" \in App \/
           /\ known["reader"] < st
           /\ \A h \in Handles, k \in Subrecs, i \in st..Len(disk) : i \notin Range(queue[h][k].numbers)
    /\ writing = NotWriting /\ st \in 1..Len(disk) /\ clock < MaxClock
    /\ disk' = SubSeq(disk, 1, st - 1)
    /\ times' = SubSeq(times, 1, st - 1)
    /\ latest' = SubSeq(latest, 1, st - 1)
    /\ known' = [known EXCEPT !["writer"] = st - 1]
    /\ clock' = clock + 1
    /\ UNCHANGED <<srec, writing, queue>>

-----------------------------------------------------------------------------
(***************************************************************************)
(* The rings of input buffers.                                             *)
(***************************************************************************)
Unused == -1
NoData == << >>

EmptyQueue(qty) == [numbers |-> [i \in 1..qty |-> Unused], data |-> [i \in 1..qty |-> NoData],
                    new_count |-> qty, recent |-> 0]

\* init_buffer_queue for the same size of buffers: no more buffers, new ones, or
\* more of them.
InitQueue(q, qty) ==
    LET more == qty - Len(q.numbers)
    IN  IF qty = 0 THEN [q EXCEPT !.numbers = << >>, !.data = << >>]
        ELSE IF q.numbers = << >> THEN EmptyQueue(qty)
        ELSE [q EXCEPT !.numbers = @ \o [i \in 1..more |-> Unused],
                       !.data = @ \o [i \in 1..more |-> NoData],
                       !.new_count = @ + more]

\* mc_set_buffer_qty.  A ring never gets smaller but by giving it up: the count
\* would go on beyond the shorter arrays.
SetBufferQty(h, qty) ==
    LET change == {k \in ObjectOrdered : Len(queue[h][k].numbers) # qty}
    IN  /\ change # {}
        /\ qty = 0 \/ \A k \in change : Len(queue[h][k].numbers) <= qty
        /\ queue' = [queue EXCEPT ![h] = [k \in Subrecs |->
                         IF k \in change THEN InitQueue(@[k], qty) ELSE @[k]]]
        /\ UNCHANGED <<srec, disk, times, writing, known, latest, clock>>

\* The buffer for a state that is in none: an unused one, or the one after recent.
NextBuffer(q) ==
    IF q.new_count > 0 /\ \E i \in DOMAIN q.numbers : q.numbers[i] = Unused
    THEN Min({i \in DOMAIN q.numbers : q.numbers[i] = Unused})
    ELSE (q.recent % Len(q.numbers)) + 1

-----------------------------------------------------------------------------
(***************************************************************************)
(* mc_read_results.                                                        *)
(***************************************************************************)
\* translate_reference for the results of a call, and whether it refuses one.
Translated(sub, refs) == [i \in DOMAIN refs |-> Translate(Svars, sub, refs[i])]
Malformed(ts)         == \E i \in DOMAIN ts : ts[i].rval # "ok"

Width(sub, t) == TypeSize(Svars[sub.svars[t.at]].type)

\* p_output: the place of each result in the caller's buffer.
OutPlace(sub, ts, i) ==
    Sum([j \in 1..i - 1 |-> ts[j].reqd * Width(sub, ts[j]) * MoQty(sub.super, sub.blocks)])

\* The buffer a caller would provide.
OutSize(sub, ts) ==
    Sum([j \in DOMAIN ts |-> ts[j].reqd * Width(sub, ts[j]) * Cells(sub, ts[j].at)])

\* The requests that the data read for request i serves: for a part of a variable
\* that one too.
Served(ts, i) ==
    {j \in i..Len(ts) : ts[j].at = ts[i].at /\ (j > i \/ ts[i].reqd # ts[i].atoms)}

\* get_ro_svars: the caller's buffer.
ReadResultOrdered(sub, words, ts) ==
    LET n == MoQty(sub.super, sub.blocks)
        Get(buf, i) ==
            LET t    == ts[i]
                w    == Width(sub, t)
                lump == FromWords(GetWords(words, sub.lump_offsets[t.at], sub.lump_sizes[t.at]), w)
                whole == IF t.reqd = t.atoms
                         THEN PutWords(buf, OutPlace(sub, ts, i), ToWords(lump, w)) ELSE buf
                Give(b, j) ==
                    IF j \notin Served(ts, i) THEN b
                    ELSE PutWords(b, OutPlace(sub, ts, j),
                             ToWords(Distribute(DistFunc(t.reqd, t.atoms), lump, n, ts[j].atoms,
                                                ts[j].offset, ts[j].reqd), w))
            IN  IF \E j \in 1..i - 1 : i \in Served(ts, j) THEN buf
                ELSE FoldLeft(Give, whole, Positions(ts))
    IN  FoldLeft(Get, Hole(OutSize(sub, ts)), Positions(ts))

\* obj_vec_offset
VectorOffset(sub, at, facets) ==
    Sum([j \in 1..at - 1 |-> AtomQty(Svars, sub.svars[j]) * facets])

\* get_oo_svars, the extraction: ibuf holds the subrecord's words.
ExtractObjectOrdered(sub, ibuf, ts) ==
    LET n == MoQty(sub.super, sub.blocks)
        Get(buf, i) ==
            LET t == ts[i]
                w == Width(sub, t)
                facets == IF sub.super = "surface" /\ sub.flags[i] = "per_facet"
                          THEN sub.facets[sub.blocks[1].start] ELSE 1
                vec  == sub.lump_atoms[1]
                vals == Distribute(DistFunc(t.reqd, vec), FromWords(ibuf, w), n * facets,
                                   vec \div facets, t.offset + VectorOffset(sub, t.at, facets), t.reqd)
            IN  PutWords(buf, OutPlace(sub, ts, i), ToWords(vals, w))
    IN  FoldLeft(Get, Hole(OutSize(sub, ts)), Positions(ts))

\* What an application asks for, and what it is translated to.
MayAsk(sub, refs, ts) ==
    /\ \A i \in DOMAIN refs : refs[i].name \in Range(sub.svars)
    /\ \A i \in DOMAIN refs : Len(refs[i].index) <= Len(Svars[refs[i].name].dims) + 1
    /\ "mixed_lengths" \notin App /\ sub.org = "result" /\ ~Malformed(ts) =>
           \/ Cardinality({ts[i].reqd : i \in DOMAIN ts}) = 1
           \/ \A i, j \in DOMAIN refs : refs[i].name = refs[j].name => i = j
    /\ \/ "late_component" \in App
       \/ \A i \in DOMAIN refs :
              LET v == refs[i].name
              IN  Svars[v].agg = "vec_array" /\ Len(refs[i].names) = 1 =>
                      \/ Svars[refs[i].names[1]].agg = "scalar"
                      \/ refs[i].names[1] = Svars[v].comps[1]
       \* a number for the component of a vector array: its size is not defined
    /\ \A i \in DOMAIN refs :
           Svars[refs[i].name].agg = "vec_array" /\ refs[i].names = << >> =>
               Len(refs[i].index) <= Len(Svars[refs[i].name].dims)
       \* the flags of a surface's variables are looked up by the place of the request
    /\ sub.super = "surface" => Len(refs) = 1

\* The calls for each subrecord of the formats, with their references translated.
Calls == [sub \in UNION {Range(WithMetrics(Formats[f])) : f \in DOMAIN Formats} |->
             {call \in {[refs |-> refs, ts |-> Translated(sub, refs)] : refs \in Requests} :
                 MayAsk(sub, call.refs, call.ts)}]

\* update_active_family: the reader's family is active, and its map is read again
\* where the state asked for is not in it.
KnownFor(h, st) == IF st > known[h] /\ h = "reader" THEN Complete ELSE known[h]

\* The words of a subrecord, as many as there are: a state that is gone has none.
SubrecWords(st, k) ==
    IF st > Len(disk) THEN << >> ELSE GetWords(disk[st], Sub(k).offset, Sub(k).size)

\* Mutant: the buffer is claimed, the data of the last state in it kept.
FillLater(q, i, st, words) == [q EXCEPT !.numbers[i] = st, !.recent = i]

\* The ring with the words of a state in one of its buffers.
Fill(q, i, st, words) ==
    [q EXCEPT !.numbers[i] = st, !.data[i] = words, !.recent = i,
              !.new_count = IF @ > 0 THEN @ - 1 ELSE @]

\* The buffer that has a state.
Hit(q, st) == Min({i \in DOMAIN q.numbers : q.numbers[i] = st})

\* get_oo_svars, the input: the ring afterwards.  The buffer is taken for the state
\* before it is read: where there is no more of the file it keeps what it had.
QueueAfter(q, st, words) ==
    IF q.numbers = << >> \/ st \in Range(q.numbers) THEN q
    ELSE Fill(q, NextBuffer(q), st, IF words = << >> THEN q.data[NextBuffer(q)] ELSE words)

\* The words get_ro_svars and get_oo_svars take the results from.
Input(h, st, k) ==
    LET q == queue[h][k]
    IN  IF Sub(k).org = "object" /\ st \in Range(q.numbers) THEN q.data[Hit(q, st)]
        ELSE SubrecWords(st, k)

\* What mc_read_results returns, and the data it gives to the caller.
Rval(h, st, k, malformed) ==
    IF st > KnownFor(h, st) THEN "invalid_state"
    ELSE IF malformed THEN "malformed"
    ELSE IF Input(h, st, k) = << >> THEN "short_read" ELSE "ok"

Results(h, st, k, ts) ==
    IF Sub(k).org = "result" THEN ReadResultOrdered(Sub(k), Input(h, st, k), ts)
    ELSE ExtractObjectOrdered(Sub(k), Input(h, st, k), ts)

\* Whether what an application may ask of a subrecord is refused.
Outcomes(k) == {Malformed(call.ts) : call \in Calls[Sub(k)]}

\* mc_read_results, and what it leaves behind
ReadResults(h, st, k, malformed) ==
    /\ malformed \in Outcomes(k)
    /\ known' = [known EXCEPT ![h] = KnownFor(h, st)]
    /\ queue' = IF Rval(h, st, k, malformed) \in {"invalid_state", "malformed"}
                   \/ Sub(k).org = "result"
                THEN queue
                ELSE [queue EXCEPT ![h][k] = QueueAfter(@, st, SubrecWords(st, k))]
    /\ UNCHANGED <<srec, disk, times, writing, latest, clock>>

-----------------------------------------------------------------------------
(***************************************************************************)
(* mc_query_family about states: what a handle's state map says.           *)
(***************************************************************************)
Smap(h) == SubSeq(times, 1, known[h])

\* QTY_STATES updates an active family.
QtyStates(h) == IF h = "reader" THEN Complete ELSE known[h]
QueryQtyStates(h) ==
    /\ QtyStates(h) # known[h]
    /\ known' = [known EXCEPT ![h] = QtyStates(h)]
    /\ UNCHANGED <<srec, disk, times, writing, queue, latest, clock>>

Invalid == << >>

\* STATE_TIME, TIME_OF_STATE
StateTime(smap, st) == IF st \in DOMAIN smap THEN <<smap[st]>> ELSE Invalid

\* MULTIPLE_TIMES
MultipleTimes(smap, states) ==
    IF Range(states) \subseteq DOMAIN smap THEN [i \in DOMAIN states |-> smap[states[i]]] ELSE Invalid

\* SERIES_TIMES, forward or backward
SeriesTimes(smap, first, last) ==
    LET add == IF last >= first THEN 1 ELSE -1
    IN  IF {first, last} \subseteq DOMAIN smap
        THEN [j \in 1..add * (last - first) + 1 |-> smap[first + add * (j - 1)]] ELSE Invalid

\* Mutant: a time that is a state's is looked for behind that state.
StateOfTimeBehind(smap, t) ==
    LET qty == Len(smap)
        i   == Cardinality({j \in DOMAIN smap : t > smap[j]})
    IN  IF qty > 1
        THEN IF i = 0 THEN Invalid ELSE IF i < qty THEN <<i, i + 1>>
             ELSE IF t = smap[i] THEN <<i - 1, i>> ELSE Invalid
        ELSE IF qty = 1 /\ t = smap[1] THEN <<1, 1>> ELSE Invalid

\* STATE_OF_TIME: i is the number of states in front that are not after t.
StateOfTime(smap, t) ==
    LET qty == Len(smap)
        i   == Max({j \in 0..qty : \A k \in 1..j : t >= smap[k]})
    IN  IF qty > 1
        THEN IF i = 0 THEN Invalid ELSE IF i < qty THEN <<i, i + 1>>
             ELSE IF t = smap[i] THEN <<i - 1, i>> ELSE Invalid
        ELSE IF qty = 1 /\ t = smap[1] THEN <<1, 1>> ELSE Invalid

-----------------------------------------------------------------------------
(***************************************************************************)
(* Results by class (mr_funcs.c): the subrecords of the format that are of *)
(* a class, the variables they have, and a variable of all their objects,  *)
(* put together by the objects' ids.                                       *)
(***************************************************************************)
ClassNames == {Sub(k).class : k \in Subrecs}

\* mc_mr_get_subrec_list: by number, for a name is in a format once.
SubrecList(class) == SelectSeq(Positions(srec), LAMBDA k : Sub(k).class = class)

\* mc_mr_get_subrec_vars, of one subrecord or of all of the class
Distinct(names, name) == IF name \in Range(names) THEN names ELSE Append(names, name)
SubrecVars(class, subs) ==
    LET list == SelectSeq(SubrecList(class), LAMBDA k : k \in subs)
    IN  FoldLeft(Distinct, << >>, FlattenSeq([i \in DOMAIN list |-> Sub(list[i]).svars]))

\* mc_mr_is_valid_svar
HavingSvar(class, v) == SelectSeq(SubrecList(class), LAMBDA k : v \in Range(Sub(k).svars))

\* mo_blocks of mc_get_subrec_def
MoBlocks(sub) ==
    IF sub.super \in {"mesh", "surface"} THEN <<[start |-> 1, stop |-> 1]>> ELSE sub.blocks

\* mc_mr_get_result_len: the size of an array counts once more in each subrecord.
ResultLen(list, v) ==
    LET def  == Svars[v]
        dims == IF def.agg \in {"array", "vec_array"} THEN Product(def.dims) ELSE 1
        vec  == IF def.agg \in {"vector", "vec_array"} THEN Len(def.comps) ELSE 1
    IN  Sum([i \in DOMAIN list |-> MoQty(Sub(list[i]).super, Sub(list[i]).blocks) * vec * dims ^ i])

Zero == <<"zero">>

\* Mutant: the objects' values follow each other, whatever their ids.
PlacedPacked(result, data, ids, width) ==
    [p \in DOMAIN result |-> IF p \in DOMAIN data THEN data[p] ELSE result[p]]

\* The values of a subrecord's objects, where their ids say.
Placed(result, data, ids, width) ==
    [p \in DOMAIN result |->
        LET id == (p - 1) \div width + 1
        IN  IF id \in Range(ids)
            THEN data[(IndexIn(ids, id) - 1) * width + ((p - 1) % width) + 1] ELSE result[p]]

\* mc_mr_get_result: the calls of mc_read_results it makes, up to one that fails,
\* and what it returns.
ResultReads(h, st, class, v) ==
    LET list == HavingSvar(class, v)
        bad  == {i \in DOMAIN list : Rval(h, st, list[i], FALSE) # "ok"}
    IN  IF bad = {} THEN list ELSE SubSeq(list, 1, Min(bad))

WholeOf(k, v) == Translated(Sub(k), <<[name |-> v, index |-> << >>, names |-> << >>]>>)
ResultOf(h, st, k, v, type) == FromWords(Results(h, st, k, WholeOf(k, v)), TypeSize(type))

GetResult(h, st, class, v) ==
    LET list  == HavingSvar(class, v)
        ids(k) == BlockIds(MoBlocks(Sub(k)))
        len   == Sum([i \in DOMAIN list |-> Len(ids(list[i]))])
        width == ResultLen(list, v) \div len
        top   == Max(UNION {Range(ids(k)) : k \in Range(list)})
        fails == SelectSeq(list, LAMBDA k : Rval(h, st, k, FALSE) # "ok")
    IN  IF list = << >> THEN [rval |-> "not_ok"]
        ELSE IF fails # << >> THEN [rval |-> Rval(h, st, fails[1], FALSE)]
        ELSE [rval |-> "ok", len |-> len, veclen |-> width,
              result |-> FoldLeft(LAMBDA r, k : Placed(r, ResultOf(h, st, k, v, Svars[v].type), ids(k), width),
                                  [p \in 1..top * width |-> Zero], list)]

\* What an application asks for.
MayAskResult(class, v) ==
    \/ "mr_arrays" \in App
    \/ /\ \A k \in Range(HavingSvar(class, v)) : Sub(k).super # "surface"
       /\ Svars[v].dims # << >> => Len(HavingSvar(class, v)) = 1
       /\ Svars[v].agg = "vec_array" => \A c \in Range(Svars[v].comps) : Svars[c].agg = "scalar"

\* Its state is that of the calls it makes.
MrGetResult(h, st, class, v) ==
    LET reads == Range(ResultReads(h, st, class, v))
    IN  /\ MayAskResult(class, v)
        /\ known' = [known EXCEPT ![h] = KnownFor(h, st)]
        /\ queue' = [queue EXCEPT ![h] = [k \in Subrecs |->
                         IF k \in reads /\ Sub(k).org = "object" /\ st <= KnownFor(h, st)
                         THEN QueueAfter(@[k], st, SubrecWords(st, k)) ELSE @[k]]]
        /\ UNCHANGED <<srec, disk, times, writing, latest, clock>>

-----------------------------------------------------------------------------
Init ==
    /\ \E f \in DOMAIN Formats : srec = WithMetrics(Formats[f])
    /\ disk = << >> /\ times = << >> /\ writing = NotWriting /\ latest = << >> /\ clock = 0
    /\ known = [h \in Handles |-> 0]
    /\ queue = [h \in Handles |-> [k \in Subrecs |->
                   IF Sub(k).org = "object" THEN EmptyQueue(2) ELSE EmptyQueue(0)]]

Next ==
    \/ NewState \/ EndState
    \/ \E k \in Subrecs : \E l \in 1..Lumps(Sub(k)) :
           WrtSubrec(k, l) \/ \E st \in 1..MaxStates : RewriteSubrec(st, k, l)
    \/ \E st \in 1..MaxStates : Restart(st)
    \/ \E h \in Handles :
           \/ \E qty \in 0..MaxBuffers : SetBufferQty(h, qty)
           \/ \E st \in 1..MaxStates, k \in Subrecs, malformed \in BOOLEAN :
                  ReadResults(h, st, k, malformed)
           \/ QueryQtyStates(h)
           \/ \E st \in 1..MaxStates, class \in ClassNames :
                  \E v \in Range(SubrecVars(class, Subrecs)) : MrGetResult(h, st, class, v)

Spec == Init /\ [][Next]_vars

-----------------------------------------------------------------------------
(***************************************************************************)
(* Properties.                                                             *)
(***************************************************************************)
\* The rings: as many data buffers as numbers, recent within the ring, and no
\* state in two buffers; new_count counts the unused ones.
TypeOK ==
    /\ \A h \in Handles, k \in Subrecs :
           LET q == queue[h][k]
           IN  /\ Len(q.numbers) = Len(q.data) /\ Len(q.numbers) <= MaxBuffers
               /\ \A i \in DOMAIN q.numbers : q.numbers[i] \in {Unused} \cup 1..MaxStates
               /\ q.numbers # << >> =>
                      /\ q.recent \in 0..Len(q.numbers)
                      /\ q.new_count = Cardinality({i \in DOMAIN q.numbers : q.numbers[i] = Unused})
               /\ \A i, j \in DOMAIN q.numbers :
                      q.numbers[i] = q.numbers[j] /\ q.numbers[i] > 0 => i = j
    /\ known \in [Handles -> 0..MaxStates]
    /\ Len(disk) <= MaxStates /\ Len(latest) = Len(disk) /\ Len(times) = Len(disk)
    /\ clock \in 0..MaxClock

\* The lump that a cell's value of a variable was written with.
LumpOf(sub, cell, i) ==
    IF sub.org = "result" THEN i ELSE IF sub.super = "surface" THEN 1 ELSE cell

\* The atoms that each reference asked for names.
Named == [ref \in UNION {Range(refs) : refs \in Requests} |-> RefAtoms(Svars, ref)]

\* What a request means: for each object, or facet, the atoms the reference names,
\* as the application last wrote them.
Meaning(st, k, ref) ==
    LET sub == Sub(k)
        i   == IndexIn(sub.svars, ref.name)
    IN  ToWords(FlattenSeq([c \in 1..Cells(sub, i) |-> [a \in DOMAIN Named[ref] |->
                    Atom(latest[st][k][LumpOf(sub, c, i)], k, c, ref.name, Named[ref][a])]]),
                TypeSize(Svars[ref.name].type))

\* Whether a reference names something: some atoms, and a component of a vector
\* array only in one element of it.
Meaningful(ref) ==
    /\ Named[ref] # << >>
    /\ Svars[ref.name].agg = "vec_array" /\ ref.names # << >> =>
           Len(ref.index) = Len(Svars[ref.name].dims)
    /\ Svars[ref.name].agg = "vector" => ref.index = << >> \/ ref.names = << >>

\* A complete state has a value for every atom: no word of its record is left
\* over, and none was written twice in the course of the state.
RecordsFilled ==
    \A st \in 1..Complete, w \in 1..RecordSize : disk[st][w] # <<Garbage, 0>>

\* What mc_mr_get_result should return for an object: the atoms of the variable
\* last written for it, in the subrecord of the class that has it, or zeros.
ObjectValue(st, class, v, id) ==
    LET having == {k \in Range(HavingSvar(class, v)) : id \in Range(BlockIds(Sub(k).blocks))}
        k == CHOOSE k \in having : TRUE
        i == IndexIn(Sub(k).svars, v)
        c == IndexIn(BlockIds(Sub(k).blocks), id)
    IN  [a \in 1..AtomQty(Svars, v) |->
            IF having = {} THEN Zero ELSE Atom(latest[st][k][LumpOf(Sub(k), c, i)], k, c, v, a)]

\* mc_mr_get_result puts a class's results together: whichever subrecords have the
\* variable, however their data is ordered and whatever ids have no result, each
\* object's values are found under its id.
Assembled ==
    \A h \in Handles, st \in 1..MaxStates, class \in ClassNames :
        \A v \in Range(SubrecVars(class, Subrecs)) : MayAskResult(class, v) =>
            \A r \in {GetResult(h, st, class, v)} :
                IF st > Complete THEN r.rval = "invalid_state"
                ELSE /\ r.rval = "ok" /\ r.veclen = AtomQty(Svars, v)
                     /\ r.result = FlattenSeq([id \in 1..Len(r.result) \div r.veclen |->
                                                  ObjectValue(st, class, v, id)])

\* Whether a handle has a state in a buffer or not makes no
\* difference to what it reads: the words of the subrecord that the state files have.
BuffersCurrent ==
    \A h \in Handles, st \in 1..Complete, k \in Subrecs : Input(h, st, k) = SubrecWords(st, k)

\* srec.c:2564 ("Found requested state in memory").  What the writer finds of a state in
\* a ring of its own are the words of that state, also after it restarted and wrote
\* the state anew.
OwnBuffersCurrent ==
    \A st \in 1..Complete, k \in Subrecs : Input("writer", st, k) = SubrecWords(st, k)

\* mc_read_results returns, for every object of the subrecord in order, just the
\* atoms that each reference names, as they were last written for that state,
\* through whatever buffers; and it refuses exactly the references that name
\* nothing and the states that are not there.  No word of a record is left over, and
\* a class's results are put together under the objects' ids.
ReadsBack ==
    /\ RecordsFilled
    /\ BuffersCurrent
    /\ Assembled
    /\ \A h \in Handles, st \in 1..MaxStates, k \in Subrecs : \A call \in Calls[Sub(k)] :
           LET rval == Rval(h, st, k, Malformed(call.ts))
           IN  IF st > Complete THEN rval = "invalid_state"
               ELSE IF \E i \in DOMAIN call.refs : ~Meaningful(call.refs[i]) THEN rval = "malformed"
               ELSE /\ rval = "ok"
                    /\ Results(h, st, k, call.ts) =
                           FlattenSeq([i \in DOMAIN call.refs |-> Meaning(st, k, call.refs[i])])

\* The times asked for, in whatever way, are those of the states; and the two states
\* of a time are neighbours with the time between theirs, or the only one, refused
\* just when the time is before the first or after the last state.
TimesFound ==
    \A h \in Handles :
        LET smap == Smap(h)
        IN  /\ \A i \in 0..MaxStates + 1, j \in 0..MaxStates + 1 :
                   /\ MultipleTimes(smap, <<i, j>>) # Invalid =>
                          MultipleTimes(smap, <<i, j>>) = StateTime(smap, i) \o StateTime(smap, j)
                   /\ SeriesTimes(smap, i, j) = Reverse(SeriesTimes(smap, j, i))
                   /\ i <= j /\ SeriesTimes(smap, i, j) # Invalid =>
                          SeriesTimes(smap, i, j) = SubSeq(times, i, j)
            /\ \A t \in 0..MaxStates + MaxClock + 1 :
                   LET r == StateOfTime(smap, t)
                   IN  IF smap = << >> \/ t < smap[1] \/ t > Last(smap) THEN r = Invalid
                       ELSE /\ r # Invalid /\ Range(r) \subseteq DOMAIN smap
                            /\ smap[r[1]] <= t /\ t <= smap[r[2]]
                            /\ r[2] = r[1] + 1 \/ Len(smap) = 1
=============================================================================
