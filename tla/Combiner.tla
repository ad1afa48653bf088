-------------------------------- MODULE Combiner --------------------------------
(***************************************************************************)
(* A run of the combiner beside the run that writes its input (driver.c).  *)
(* The processors of a parallel run write a family each, a state at a time *)
(* and none waiting for another; a combiner opens them all, defines the    *)
(* combined family or opens it to append, and combines state after state:  *)
(* all there are, or, asked to wait, all there will be until the run ends. *)
(* A combiner that is killed may be started again.                         *)
(*                                                                         *)
(* What the words of a state are is Combine; here a state's data is the    *)
(* number of the state it was written for.                                 *)
(***************************************************************************)
EXTENDS Combine

CONSTANTS
    Partitions,  \* the partitions that a run may have
    MaxStates,   \* states that a run writes
    MaxRuns,     \* combiners started, one after the other
    App          \* what the user may do besides what this combiner is made for

Uses == {"early",         \* combine without waiting while the run still writes
         "behind",        \* open a processor's family with fewer states than the first
         "two_new",       \* append exactly two states
         "wait_stop",     \* wait, and stop at a state
         "empty_append"}  \* wait, and append to a family without states

ASSUME CombinerAssumption ==
    /\ MaxStates \in Nat \ {0} /\ MaxRuns \in Nat /\ App \subseteq Uses
    /\ \A c \in DOMAIN Partitions :
           /\ Partitions[c] \in Seq(Range(Partitions[c]))
           /\ Len(Partitions[c]) >= 2

ASSUME LabelsAssumption == \A c \in DOMAIN Partitions : IdsFit(Partitions[c])

\* What each partition is combined to.
Info == [c \in DOMAIN Partitions |-> Combined(Partitions[c])]

None == 0   \* the data of no state, or of half a state

VARIABLES
    part,        \* which partition the run has
    written,     \* for each processor the states its family lists
    ended,       \* the run has ended normally, and says so
    defined,     \* the combined family is there with its definitions
    states,      \* its states: their times, and what each processor's words are of
    saved,       \* states it had when it was opened
    runs,        \* combiners that can still be started
    \* A combiner:
    pc, proc,
    wait, stop,  \* env.wait and env.stop_state
    known,       \* state_qty of the open family of each processor
    current,     \* the state to combine
    run_to,      \* run_to_state: the first not to combine
    late,        \* processors that get_next_state has to open again
    final,       \* it is past the loop that waits
    state_max,   \* env.current_state_max
    times,       \* out_db->state_times
    buffer,      \* in_db[p]->result
    result,      \* out_db->result, the words of each processor
    gave_up      \* it was killed, or timed out

run  == <<part, written, ended>>
file == <<defined, states, saved>>
told == <<wait, stop, runs, gave_up>>
data == <<state_max, times, buffer, result>>
loop == <<current, run_to, final>>
opens == <<known, late>>
vars == <<run, file, told, data, loop, opens, pc, proc>>

Procs    == DOMAIN written
LastProc == Len(written)

Init ==
    /\ part \in DOMAIN Partitions
    /\ written = [p \in DOMAIN Partitions[part] |-> 0] /\ ended = FALSE
    /\ defined = FALSE /\ states = << >> /\ saved = 0
    /\ runs = MaxRuns /\ pc = "off" /\ proc = 1 /\ wait = FALSE /\ stop = 0
    /\ known = [p \in Procs |-> 0] /\ late = {}
    /\ current = 1 /\ run_to = 0 /\ final = FALSE
    /\ state_max = 0 /\ times = << >>
    /\ buffer = [p \in Procs |-> None] /\ result = [p \in Procs |-> None]
    /\ gave_up = FALSE

-----------------------------------------------------------------------------
(***************************************************************************)
(* The run.  mc_new_state lists a state before its data is written; the    *)
(* state before is then complete.                                          *)
(***************************************************************************)
Write(p) ==
    /\ ~ended /\ written[p] < MaxStates
    /\ written' = [written EXCEPT ![p] = @ + 1]
    /\ UNCHANGED <<part, ended, file, told, data, loop, opens, pc, proc>>

Finish ==
    /\ ~ended /\ written[1] >= 1 /\ \A p \in Procs : written[p] = written[1]
    /\ ended' = TRUE
    /\ UNCHANGED <<part, written, file, told, data, loop, opens, pc, proc>>

Complete(p, s) == s < written[p] \/ (ended /\ s = written[p])

-----------------------------------------------------------------------------
(***************************************************************************)
(* Starting: the families of the processors, and the combined one.         *)
(***************************************************************************)
\* With -wait the state file of every processor must be there
\* (check_all_state_files).
CanStart(w, s) ==
    IF w THEN /\ \A p \in Procs : written[p] >= 1
              /\ s = 0 \/ "wait_stop" \in App
              /\ ~defined \/ states # << >> \/ "empty_append" \in App
    ELSE /\ ended \/ "early" \in App
         /\ ~defined \/ written[1] # Len(states) + 2 \/ "two_new" \in App

Start(w, s) ==
    /\ pc = "off" /\ runs > 0 /\ CanStart(w, s)
    /\ runs' = runs - 1 /\ pc' = "open" /\ proc' = 1
    /\ wait' = w /\ stop' = s /\ gave_up' = FALSE
    /\ known' = [p \in Procs |-> 0] /\ late' = {}
    /\ current' = 1 /\ run_to' = 0 /\ final' = FALSE
    /\ state_max' = 0 /\ times' = << >>
    /\ buffer' = [p \in Procs |-> None] /\ result' = [p \in Procs |-> None]
    /\ UNCHANGED <<run, file>>

\* open_input_dbase, one processor after the other
OpenInput ==
    /\ pc = "open"
    /\ proc = 1 \/ written[proc] >= known[1] \/ "behind" \in App
    /\ known' = [known EXCEPT ![proc] = written[proc]]
    /\ IF proc < LastProc THEN proc' = proc + 1 /\ pc' = "open"
       ELSE proc' = 1 /\ pc' = IF defined THEN "append" ELSE "define"
    /\ UNCHANGED <<run, file, told, data, loop, late>>

\* What comes before the first state: nothing with -wait, and else how many
\* states there are; the processor that is asked last has the last word.
Begin(first, last) ==
    LET most == Max(Range(known))
        to   == Min({IF last = 0 THEN most ELSE last, known[LastProc]})
    IN  /\ current' = first /\ saved' = Len(states)
        /\ IF wait
           THEN stop' = last /\ pc' = "next" /\ UNCHANGED <<run_to, state_max>>
           ELSE /\ stop' = to /\ run_to' = to + 1 /\ state_max' = to
                /\ pc' = IF first <= to THEN "merge" ELSE "close"

\* open_output_dbase and combine_non_state_definitions
Define ==
    /\ pc = "define"
    /\ defined' = TRUE /\ Begin(1, stop)
    /\ UNCHANGED <<run, states, wait, runs, gave_up, times, buffer, result, final, opens, proc>>

\* Mutant: one state too far.
SetTimestepsPast ==
    IF states = << >> THEN [start |-> 1, stop |-> known[1]] ELSE [start |-> Len(states) + 2, stop |-> known[1]]

\* set_timesteps: the first state to append and the last, -1 if there is nothing
\* to append.  The times of the states are their numbers: the code takes times
\* within 1e-7 of each other for equal (is_equal) and looks for such a time even
\* behind the last state, so this is for runs whose states lie further apart.
SetTimesteps ==
    LET has == Len(states)
        qty == known[1]
    IN  IF has = 0 THEN [start |-> 1, stop |-> qty]
        ELSE IF wait THEN [start |-> has + 1, stop |-> 0]
        ELSE IF qty <= has \/ has + 1 = qty - 1 THEN [start |-> -1, stop |-> -1]
        ELSE [start |-> has + 1, stop |-> qty]

\* The family is opened to append to; a combiner with nothing to append exits.
AppendTo ==
    /\ pc = "append"
    /\ LET steps == SetTimesteps
           last  == IF stop = 0 \/ (steps.stop > 0 /\ steps.stop < stop) THEN steps.stop ELSE stop
           first == Max({1, steps.start})
       IN  IF ~wait /\ (steps.start < 0 \/ first > last)
           THEN pc' = "off" /\ UNCHANGED <<saved, stop, current, run_to, state_max>>
           ELSE Begin(first, last)
    /\ UNCHANGED <<run, defined, states, wait, runs, gave_up, times, buffer, result, final, opens, proc>>

-----------------------------------------------------------------------------
(***************************************************************************)
(* Waiting for states.                                                     *)
(***************************************************************************)
\* Mutant: the other processors are not waited for.
ReopensNone == {}

\* The processors that get_next_state opens again once the first has more states.
Reopens == Procs \ {1}

\* get_next_state: the first processor's family is opened again.
GetNextState ==
    /\ pc = "next"
    /\ known' = [known EXCEPT ![1] = written[1]]
    /\ run_to' = written[1]
    /\ late' = IF written[1] > known[1] THEN Reopens ELSE {}
    /\ proc' = 2 /\ pc' = IF late' = {} THEN "decide" ELSE "reopen"
    /\ UNCHANGED <<run, file, told, data, current, final>>

\* Then the others, in turn, until each has as many states.
Reopen ==
    /\ pc = "reopen"
    /\ known' = [known EXCEPT ![proc] = IF proc \in late THEN written[proc] ELSE @]
    /\ late' = late \ {p \in {proc} : known'[p] >= run_to}
    /\ proc' = IF proc = LastProc THEN 2 ELSE proc + 1
    /\ pc' = IF late' = {} THEN "decide" ELSE "reopen"
    /\ UNCHANGED <<run, file, told, data, loop>>

\* How far to go.  A stop before that leaves current_state_max.
Limited == stop > 0 /\ stop < run_to

DecideWaiting ==
    /\ pc = "decide" /\ ~final
    /\ run_to' = IF Limited THEN stop ELSE run_to
    /\ state_max' = IF Limited THEN state_max ELSE run_to
    /\ pc' = IF current < run_to' THEN "merge" ELSE "check"
    /\ proc' = 1
    /\ UNCHANGED <<run, file, told, current, final, times, buffer, result, opens>>

\* Nothing came for too long: the loop is left for the last pass.
Timeout ==
    /\ pc = "decide" /\ ~final /\ ~Limited /\ current >= run_to
    /\ state_max' = run_to /\ gave_up' = TRUE
    /\ final' = TRUE /\ pc' = IF run_to = stop THEN "close" ELSE "next"
    /\ UNCHANGED <<run, file, wait, stop, runs, current, run_to, times, buffer, result, opens, proc>>

\* The last pass, for states that came before the run said that it had ended.
DecideFinal ==
    /\ pc = "decide" /\ final
    /\ state_max' = IF run_to >= current THEN run_to ELSE state_max
    /\ run_to' = IF Limited /\ run_to >= current THEN stop ELSE run_to
    /\ pc' = IF current < run_to' THEN "merge" ELSE "close"
    /\ proc' = 1
    /\ UNCHANGED <<run, file, told, current, final, times, buffer, result, opens>>

\* Mutant: whoever sees the end of the run has seen all its states.
EndOfRunClose ==
    /\ pc = "check"
    /\ pc' = IF run_to = stop \/ ended THEN "close" ELSE "next"
    /\ final' = (run_to # stop /\ ended)
    /\ UNCHANGED <<run, file, told, data, current, run_to, opens, proc>>

\* The end of the loop: the stop was reached, or end_of_run.
EndOfRun ==
    /\ pc = "check"
    /\ pc' = IF run_to = stop THEN "close" ELSE "next"
    /\ final' = (run_to # stop /\ ended)
    /\ UNCHANGED <<run, file, told, data, current, run_to, opens, proc>>

-----------------------------------------------------------------------------
(***************************************************************************)
(* Combining a state.                                                      *)
(***************************************************************************)
\* read_state_data: a state that the family was not opened with leaves the
\* buffer, one that is being written fills it in part.
ReadState(p, s) ==
    IF s > known[p] THEN buffer[p] ELSE IF Complete(p, s) THEN s ELSE None

\* The times are taken again when there are more states than places for them.
StateTimes(p) ==
    IF Len(states) < state_max /\ Len(times) < state_max
    THEN [i \in 1..state_max |-> IF i <= known[p] THEN i ELSE None] ELSE times

\* read_state_data and merge_state_data for one processor
Merge ==
    /\ pc = "merge"
    /\ buffer' = [buffer EXCEPT ![proc] = ReadState(proc, current)]
    /\ result' = [result EXCEPT ![proc] = buffer'[proc]]
    /\ times' = StateTimes(proc)
    /\ IF proc < LastProc THEN proc' = proc + 1 /\ pc' = "merge"
       ELSE proc' = 1 /\ pc' = "write"
    /\ UNCHANGED <<run, file, told, state_max, loop, opens>>

\* write_state_data
WriteState ==
    /\ pc = "write"
    /\ states' = Append(states, [time |-> IF current \in DOMAIN times THEN times[current] ELSE None,
                           from |-> result])
    /\ current' = current + 1
    /\ pc' = IF current + 1 < run_to THEN "merge"
             ELSE IF wait /\ ~final THEN "check" ELSE "close"
    /\ UNCHANGED <<run, defined, saved, told, data, run_to, final, opens, proc>>

Close ==
    /\ pc = "close"
    /\ pc' = "off" /\ saved' = Len(states)
    /\ UNCHANGED <<run, defined, states, told, data, loop, opens, proc>>

\* What was not on disk yet is lost; the definitions were flushed.
Kill ==
    /\ pc \notin {"off", "open", "define", "append"}
    /\ \E n \in saved..Len(states) : states' = SubSeq(states, 1, n)
    /\ pc' = "off" /\ gave_up' = TRUE
    /\ UNCHANGED <<run, defined, saved, wait, stop, runs, data, loop, opens, proc>>

-----------------------------------------------------------------------------
(***************************************************************************)
(* The combiner goes on as long as it is not killed: nothing in it blocks, *)
(* it sleeps and looks again.                                              *)
(***************************************************************************)
Step == \/ OpenInput \/ Define \/ AppendTo \/ GetNextState \/ Reopen
        \/ DecideWaiting \/ DecideFinal \/ EndOfRun \/ Merge \/ WriteState \/ Close

Next ==
    \/ \E p \in Procs : Write(p)
    \/ Finish
    \/ \E w \in BOOLEAN, s \in 0..MaxStates : Start(w, s)
    \/ Step
    \/ Timeout
    \/ Kill

Spec == Init /\ [][Next]_vars /\ WF_vars(Step)

-----------------------------------------------------------------------------
(***************************************************************************)
(* Properties.                                                             *)
(***************************************************************************)
\* The variables have their types, and no family is thought to have more states
\* than it has.
TypeOK ==
    /\ written \in [Procs -> 0..MaxStates] /\ {ended, defined, wait, final, gave_up} \subseteq BOOLEAN
    /\ pc \in {"off", "open", "define", "append", "next", "reopen", "decide", "check",
               "merge", "write", "close"}
    /\ proc \in Procs /\ late \subseteq Procs
    /\ \A p \in Procs : known[p] \in 0..written[p]
    /\ {stop, current, run_to, state_max} \subseteq 0..MaxStates + 1
    /\ {buffer, result} \subseteq [Procs -> 0..MaxStates]
    /\ \A i \in DOMAIN states : states[i] \in [time : 0..MaxStates, from : [Procs -> 0..MaxStates]]

\* A combined record once all processors are merged.
MergedRecord(P, I) ==
    FoldLeft(LAMBDA words, p : Moved(words, I.moves[p], I.read[p]), Hole(I.size), Positions(P))

Holds(words, q)    == q.at >= 0 /\ SubSeq(words, q.at + 1, q.at + Len(q.words)) = q.words
InPlace(P, I)      == \E words \in {MergedRecord(P, I)} : \A q \in I.promises : Holds(words, q)
AllInPlace         == {c \in DOMAIN Partitions : InPlace(Partitions[c], Info[c])}

\* The n-th state of the combined family is the n-th of the run: its time is, and
\* what it has of each processor is of that state and was complete when it was read,
\* however far each processor was and however often combiners were killed and
\* appended to what they left (get_next_state, set_timesteps, read_state_data).
StatesCombined ==
    \A i \in DOMAIN states : states[i] = [time |-> i, from |-> [p \in Procs |-> i]]

\* The labels that the processors of a partition have for a class.
LabelsOf(P, c) ==
    UNION {UNION {Range(chunk.labels) : chunk \in Range(Chunks(P, p, c))} : p \in DOMAIN P}

\* An object by its label: a node's coordinates, or the labels of an element's nodes.
ByLabel(super, object, labels) ==
    IF super = "node" THEN object
    ELSE [object EXCEPT !.nodes = [n \in DOMAIN @ |-> labels[@[n]]]]

LocalMeaning(P, p, c, chunk, k) ==
    ByLabel(Super(P, c), P[p].classes[c].objects[IF Super(P, c) = "node" THEN k ELSE chunk.ids[k]],
            Chunks(P, p, "node")[1].labels)
Meaning(classes, class, label) ==
    ByLabel(class.super, class.objects[IndexIn(class.labels, label)], classes["node"].labels)

\* The objects that a subrecord has in a partition, and those of the combined one.
ObjectsOf(P, L, s) ==
    UNION {{LabelOf(P, L, t.p, t.sub, o) : o \in Range(BlockIds(t.sub.blocks))} :
              t \in {u \in Range(SubrecsInOrder(P)) : SameSubrec(u.sub, s)}}
CombinedObjects(L, s) ==
    {IF s.super \in Global THEN o ELSE L[s.mclass].labels[o] : o \in Range(BlockIds(s.blocks))}

LabelledOnce(labels, all) ==
    Range(labels) = all /\ \A i \in 2..Len(labels) : labels[i - 1] < labels[i]

SameObjects(P, classes, c) ==
    \A p \in DOMAIN P : \A chunk \in Range(Chunks(P, p, c)) : \A k \in DOMAIN chunk.labels :
        Meaning(classes, classes[c], chunk.labels[k]) = LocalMeaning(P, p, c, chunk, k)

SubrecDefined(P, I, s) ==
    \E k \in DOMAIN I.format :
        /\ SameSubrec(I.format[k], s)
        /\ CombinedObjects(I.labels, I.format[k]) = ObjectsOf(P, I.labels, s)

WellDefined(P, I) ==
    /\ \A c \in {d \in DOMAIN I.classes : Labelled(P, d)} :
           LabelledOnce(I.classes[c].labels, LabelsOf(P, c)) /\ SameObjects(P, I.classes, c)
    /\ \A s \in Range(SubrecsInOrder(P)) : SubrecDefined(P, I, s.sub)
AllWellDefined == {c \in DOMAIN Partitions : WellDefined(Partitions[c], Info[c])}

\* The combined mesh is that of all processors: each label once and in order, each
\* element between the nodes it had, whichever numbers they have now, and each
\* subrecord with the objects that it has on any processor; and in its records every
\* value of every object is where mc_read_results looks for it (load_ti_labels,
\* mc_copy_geometry, mc_combine_srecs, merge_state_data against set_metrics).
MeshCombined ==
    /\ defined => part \in AllWellDefined
    /\ states # << >> => part \in AllInPlace

\* A combiner that is neither killed nor out of patience ends, and then all states
\* are combined up to where it was to stop: with -wait up to the last but one, for
\* get_next_state's states are complete only when another follows.
Goal == IF stop = 0 THEN written[1] ELSE Min({stop, written[1]})
CombinesAll ==
    (pc \notin {"off", "close"} /\ ended) ~>
        (pc = "off" /\ (gave_up \/ Len(states) >= IF wait THEN written[1] - 1 ELSE Goal))
=============================================================================
