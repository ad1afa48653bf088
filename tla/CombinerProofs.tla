---------------------------- MODULE CombinerProofs ----------------------------
(***************************************************************************)
(* Proofs about Combiner: types, and that each state is combined once, in  *)
(* its order, from the states of that number of all processors.            *)
(***************************************************************************)
EXTENDS Combiner, SequenceTheorems, FiniteSetTheorems, WellFoundedInduction, TLAPS

\* What the combiner was made for: it waits or the run has ended; no processor's
\* family is behind the first when it is opened; and with -wait no state is named to
\* stop at, and a family to append to has states.
MadeFor == {"early", "behind", "wait_stop", "empty_append"} \cap App = {}

\* The combined family is open and has its definitions.
Busy == pc \in {"next", "reopen", "decide", "check", "merge", "write", "close"}

Waiting == pc \in {"next", "reopen", "decide", "check"}

\* Where the combiner is: the combined family grows by the state that is combined.
GrowthInv ==
    /\ Len(states) <= MaxStates /\ saved \in 0..Len(states)
    /\ ~defined => states = << >>
    /\ pc = "append" => defined
    /\ pc = "define" => ~defined
    /\ Busy => defined /\ current = Len(states) + 1
    /\ pc \in {"merge", "write"} => current < run_to
    /\ pc \in {"define", "append", "write"} => proc = 1
    /\ pc = "reopen" => proc > 1
    /\ pc \in {"reopen", "decide"} => run_to = known[1]

\* The families of all processors have the states to combine.
OpensInv ==
    /\ ended => \A p \in Procs : written[p] = written[1]
    /\ pc # "off" /\ ~wait => ended
    /\ pc = "open" => \A p \in 1..proc - 1 : known[p] >= known[1]
    /\ pc = "open" /\ ~wait => \A p \in 1..proc - 1 : known[p] = written[p]
    /\ Busy \/ pc \in {"define", "append"} =>
          /\ \A p \in Procs \ late : known[p] >= known[1]
          /\ ~wait => \A p \in Procs : known[p] = written[p]
    /\ pc \notin {"off", "reopen"} => late = {}
    /\ wait /\ pc # "off" => stop = 0
    /\ wait /\ defined /\ pc \in {"open", "append"} => states # << >>
    /\ Waiting => wait

\* The times are the numbers of the states, and there are as many as states to combine.
TimesInv ==
    /\ \A i \in DOMAIN times : times[i] = i
    /\ pc \in {"merge", "write"} =>
           /\ state_max <= known[1] /\ current <= state_max
           /\ pc = "write" \/ proc > 1 => state_max <= Len(times)
           /\ run_to = state_max \/ (~wait /\ run_to = state_max + 1)

\* What was merged is of the state to combine, and of what was combined before
\* each state is of itself.
MergedInv ==
    /\ \A i \in DOMAIN states : states[i] = [time |-> i, from |-> [p \in Procs |-> i]]
    /\ pc = "merge" => \A p \in 1..proc - 1 : result[p] = current
    /\ pc = "write" => \A p \in Procs : result[p] = current

Record == [time : 0..MaxStates, from : [Procs -> 0..MaxStates]]

\* The parts of TypeOK, and what it does not say: that there are sequences.
RunTyped ==
    /\ part \in DOMAIN Partitions /\ DOMAIN written = DOMAIN Partitions[part]
    /\ written \in [Procs -> 0..MaxStates]

ControlTyped ==
    /\ pc \in {"off", "open", "define", "append", "next", "reopen", "decide", "check",
               "merge", "write", "close"}
    /\ proc \in Procs
    /\ ended \in BOOLEAN /\ defined \in BOOLEAN /\ wait \in BOOLEAN
    /\ final \in BOOLEAN /\ gave_up \in BOOLEAN

OpensTyped ==
    /\ known \in [Procs -> 0..MaxStates] /\ late \subseteq Procs
    /\ \A p \in Procs : known[p] <= written[p]

CountsTyped ==
    /\ stop \in 0..MaxStates /\ current \in 0..MaxStates + 1
    /\ run_to \in 0..MaxStates + 1 /\ state_max \in 0..MaxStates

DataTyped ==
    /\ buffer \in [Procs -> 0..MaxStates] /\ result \in [Procs -> 0..MaxStates]
    /\ times \in Seq(0..MaxStates)

StatesTyped == states \in Seq(Record)

TypeInv == /\ RunTyped /\ ControlTyped /\ OpensTyped
           /\ CountsTyped /\ DataTyped /\ StatesTyped /\ GrowthInv

-----------------------------------------------------------------------------
(***************************************************************************)
(* Sequences and extrema.                                                  *)
(***************************************************************************)
\* A partition has two processors or more.
LEMMA ProcFacts ==
    ASSUME RunTyped
    PROVE  /\ LastProc \in Nat /\ LastProc >= 2 /\ Procs = 1..LastProc
           /\ MaxStates \in Nat /\ MaxStates > 0
<1>1. /\ Partitions[part] \in Seq(Range(Partitions[part])) /\ Len(Partitions[part]) >= 2
      /\ DOMAIN written = DOMAIN Partitions[part]
  BY CombinerAssumption DEF RunTyped
<1>2. DOMAIN Partitions[part] = 1..Len(Partitions[part]) /\ Len(Partitions[part]) \in Nat
  BY <1>1, LenProperties
<1>3. written \in Seq(0..MaxStates)
  <2>1. written \in [1..Len(Partitions[part]) -> 0..MaxStates]
    BY <1>1, <1>2 DEF RunTyped, Procs
  <2>2. QED
    BY <1>2, <2>1, SeqDef
<1>4. DOMAIN written = 1..Len(written) /\ Len(written) \in Nat
  BY <1>3, LenProperties
<1>5. Len(written) = Len(Partitions[part])
  BY <1>1, <1>2, <1>4
<1>6. QED
  BY <1>1, <1>4, <1>5, CombinerAssumption DEF Procs, LastProc

\* The least of two numbers,
LEMMA MinOfTwo ==
    ASSUME NEW a \in Int, NEW b \in Int
    PROVE  Min({a, b}) \in {a, b} /\ Min({a, b}) <= a /\ Min({a, b}) <= b
<1>1. \E x \in {a, b} : \A y \in {a, b} : x <= y
  <2>1. a <= b \/ b <= a
    OBVIOUS
  <2>2. QED
    BY <2>1
<1>2. Min({a, b}) \in {a, b} /\ \A y \in {a, b} : Min({a, b}) <= y
  BY <1>1 DEF Min
<1>3. QED
  BY <1>2

\* and the greatest.
LEMMA MaxOfTwo ==
    ASSUME NEW a \in Int, NEW b \in Int
    PROVE  Max({a, b}) \in {a, b} /\ Max({a, b}) >= a /\ Max({a, b}) >= b
<1>1. \E x \in {a, b} : \A y \in {a, b} : x >= y
  <2>1. a >= b \/ b >= a
    OBVIOUS
  <2>2. QED
    BY <2>1
<1>2. Max({a, b}) \in {a, b} /\ \A y \in {a, b} : Max({a, b}) >= y
  BY <1>1 DEF Max
<1>3. QED
  BY <1>2

\* A set of numbers with a bound has a greatest.
LEMMA MaxOfSet ==
    ASSUME NEW m \in Nat, NEW S, S \subseteq 0..m, S # {}
    PROVE  Max(S) \in S /\ \A y \in S : y <= Max(S)
<1> DEFINE U == {k \in 0..m : \A y \in S : y <= k}
<1>1. U \subseteq Nat /\ m \in U
  OBVIOUS
<1>2. PICK k \in U : \A j \in U : ~ (<<j, k>> \in OpToRel(<, Nat))
  <2> HIDE DEF U
  <2>1. U # {}
    BY <1>1
  <2>2. QED
    BY <1>1, <2>1, NatLessThanWellFounded, WFMin
<1>3. \A j \in U : k <= j
  <2> HIDE DEF U
  <2>1. ASSUME NEW j \in U PROVE k <= j
    <3>1. j \in Nat /\ k \in Nat /\ <<j, k>> \notin {ss \in Nat \X Nat : ss[1] < ss[2]}
      BY <1>1, <1>2 DEF OpToRel
    <3>2. <<j, k>> \in Nat \X Nat /\ <<j, k>>[1] = j /\ <<j, k>>[2] = k
      BY <3>1
    <3>3. ~(j < k)
      BY <3>1, <3>2
    <3>4. QED
      BY <3>1, <3>3
  <2>2. QED
    BY <2>1
<1>4. k \in S
  <2>1. SUFFICES ASSUME k \notin S PROVE FALSE
    OBVIOUS
  <2>2. PICK y \in S : TRUE
    OBVIOUS
  <2>3. k \in 0..m /\ \A z \in S : z <= k /\ z # k /\ z \in Nat
    BY <2>1
  <2>4. k > 0 /\ k - 1 \in 0..m
    BY <2>2, <2>3
  <2>5. \A z \in S : z <= k - 1
    BY <2>3
  <2>6. k - 1 \in U
    BY <2>4, <2>5
  <2> HIDE DEF U
  <2>7. QED
    BY <1>3, <2>3, <2>6
<1>5. \A y \in S : k >= y
  BY <1>2
<1>6. Max(S) \in S /\ \A y \in S : Max(S) >= y
  BY <1>4, <1>5 DEF Max
<1>7. QED
  BY <1>6

-----------------------------------------------------------------------------
(***************************************************************************)
(* Types, for any use.                                                     *)
(***************************************************************************)
\* A step that is not the run's.
LEMMA SameRun ==
    ASSUME RunTyped, UNCHANGED <<part, written>>
    PROVE  RunTyped' /\ Procs' = Procs /\ LastProc' = LastProc /\ Record' = Record
BY DEF RunTyped, Procs, LastProc, Record

\* Nothing is written, and no combiner has started.
LEMMA InitType == Init => TypeInv
<1>1. SUFFICES ASSUME Init PROVE TypeInv
  OBVIOUS
<1>2. /\ part \in DOMAIN Partitions /\ written = [p \in DOMAIN Partitions[part] |-> 0]
      /\ DOMAIN written = DOMAIN Partitions[part] /\ Procs = DOMAIN Partitions[part]
  BY <1>1 DEF Init, Procs
<1>3. 1 \in Procs /\ MaxStates \in Nat /\ MaxStates > 0
  <2>1. Partitions[part] \in Seq(Range(Partitions[part])) /\ Len(Partitions[part]) >= 2
    BY <1>2, CombinerAssumption
  <2>2. QED
    BY <1>2, <2>1, LenProperties, CombinerAssumption
<1>4. << >> \in Seq(Record) /\ << >> \in Seq(0..MaxStates) /\ Len(<< >>) = 0
  BY EmptySeq
<1>5. RunTyped /\ OpensTyped
  BY <1>1, <1>2, <1>3 DEF Init, RunTyped, OpensTyped
<1>6. ControlTyped /\ CountsTyped
  <2>1. CountsTyped
    BY <1>1, <1>3 DEF Init, CountsTyped
  <2>2. pc = "off" /\ proc \in Procs
    BY <1>1, <1>3 DEF Init
  <2>3. /\ ended \in BOOLEAN /\ defined \in BOOLEAN /\ wait \in BOOLEAN
        /\ final \in BOOLEAN /\ gave_up \in BOOLEAN
    BY <1>1 DEF Init
  <2>4. QED
    BY <2>1, <2>2, <2>3 DEF ControlTyped
<1>7. DataTyped /\ StatesTyped
  BY <1>1, <1>3, <1>4 DEF Init, DataTyped, StatesTyped, None
<1>8. GrowthInv
  BY <1>1, <1>3, <1>4 DEF Init, GrowthInv, Busy
<1>9. QED
  BY <1>5, <1>6, <1>7, <1>8 DEF TypeInv

\* The run writes, and the families that are open stay behind.
LEMMA WriteType ==
    ASSUME TypeInv, NEW p \in Procs, Write(p)
    PROVE  TypeInv'
<1>1. MaxStates \in Nat
  BY ProcFacts DEF TypeInv
<1>2. /\ written \in [Procs -> 0..MaxStates] /\ written[p] < MaxStates
      /\ written' = [written EXCEPT ![p] = written[p] + 1]
  BY DEF Write, TypeInv, RunTyped
<1>3. /\ written' \in [Procs -> 0..MaxStates] /\ DOMAIN written' = DOMAIN written
      /\ \A q \in Procs : written[q] \in Nat /\ written'[q] \in Nat /\ written[q] <= written'[q]
  BY <1>1, <1>2 DEF Procs
<1>4. Procs' = Procs /\ Record' = Record
  BY <1>3 DEF Procs, Record
<1>5. RunTyped'
  BY <1>3, <1>4 DEF TypeInv, RunTyped, Write
<1>6. OpensTyped'
  BY <1>3, <1>4 DEF TypeInv, OpensTyped, Write, opens
<1>7. ControlTyped' /\ CountsTyped' /\ DataTyped' /\ StatesTyped' /\ GrowthInv'
  BY <1>4 DEF TypeInv, ControlTyped, CountsTyped, DataTyped, StatesTyped, GrowthInv, Busy,
              Write, file, told, data, loop, opens
<1>8. QED
  BY <1>5, <1>6, <1>7 DEF TypeInv

\* The run ends.
LEMMA FinishType ==
    ASSUME TypeInv, Finish
    PROVE  TypeInv'
<1>1. RunTyped' /\ Procs' = Procs /\ Record' = Record
  BY SameRun DEF TypeInv, Finish
<1>2. ControlTyped' /\ OpensTyped' /\ CountsTyped' /\ DataTyped' /\ StatesTyped' /\ GrowthInv'
  BY <1>1 DEF TypeInv, OpensTyped, ControlTyped, CountsTyped, DataTyped, StatesTyped, GrowthInv, Busy,
              Finish, file, told, data, loop, opens
<1>3. QED
  BY <1>1, <1>2 DEF TypeInv

\* A combiner starts.
LEMMA StartType ==
    ASSUME TypeInv, NEW w \in BOOLEAN, NEW s \in 0..MaxStates, Start(w, s)
    PROVE  TypeInv'
<1>1. /\ LastProc \in Nat /\ LastProc >= 2 /\ Procs = 1..LastProc
      /\ MaxStates \in Nat /\ MaxStates > 0
  BY ProcFacts DEF TypeInv
<1>2. RunTyped' /\ Procs' = Procs /\ Record' = Record
  BY SameRun DEF TypeInv, Start, run
<1>3. /\ states' = states /\ defined' = defined /\ saved' = saved
      /\ ended' = ended /\ written' = written /\ pc' = "open"
  BY DEF Start, run, file
<1>4. ControlTyped' /\ CountsTyped' /\ StatesTyped'
  <2>1. CountsTyped' /\ StatesTyped'
    BY <1>1, <1>2, <1>3 DEF TypeInv, CountsTyped, StatesTyped, Start
  <2>2. pc' = "open" /\ proc' \in Procs'
    BY <1>1, <1>2 DEF Start
  <2>3. wait' \in BOOLEAN /\ final' \in BOOLEAN /\ gave_up' \in BOOLEAN
    BY DEF Start
  <2>4. ended' \in BOOLEAN /\ defined' \in BOOLEAN
    BY <1>3 DEF TypeInv, ControlTyped
  <2>5. QED
    BY <2>1, <2>2, <2>3, <2>4 DEF ControlTyped
<1>5. OpensTyped'
  <2>1. known' = [p \in Procs |-> 0] /\ late' = {}
    BY DEF Start
  <2>2. \A p \in Procs : written[p] \in Nat
    BY <1>1 DEF TypeInv, RunTyped
  <2>3. QED
    BY <1>1, <1>2, <1>3, <2>1, <2>2 DEF OpensTyped
<1>6. DataTyped'
  BY <1>1, <1>2, EmptySeq DEF Start, DataTyped, None
<1>7. GrowthInv'
  BY <1>3 DEF TypeInv, GrowthInv, Busy
<1>8. QED
  BY <1>2, <1>4, <1>5, <1>6, <1>7 DEF TypeInv

\* It opens the processors' families,
LEMMA OpenInputType ==
    ASSUME TypeInv, OpenInput
    PROVE  TypeInv'
<1>1. /\ LastProc \in Nat /\ LastProc >= 2 /\ Procs = 1..LastProc
      /\ MaxStates \in Nat /\ MaxStates > 0
  BY ProcFacts DEF TypeInv
<1>2. RunTyped' /\ Procs' = Procs /\ Record' = Record
  BY SameRun DEF TypeInv, OpenInput, run
<1>3. pc = "open" /\ proc \in Procs /\ known' = [known EXCEPT ![proc] = written[proc]]
  BY DEF TypeInv, ControlTyped, OpenInput
<1>4. \/ proc < LastProc /\ proc' = proc + 1 /\ pc' = "open"
      \/ proc' = 1 /\ pc' = "append" /\ defined
      \/ proc' = 1 /\ pc' = "define" /\ ~defined
  BY <1>3 DEF OpenInput
<1>5. proc' \in Procs
  BY <1>1, <1>3, <1>4
<1>6. OpensTyped'
  <2>1. /\ known \in [Procs -> 0..MaxStates] /\ late' = late /\ late \subseteq Procs /\ written' = written
        /\ written \in [Procs -> 0..MaxStates] /\ \A p \in Procs : known[p] <= written[p]
    BY DEF TypeInv, OpensTyped, RunTyped, OpenInput, run
  <2>2. known' \in [Procs -> 0..MaxStates]
    BY <1>3, <2>1
  <2>3. \A p \in Procs : known'[p] <= written[p]
    BY <1>1, <1>3, <2>1
  <2>4. QED
    BY <1>2, <2>1, <2>2, <2>3 DEF OpensTyped
<1>7. ControlTyped'
  BY <1>2, <1>4, <1>5 DEF TypeInv, ControlTyped, OpenInput, run, file, told, loop
<1>8. CountsTyped' /\ DataTyped' /\ StatesTyped'
  BY <1>2 DEF TypeInv, CountsTyped, DataTyped, StatesTyped, OpenInput, file, told, data, loop
<1>9. GrowthInv'
  BY <1>3, <1>4 DEF TypeInv, GrowthInv, Busy, OpenInput, file, loop
<1>10. QED
  BY <1>2, <1>6, <1>7, <1>8, <1>9 DEF TypeInv

\* How a combiner begins: where, and, if it does not wait, up to where.
BeginsAt(first, last, to) ==
    /\ current' = first /\ saved' = Len(states)
    /\ wait => stop' = last /\ pc' = "next" /\ UNCHANGED <<run_to, state_max>>
    /\ ~wait => /\ stop' = to /\ run_to' = to + 1 /\ state_max' = to
                /\ pc' = IF first <= to THEN "merge" ELSE "close"

\* Begin does that, with no more states than the last processor's family has.
LEMMA BeginIs ==
    ASSUME TypeInv, NEW first, NEW last \in 0..MaxStates, Begin(first, last)
    PROVE  \E to \in 0..MaxStates : to <= known[LastProc] /\ BeginsAt(first, last, to)
<1>1. /\ LastProc \in Procs /\ MaxStates \in Nat
      /\ known \in [Procs -> 0..MaxStates]
  BY ProcFacts DEF TypeInv, OpensTyped
<1>2. Max(Range(known)) \in 0..MaxStates
  <2>1. Range(known) \subseteq 0..MaxStates /\ Range(known) # {}
    BY <1>1 DEF Range
  <2>2. QED
    BY <1>1, <2>1, MaxOfSet
<1>3. PICK a \in 0..MaxStates : a = IF last = 0 THEN Max(Range(known)) ELSE last
  BY <1>2
<1>4. PICK b \in 0..MaxStates : b = known[LastProc]
  BY <1>1
<1>5. PICK to : to = Min({a, b})
  OBVIOUS
<1>6. to \in 0..MaxStates /\ to <= b
  <2>1. a \in Int /\ b \in Int
    BY <1>1
  <2>2. to \in {a, b} /\ to <= b
    BY <1>5, <2>1, MinOfTwo
  <2>3. QED
    BY <2>2
<1>7. BeginsAt(first, last, to)
  BY <1>3, <1>4, <1>5 DEF Begin, BeginsAt
<1>8. QED
  BY <1>4, <1>6, <1>7

\* Where a combiner that appends begins: behind the states that are there.
LEMMA AppendIs ==
    ASSUME TypeInv, AppendTo
    PROVE  \/ pc' = "off" /\ UNCHANGED <<saved, stop, current, run_to, state_max>>
           \/ \E last \in 0..MaxStates : /\ Begin(Len(states) + 1, last)
                                         /\ wait /\ Len(states) > 0 /\ stop = 0 => last = 0
<1> DEFINE steps == SetTimesteps
           last  == IF stop = 0 \/ (steps.stop > 0 /\ steps.stop < stop) THEN steps.stop ELSE stop
           first == Max({1, steps.start})
<1>1. /\ Len(states) \in Nat /\ (states = << >> <=> Len(states) = 0) /\ Len(states) <= MaxStates
      /\ known[1] \in 0..MaxStates /\ stop \in 0..MaxStates /\ MaxStates \in Nat
  <2>1. 1 \in Procs /\ MaxStates \in Nat
    BY ProcFacts DEF TypeInv
  <2>2. QED
    BY <2>1, EmptySeq, LenProperties DEF TypeInv, StatesTyped, OpensTyped, CountsTyped, GrowthInv
<1>2. PICK has \in Nat, qty \in 0..MaxStates : has = Len(states) /\ qty = known[1]
  BY <1>1
<1>3. \/ has = 0 /\ steps = [start |-> 1, stop |-> qty]
      \/ has > 0 /\ wait /\ steps = [start |-> has + 1, stop |-> 0]
      \/ has > 0 /\ ~wait /\ steps = [start |-> -1, stop |-> -1]
      \/ has > 0 /\ ~wait /\ steps = [start |-> has + 1, stop |-> qty]
  BY <1>1, <1>2 DEF SetTimesteps
<1>4. CASE ~wait /\ (steps.start < 0 \/ first > last)
  BY <1>4 DEF AppendTo
<1>5. CASE ~(~wait /\ (steps.start < 0 \/ first > last))
  <2>1. Begin(first, last)
    BY <1>5 DEF AppendTo
  <2>2. steps.start = has + 1 /\ steps.stop \in 0..MaxStates
    <3> HIDE DEF steps
    <3>1. QED
      BY <1>1, <1>3, <1>5 DEF first, last
  <2> HIDE DEF steps
  <2>3. first = has + 1
    <3>1. PICK n \in Nat : n = has + 1 /\ n = steps.start
      BY <2>2
    <3>2. first = Max({1, n}) /\ n >= 1
      BY <3>1 DEF first
    <3>3. Max({1, n}) \in {1, n} /\ Max({1, n}) >= n
      BY MaxOfTwo
    <3> HIDE DEF first
    <3>4. QED
      BY <3>1, <3>2, <3>3
  <2>4. last \in 0..MaxStates
    BY <1>1, <2>2
  <2>5. ASSUME wait, has > 0, stop = 0 PROVE last = 0
    BY <1>3, <2>5
  <2> HIDE DEF first, last
  <2>6. QED
    BY <1>2, <2>1, <2>3, <2>4, <2>5
<1>6. QED
  BY <1>4, <1>5

\* Its family is open: it begins behind the states that are there.
LEMMA BeginType ==
    ASSUME TypeInv, NEW last \in 0..MaxStates, Begin(Len(states) + 1, last),
           pc \in {"define", "append"}, defined',
           defined' \in BOOLEAN,
           UNCHANGED <<run, states, wait, gave_up, times, buffer, result, final, opens, proc>>
    PROVE  TypeInv'
<1>1. PICK to \in 0..MaxStates :
          to <= known[LastProc] /\ BeginsAt(Len(states) + 1, last, to)
  BY BeginIs
<1>2. RunTyped' /\ Procs' = Procs /\ Record' = Record /\ MaxStates \in Nat
  BY SameRun, ProcFacts DEF TypeInv, run
<1>3. PICK has \in 0..MaxStates : has = Len(states) /\ has = Len(states')
  BY <1>2, LenProperties DEF TypeInv, StatesTyped, GrowthInv
<1>4. CountsTyped'
  <2>1. /\ stop' \in 0..MaxStates /\ run_to' \in 0..MaxStates + 1 /\ state_max' \in 0..MaxStates
        /\ current' = has + 1
    BY <1>1, <1>2, <1>3 DEF BeginsAt, TypeInv, CountsTyped
  <2>2. QED
    BY <1>2, <1>3, <2>1 DEF CountsTyped
<1>5. pc' \in {"next", "merge", "close"}
  BY <1>1 DEF BeginsAt
<1>6. ControlTyped' /\ OpensTyped' /\ DataTyped' /\ StatesTyped'
  <2>1. ControlTyped'
    BY <1>2, <1>5 DEF TypeInv, ControlTyped, run
  <2>2. OpensTyped' /\ DataTyped' /\ StatesTyped'
    BY <1>2 DEF TypeInv, OpensTyped, DataTyped, StatesTyped, opens, run
  <2>3. QED
    BY <2>1, <2>2
<1>7. GrowthInv'
  <2>1. saved' = has /\ current' = has + 1
    BY <1>1, <1>3 DEF BeginsAt
  <2>2. pc' = "merge" => current' < run_to'
    BY <1>1, <1>2, <1>3 DEF BeginsAt
  <2>3. QED
    BY <1>2, <1>3, <1>5, <2>1, <2>2 DEF GrowthInv, Busy
<1>8. QED
  BY <1>2, <1>4, <1>6, <1>7 DEF TypeInv

\* A new family has none.
LEMMA DefineType ==
    ASSUME TypeInv, Define
    PROVE  TypeInv'
<1>1. pc = "define" /\ defined' = TRUE /\ Begin(1, stop)
  BY DEF Define
<1>2. Len(states) = 0
  BY <1>1, EmptySeq DEF TypeInv, GrowthInv
<1>3. Begin(Len(states) + 1, stop) /\ stop \in 0..MaxStates
  BY <1>1, <1>2 DEF TypeInv, CountsTyped
<1>4. defined' /\ defined' \in BOOLEAN
  BY <1>1
<1>5. UNCHANGED <<run, states, wait, gave_up, times, buffer, result, final, opens, proc>>
  BY DEF Define
<1>6. QED
  BY <1>1, <1>3, <1>4, <1>5, BeginType

\* One to append to has those of other combiners.
LEMMA AppendToType ==
    ASSUME TypeInv, AppendTo
    PROVE  TypeInv'
<1>1. /\ pc = "append" /\ defined /\ defined' = defined /\ defined \in BOOLEAN
      /\ UNCHANGED <<run, states, wait, gave_up, times, buffer, result, final, opens, proc>>
  BY DEF AppendTo, TypeInv, GrowthInv, ControlTyped
<1>2. CASE \E last \in 0..MaxStates : Begin(Len(states) + 1, last)
  BY <1>1, <1>2, BeginType
<1>3. CASE pc' = "off" /\ UNCHANGED <<saved, stop, current, run_to, state_max>>
  <2>1. RunTyped' /\ Procs' = Procs /\ Record' = Record
    BY <1>1, SameRun DEF TypeInv, run
  <2>2. ControlTyped'
    BY <1>1, <1>3, <2>1 DEF TypeInv, ControlTyped, run
  <2>3. OpensTyped' /\ CountsTyped' /\ DataTyped' /\ StatesTyped'
    BY <1>1, <1>3, <2>1 DEF TypeInv, OpensTyped, CountsTyped, DataTyped, StatesTyped, opens, run
  <2>4. GrowthInv'
    BY <1>1, <1>3 DEF TypeInv, GrowthInv, Busy
  <2>5. QED
    BY <2>1, <2>2, <2>3, <2>4 DEF TypeInv
<1>4. QED
  BY <1>2, <1>3, AppendIs

\* A step of the combiner that moves neither its family nor its buffers.
LEMMA LoopType ==
    ASSUME TypeInv, UNCHANGED <<run, file, wait, runs, times, buffer, result>>,
           OpensTyped', CountsTyped', proc' \in Procs,
           final' \in BOOLEAN, gave_up' \in BOOLEAN,
           pc' \in {"next", "reopen", "decide", "check", "merge", "close"},
           Busy, current' = current, pc' = "merge" => current < run_to',
           pc' = "reopen" => proc' > 1,
           pc' \in {"reopen", "decide"} => run_to' = known'[1]
    PROVE  TypeInv'
<1>1. RunTyped' /\ Procs' = Procs /\ Record' = Record
  BY SameRun DEF TypeInv, run
<1>2. ControlTyped'
  BY <1>1 DEF TypeInv, ControlTyped, run, file
<1>3. DataTyped' /\ StatesTyped'
  BY <1>1 DEF TypeInv, DataTyped, StatesTyped, file
<1>4. GrowthInv'
  BY DEF TypeInv, GrowthInv, Busy, file
<1>5. QED
  BY <1>1, <1>2, <1>3, <1>4 DEF TypeInv

\* Opening a processor's family again shows the states it has now.
LEMMA KnownTyped ==
    ASSUME TypeInv, written' = written, part' = part, NEW p \in Procs, late' \subseteq Procs,
           known' = [known EXCEPT ![p] = written[p]] \/ known' = known
    PROVE  OpensTyped'
<1>1. RunTyped' /\ Procs' = Procs /\ MaxStates \in Nat
  BY SameRun, ProcFacts DEF TypeInv
<1>2. /\ known \in [Procs -> 0..MaxStates] /\ written \in [Procs -> 0..MaxStates]
      /\ \A q \in Procs : known[q] <= written[q]
  BY DEF TypeInv, OpensTyped, RunTyped
<1>3. known' \in [Procs -> 0..MaxStates]
  BY <1>2
<1>4. \A q \in Procs : known'[q] <= written[q]
  BY <1>1, <1>2
<1>5. QED
  BY <1>1, <1>3, <1>4 DEF OpensTyped

\* The first processor's family is opened again,
LEMMA GetNextStateType ==
    ASSUME TypeInv, GetNextState
    PROVE  TypeInv'
<1>1. /\ LastProc \in Nat /\ LastProc >= 2 /\ Procs = 1..LastProc /\ MaxStates \in Nat
  BY ProcFacts DEF TypeInv
<1>2. /\ pc = "next" /\ pc' \in {"decide", "reopen"} /\ proc' = 2 /\ run_to' = written[1]
      /\ UNCHANGED <<run, file, told, data, current, final>>
      /\ known' = [known EXCEPT ![1] = written[1]]
      /\ late' \subseteq Procs
  BY DEF GetNextState, Reopens
<1>3. OpensTyped'
  <2>1. 1 \in Procs /\ written' = written /\ part' = part
    BY <1>1, <1>2 DEF run
  <2>2. QED
    BY <1>2, <2>1, KnownTyped, Zenon
<1>4. CountsTyped'
  BY <1>1, <1>2 DEF TypeInv, CountsTyped, RunTyped, told, data
<1>5. Busy /\ final' \in BOOLEAN /\ gave_up' \in BOOLEAN
  BY <1>2 DEF Busy, TypeInv, ControlTyped, told
<1>6. run_to' = known'[1]
  BY <1>1, <1>2 DEF TypeInv, OpensTyped
<1>7. QED
  BY <1>1, <1>2, <1>3, <1>4, <1>5, <1>6, LoopType DEF told, data

\* and then the others.
LEMMA ReopenType ==
    ASSUME TypeInv, Reopen
    PROVE  TypeInv'
<1>1. /\ LastProc \in Nat /\ LastProc >= 2 /\ Procs = 1..LastProc /\ MaxStates \in Nat
  BY ProcFacts DEF TypeInv
<1>2. /\ pc = "reopen" /\ pc' \in {"decide", "reopen"}
      /\ UNCHANGED <<run, file, told, data, loop>>
      /\ late' \subseteq Procs /\ proc \in Procs /\ proc > 1 /\ run_to = known[1]
      /\ part' = part /\ written' = written
  BY DEF Reopen, TypeInv, ControlTyped, OpensTyped, GrowthInv, run
<1>3. known' = [known EXCEPT ![proc] = written[proc]] \/ known' = known
  BY DEF Reopen, TypeInv, OpensTyped
<1>4. OpensTyped'
  <2>1. CASE known' = [known EXCEPT ![proc] = written[proc]]
    BY <1>2, <2>1, KnownTyped, Zenon
  <2>2. CASE known' = known
    BY <1>2, <2>2, KnownTyped, Zenon
  <2>3. QED
    BY <1>3, <2>1, <2>2
<1>5. CountsTyped'
  BY <1>2 DEF TypeInv, CountsTyped, told, data, loop
<1>6. proc' \in Procs /\ proc' > 1
  BY <1>1, <1>2 DEF Reopen
<1>7. Busy /\ final' \in BOOLEAN /\ gave_up' \in BOOLEAN
  BY <1>2 DEF Busy, TypeInv, ControlTyped, told, loop
<1>8. known'[1] = known[1] /\ run_to' = run_to
  BY <1>1, <1>2, <1>3 DEF TypeInv, OpensTyped, loop
<1>9. QED
  BY <1>2, <1>4, <1>5, <1>6, <1>7, <1>8, LoopType DEF told, data, loop

\* What OpensTyped is about stays.
LEMMA SameOpens ==
    ASSUME TypeInv, UNCHANGED <<run, opens>>
    PROVE  OpensTyped'
<1>1. Procs' = Procs
  BY SameRun DEF TypeInv, run
<1>2. QED
  BY <1>1 DEF TypeInv, OpensTyped, run, opens

\* How far to go is how far the first processor's family goes.
LEMMA DecidedTyped ==
    ASSUME TypeInv, pc = "decide"
    PROVE  run_to \in 0..MaxStates
BY ProcFacts DEF TypeInv, GrowthInv, OpensTyped

\* While the combiner waits,
LEMMA DecideWaitingType ==
    ASSUME TypeInv, DecideWaiting
    PROVE  TypeInv'
<1>1. /\ LastProc \in Nat /\ LastProc >= 2 /\ Procs = 1..LastProc /\ MaxStates \in Nat
  BY ProcFacts DEF TypeInv
<1>2. /\ pc = "decide" /\ pc' \in {"merge", "check"} /\ proc' = 1
      /\ UNCHANGED <<run, file, told, current, final, times, buffer, result, opens>>
      /\ pc' = "merge" => current < run_to'
  BY DEF DecideWaiting
<1>3. CountsTyped'
  <2>1. run_to' \in 0..MaxStates + 1
    BY <1>1 DEF DecideWaiting, TypeInv, CountsTyped
  <2>2. state_max' \in 0..MaxStates
    BY <1>1, <1>2, DecidedTyped DEF DecideWaiting, TypeInv, CountsTyped
  <2>3. QED
    BY <1>2, <2>1, <2>2 DEF CountsTyped, TypeInv, told
<1>4. Busy /\ final' \in BOOLEAN /\ gave_up' \in BOOLEAN
  BY <1>2 DEF Busy, TypeInv, ControlTyped, told
<1>5. QED
  BY <1>1, <1>2, <1>3, <1>4, SameOpens, LoopType DEF told

\* when it gives up,
LEMMA TimeoutType ==
    ASSUME TypeInv, Timeout
    PROVE  TypeInv'
<1>1. /\ pc = "decide" /\ pc' \in {"close", "next"} /\ proc' = proc
      /\ UNCHANGED <<run, file, wait, stop, runs, current, run_to, times, buffer, result, opens>>
      /\ state_max' = run_to
  BY DEF Timeout
<1>2. CountsTyped'
  BY <1>1, DecidedTyped DEF CountsTyped, TypeInv
<1>3. gave_up' \in BOOLEAN /\ final' \in BOOLEAN
  BY DEF Timeout
<1>4. Busy /\ proc' \in Procs
  BY <1>1 DEF Busy, TypeInv, ControlTyped
<1>5. QED
  BY <1>1, <1>2, <1>3, <1>4, SameOpens, LoopType

\* and when it looks for the last time, it goes no further than the first family.
LEMMA DecideFinalType ==
    ASSUME TypeInv, DecideFinal
    PROVE  TypeInv'
<1>1. /\ LastProc \in Nat /\ LastProc >= 2 /\ Procs = 1..LastProc /\ MaxStates \in Nat
  BY ProcFacts DEF TypeInv
<1>2. /\ pc = "decide" /\ pc' \in {"merge", "close"} /\ proc' = 1
      /\ UNCHANGED <<run, file, told, current, final, times, buffer, result, opens>>
      /\ pc' = "merge" => current < run_to'
  BY DEF DecideFinal
<1>3. CountsTyped'
  <2>1. run_to' \in 0..MaxStates + 1
    BY <1>1 DEF DecideFinal, TypeInv, CountsTyped
  <2>2. state_max' \in 0..MaxStates
    BY <1>1, <1>2, DecidedTyped DEF DecideFinal, TypeInv, CountsTyped
  <2>3. QED
    BY <1>2, <2>1, <2>2 DEF CountsTyped, TypeInv, told
<1>4. Busy /\ final' \in BOOLEAN /\ gave_up' \in BOOLEAN
  BY <1>2 DEF Busy, TypeInv, ControlTyped, told
<1>5. QED
  BY <1>1, <1>2, <1>3, <1>4, SameOpens, LoopType DEF told

\* It sees the end of the run, or looks again.
LEMMA EndOfRunType ==
    ASSUME TypeInv, EndOfRun
    PROVE  TypeInv'
<1>1. /\ pc = "check" /\ pc' \in {"close", "next"} /\ proc' = proc
      /\ UNCHANGED <<run, file, told, data, current, run_to, opens>>
  BY DEF EndOfRun
<1>2. CountsTyped'
  BY <1>1 DEF CountsTyped, TypeInv, told, data
<1>3. final' \in BOOLEAN
  BY DEF EndOfRun
<1>4. Busy /\ proc' \in Procs /\ gave_up' \in BOOLEAN
  BY <1>1 DEF Busy, TypeInv, ControlTyped, told
<1>5. QED
  BY <1>1, <1>2, <1>3, <1>4, SameOpens, LoopType DEF told, data

\* The times are those of states that a processor's family has.
LEMMA TimesTyped ==
    ASSUME TypeInv, NEW p \in Procs
    PROVE  StateTimes(p) \in Seq(0..MaxStates)
<1>1. /\ state_max \in Nat /\ MaxStates \in Nat /\ known[p] \in Nat /\ known[p] <= MaxStates
      /\ times \in Seq(0..MaxStates)
  BY ProcFacts DEF TypeInv, CountsTyped, OpensTyped, DataTyped
<1>2. CASE Len(states) < state_max /\ Len(times) < state_max
  <2>1. StateTimes(p) = [i \in 1..state_max |-> IF i <= known[p] THEN i ELSE None]
    BY <1>2 DEF StateTimes
  <2>2. StateTimes(p) \in [1..state_max -> 0..MaxStates]
    BY <1>1, <2>1 DEF None
  <2>3. QED
    BY <1>1, <2>2, SeqDef
<1>3. CASE ~(Len(states) < state_max /\ Len(times) < state_max)
  BY <1>1, <1>3 DEF StateTimes
<1>4. QED
  BY <1>2, <1>3

\* What is read is of a state of the run, or of none.
LEMMA MergeType ==
    ASSUME TypeInv, Merge
    PROVE  TypeInv'
<1>1. /\ LastProc \in Nat /\ LastProc >= 2 /\ Procs = 1..LastProc /\ MaxStates \in Nat
  BY ProcFacts DEF TypeInv
<1>2. /\ pc = "merge" /\ proc \in Procs
      /\ UNCHANGED <<run, file, told, state_max, loop, opens>>
      /\ buffer' = [buffer EXCEPT ![proc] = ReadState(proc, current)]
      /\ result' = [result EXCEPT ![proc] = buffer'[proc]]
      /\ times' = StateTimes(proc)
  BY DEF Merge, TypeInv, ControlTyped
<1>3. \/ proc' = proc + 1 /\ pc' = "merge" /\ proc < LastProc
      \/ proc' = 1 /\ pc' = "write"
  BY DEF Merge
<1>4. RunTyped' /\ Procs' = Procs /\ Record' = Record
  BY <1>2, SameRun DEF TypeInv, run
<1>5. DataTyped'
  <2>1. /\ buffer \in [Procs -> 0..MaxStates] /\ result \in [Procs -> 0..MaxStates]
        /\ current \in Nat /\ known[proc] \in 0..MaxStates
    BY <1>1, <1>2 DEF TypeInv, DataTyped, CountsTyped, OpensTyped
  <2>2. ReadState(proc, current) \in 0..MaxStates
    BY <1>1, <1>2, <2>1 DEF ReadState, None
  <2>3. buffer' \in [Procs -> 0..MaxStates]
    BY <1>2, <2>1, <2>2
  <2>4. result' \in [Procs -> 0..MaxStates]
    BY <1>2, <2>1, <2>3
  <2>5. QED
    BY <1>2, <1>4, <2>3, <2>4, TimesTyped DEF DataTyped
<1>6. ControlTyped'
  <2>1. proc' \in Procs
    BY <1>1, <1>2, <1>3
  <2>2. QED
    BY <1>2, <1>3, <1>4, <2>1 DEF TypeInv, ControlTyped, run, file, told, loop
<1>7. CountsTyped' /\ StatesTyped'
  BY <1>2, <1>4 DEF TypeInv, CountsTyped, StatesTyped, told, loop, file
<1>8. GrowthInv'
  BY <1>2, <1>3 DEF TypeInv, GrowthInv, Busy, file, loop
<1>9. QED
  BY <1>2, <1>4, <1>5, <1>6, <1>7, <1>8, SameOpens DEF TypeInv

\* The state that is written.
Combination == [time |-> IF current \in DOMAIN times THEN times[current] ELSE None, from |-> result]

\* A state is added: there was one to combine.
LEMMA WriteStateType ==
    ASSUME TypeInv, WriteState
    PROVE  TypeInv'
<1>1. /\ LastProc \in Nat /\ LastProc >= 2 /\ Procs = 1..LastProc /\ MaxStates \in Nat
  BY ProcFacts DEF TypeInv
<1>2. /\ pc = "write" /\ states' = Append(states, Combination) /\ current' = current + 1
      /\ UNCHANGED <<run, defined, saved, told, data, run_to, final, opens, proc>>
      /\ pc' \in {"merge", "check", "close"}
      /\ pc' = "merge" => current + 1 < run_to
  BY DEF WriteState, Combination
<1>3. RunTyped' /\ Procs' = Procs /\ Record' = Record
  BY <1>2, SameRun DEF TypeInv, run
<1>4. PICK has \in Nat : has = Len(states) /\ current = has + 1 /\ current < run_to /\ run_to <= MaxStates + 1
                         /\ saved <= has /\ saved \in Nat
  BY <1>1, <1>2, LenProperties DEF TypeInv, GrowthInv, Busy, StatesTyped, CountsTyped
<1>5. Combination \in Record
  <2>1. ASSUME current \in DOMAIN times PROVE times[current] \in 0..MaxStates
    BY <2>1, ElementOfSeq, LenProperties DEF TypeInv, DataTyped
  <2>2. QED
    BY <1>1, <2>1 DEF Combination, Record, TypeInv, DataTyped, None
<1>6. states' \in Seq(Record) /\ Len(states') = has + 1
  BY <1>2, <1>4, <1>5, AppendProperties DEF TypeInv, StatesTyped
<1>7. StatesTyped'
  BY <1>3, <1>6 DEF StatesTyped
<1>8. ControlTyped'
  BY <1>2, <1>3 DEF TypeInv, ControlTyped, run, told
<1>9. CountsTyped' /\ DataTyped'
  <2>1. current' \in 0..MaxStates + 1 /\ run_to' = run_to /\ state_max' = state_max /\ stop' = stop
    BY <1>1, <1>2, <1>4 DEF TypeInv, CountsTyped, told, data
  <2>2. QED
    BY <1>2, <1>3, <2>1 DEF TypeInv, CountsTyped, DataTyped, data
<1>10. GrowthInv'
  <2>1. has + 1 <= MaxStates /\ saved' \in 0..has + 1
    BY <1>1, <1>2, <1>4 DEF TypeInv, CountsTyped
  <2>2. defined /\ defined' = defined /\ run_to' = run_to /\ current' = has + 1 + 1
    BY <1>2, <1>4 DEF TypeInv, GrowthInv, Busy
  <2>3. pc' = "merge" => current' < run_to'
    BY <1>2
  <2>4. QED
    BY <1>2, <1>6, <2>1, <2>2, <2>3 DEF GrowthInv, Busy
<1>11. QED
  BY <1>2, <1>3, <1>7, <1>8, <1>9, <1>10, SameOpens DEF TypeInv

\* A combiner is gone, its family has n states.
LEMMA GoneType ==
    ASSUME TypeInv, UNCHANGED <<run, defined, wait, stop, runs, data, loop, opens, proc>>,
           gave_up' \in BOOLEAN, pc' = "off", defined,
           states' \in Seq(Record), Len(states') <= Len(states),
           saved' \in 0..Len(states')
    PROVE  TypeInv'
<1>1. RunTyped' /\ Procs' = Procs /\ Record' = Record /\ MaxStates \in Nat
  BY SameRun, ProcFacts DEF TypeInv, run
<1>2. ControlTyped'
  BY <1>1 DEF TypeInv, ControlTyped, run, loop
<1>3. CountsTyped' /\ DataTyped' /\ StatesTyped'
  BY <1>1 DEF TypeInv, CountsTyped, DataTyped, StatesTyped, data, loop
<1>4. GrowthInv'
  <2>1. Len(states) \in Nat /\ Len(states') \in Nat /\ Len(states) <= MaxStates
    BY LenProperties DEF TypeInv, StatesTyped, GrowthInv
  <2>2. Len(states') <= MaxStates
    BY <1>1, <2>1
  <2>3. QED
    BY <2>2 DEF GrowthInv, Busy
<1>5. QED
  BY <1>1, <1>2, <1>3, <1>4, SameOpens DEF TypeInv

\* The combined family is closed, or
LEMMA CloseType ==
    ASSUME TypeInv, Close
    PROVE  TypeInv'
<1>1. /\ pc = "close" /\ pc' = "off" /\ saved' = Len(states) /\ states' = states
      /\ UNCHANGED <<run, defined, wait, stop, runs, data, loop, opens, proc>> /\ gave_up' = gave_up
  BY DEF Close, told
<1>2. defined /\ gave_up \in BOOLEAN /\ states \in Seq(Record)
  BY <1>1 DEF TypeInv, GrowthInv, Busy, ControlTyped, StatesTyped
<1>3. Len(states) \in Nat
  BY <1>2, LenProperties
<1>4. QED
  BY <1>1, <1>2, <1>3, GoneType

\* its combiner is killed.
LEMMA KillType ==
    ASSUME TypeInv, Kill
    PROVE  TypeInv'
<1>1. /\ pc \notin {"off", "open", "define", "append"} /\ pc' = "off"
      /\ UNCHANGED <<run, defined, saved, wait, stop, runs, data, loop, opens, proc>>
  BY DEF Kill
<1>2. gave_up' \in BOOLEAN
  BY DEF Kill
<1>3. PICK n \in saved..Len(states) : states' = SubSeq(states, 1, n)
  BY DEF Kill
<1>4. defined /\ states \in Seq(Record) /\ Len(states) \in Nat /\ saved \in 0..Len(states)
  BY <1>1, LenProperties DEF TypeInv, GrowthInv, Busy, ControlTyped, StatesTyped
<1>5. states' \in Seq(Record) /\ Len(states') = n
  BY <1>3, <1>4, SubSeqProperties
<1>6. saved' \in 0..Len(states') /\ Len(states') <= Len(states)
  BY <1>1, <1>3, <1>4, <1>5
<1>7. QED
  BY <1>1, <1>2, <1>4, <1>5, <1>6, GoneType

\* Each step keeps types.
LEMMA NextType ==
    ASSUME TypeInv, [Next]_vars
    PROVE  TypeInv'
<1>1. CASE Step
  BY <1>1, OpenInputType, DefineType, AppendToType, GetNextStateType, ReopenType, DecideWaitingType,
     DecideFinalType, EndOfRunType, MergeType, WriteStateType, CloseType DEF Step
<1>2. CASE UNCHANGED vars
  <2>1. UNCHANGED <<run, file, told, data, loop, opens, pc, proc>>
    BY <1>2 DEF vars
  <2>2. RunTyped' /\ Procs' = Procs /\ Record' = Record
    BY <2>1, SameRun DEF TypeInv, run
  <2>3. ControlTyped'
    BY <2>1, <2>2 DEF TypeInv, ControlTyped, run, file, told, loop
  <2>4. CountsTyped' /\ DataTyped' /\ StatesTyped'
    BY <2>1, <2>2 DEF TypeInv, CountsTyped, DataTyped, StatesTyped, file, told, data, loop
  <2>5. GrowthInv'
    BY <2>1 DEF TypeInv, GrowthInv, Busy, file, loop, opens
  <2>6. QED
    BY <2>1, <2>2, <2>3, <2>4, <2>5, SameOpens DEF TypeInv
<1>3. QED
  BY <1>1, <1>2, WriteType, FinishType, StartType, TimeoutType, KillType DEF Next

\* Every variable keeps its type, whatever the user does: no state past the last
\* of a run is combined, nor a family taken to have more states than it has,
\* wherever set_timesteps and get_next_state find the families.
THEOREM TypeCorrect == Spec => []TypeOK
<1>1. TypeInv => TypeOK
  <2>1. SUFFICES ASSUME TypeInv PROVE TypeOK
    OBVIOUS
  <2>2. /\ MaxStates \in Nat /\ {ended, defined, wait, final, gave_up} \subseteq BOOLEAN
        /\ {buffer, result} \subseteq [Procs -> 0..MaxStates]
    BY <2>1, ProcFacts DEF TypeInv, ControlTyped, DataTyped
  <2>3. {stop, current, run_to, state_max} \subseteq 0..MaxStates + 1
    BY <2>1, <2>2 DEF TypeInv, CountsTyped
  <2>4. \A p \in Procs : known[p] \in 0..written[p]
    BY <2>1, <2>2 DEF TypeInv, OpensTyped, RunTyped
  <2>5. \A i \in DOMAIN states : states[i] \in Record
    BY <2>1, ElementOfSeq, LenProperties DEF TypeInv, StatesTyped
  <2>6. QED
    BY <2>1, <2>2, <2>3, <2>4, <2>5 DEF TypeOK, TypeInv, RunTyped, ControlTyped, OpensTyped, Record
<1>2. QED
  BY <1>1, InitType, NextType, PTL DEF Spec

-----------------------------------------------------------------------------
(***************************************************************************)
(* What the processors' families have.                                     *)
(***************************************************************************)
\* The first processor's family, and the last one's.
LEMMA FirstProc ==
    ASSUME TypeInv
    PROVE  /\ 1 \in Procs /\ LastProc \in Procs /\ MaxStates \in Nat
           /\ \A p \in Procs : /\ known[p] \in Nat /\ written[p] \in Nat
                               /\ known[p] <= written[p]
BY ProcFacts DEF TypeInv, RunTyped, OpensTyped

\* Only a combiner that waits runs beside the run, and it knows what was there.
LEMMA WriteOpens ==
    ASSUME TypeInv, OpensInv, NEW p \in Procs, Write(p)
    PROVE  OpensInv'
<1>1. /\ ~ended /\ ended' = ended /\ Procs' = Procs
      /\ UNCHANGED <<known, late, wait, stop, defined, states, pc, proc>>
  BY DEF Write, Procs, file, told, opens, TypeInv, RunTyped
<1>2. pc # "off" => wait
  BY <1>1 DEF OpensInv
<1>3. QED
  BY <1>1, <1>2 DEF OpensInv, Busy, Waiting

\* A run that ends has as many states on each processor.
LEMMA FinishOpens ==
    ASSUME TypeInv, OpensInv, Finish
    PROVE  OpensInv'
<1>1. /\ \A p \in Procs : written[p] = written[1]
      /\ written' = written /\ Procs' = Procs /\ ended'
      /\ UNCHANGED <<known, late, wait, stop, defined, states, pc, proc>>
  BY DEF Finish, Procs, file, told, opens
<1>2. QED
  BY <1>1 DEF OpensInv, Busy, Waiting

\* A combiner that is made for it starts.
LEMMA StartOpens ==
    ASSUME MadeFor, TypeInv, OpensInv, NEW w \in BOOLEAN, NEW s \in 0..MaxStates, Start(w, s)
    PROVE  OpensInv'
<1>1. /\ pc' = "open" /\ proc' = 1 /\ wait' = w /\ stop' = s /\ late' = {} /\ CanStart(w, s)
      /\ written' = written /\ Procs' = Procs /\ ended' = ended
      /\ defined' = defined /\ states' = states
  BY DEF Start, run, file, Procs
<1>2. w => s = 0 /\ (defined => states # << >>)
  BY <1>1 DEF CanStart, MadeFor
<1>3. ~w => ended
  BY <1>1 DEF CanStart, MadeFor
<1>4. 1..proc' - 1 = {}
  BY <1>1
<1>5. QED
  BY <1>1, <1>2, <1>3, <1>4 DEF OpensInv, Busy, Waiting

\* No family is opened behind the first; once the run has ended all are alike.
LEMMA OpenInputOpens ==
    ASSUME MadeFor, TypeInv, OpensInv, OpenInput
    PROVE  OpensInv'
<1>1. /\ pc = "open" /\ proc \in Procs /\ known' = [known EXCEPT ![proc] = written[proc]]
      /\ UNCHANGED <<written, ended, wait, stop, defined, states, late>> /\ Procs' = Procs
      /\ proc = 1 \/ written[proc] >= known[1]
  BY DEF OpenInput, MadeFor, TypeInv, ControlTyped, run, file, told, Procs
<1>2. \/ proc < LastProc /\ proc' = proc + 1 /\ pc' = "open"
      \/ proc = LastProc /\ pc' \in {"append", "define"} /\ (pc' = "append" <=> defined)
  <2>1. LastProc \in Nat /\ Procs = 1..LastProc
    BY ProcFacts DEF TypeInv
  <2>2. proc < LastProc \/ proc = LastProc
    BY <1>1, <2>1
  <2>3. QED
    BY <2>1, <2>2 DEF OpenInput
<1>3. LastProc \in Nat /\ Procs = 1..LastProc /\ proc \in Nat
  BY <1>1, ProcFacts DEF TypeInv
<1>4. \A p \in 1..proc : known'[p] >= known'[1] /\ (~wait => known'[p] = written[p])
  <2>1. known \in [Procs -> 0..MaxStates]
    BY DEF TypeInv, OpensTyped
  <2>2. ASSUME NEW p \in 1..proc - 1
        PROVE  known'[p] = known[p] /\ known[p] >= known[1] /\ (~wait => known[p] = written[p])
    BY <1>1, <1>3, <2>1, <2>2 DEF OpensInv
  <2>3. known'[proc] = written[proc]
    BY <1>1, <2>1
  <2>4. proc = 1 \/ known'[1] = known[1]
    BY <1>1, <1>3, <2>1
  <2>5. known'[proc] >= known'[1]
    BY <1>1, <1>3, <2>3, <2>4, FirstProc
  <2>6. \A p \in 1..proc : p = proc \/ p \in 1..proc - 1
    BY <1>3
  <2>7. ASSUME NEW p \in 1..proc - 1 PROVE known'[p] >= known'[1]
    BY <1>3, <2>2, <2>4, <2>7
  <2>8. QED
    BY <2>2, <2>3, <2>5, <2>6, <2>7
<1>5. CASE proc < LastProc /\ proc' = proc + 1 /\ pc' = "open"
  <2>1. 1..proc' - 1 = 1..proc
    BY <1>3, <1>5
  <2>2. QED
    BY <1>1, <1>4, <1>5, <2>1 DEF OpensInv, Busy, Waiting
<1>6. CASE proc = LastProc /\ pc' \in {"append", "define"} /\ (pc' = "append" <=> defined)
  <2>1. \A p \in Procs : known'[p] >= known'[1] /\ (~wait => known'[p] = written[p])
    BY <1>3, <1>4, <1>6
  <2>2. QED
    BY <1>1, <1>6, <2>1 DEF OpensInv, Busy, Waiting
<1>7. QED
  BY <1>2, <1>5, <1>6

\* A step after which the open families are as they were.
LEMMA OpensKept ==
    ASSUME TypeInv, OpensInv, UNCHANGED <<run, opens, wait>>,
           Busy \/ pc \in {"define", "append"}, pc # "reopen",
           pc' \in {"next", "decide", "check", "merge", "write", "close", "off"},
           pc' \in {"next", "decide", "check"} => wait,
           wait => stop' = 0
    PROVE  OpensInv'
<1>1. Procs' = Procs /\ UNCHANGED <<written, ended, known, late, wait>>
  BY DEF run, opens, Procs
<1>2. pc # "off" /\ late = {}
  BY DEF OpensInv, Busy
<1>3. QED
  BY <1>1, <1>2 DEF OpensInv, Busy, Waiting

\* A combiner that waits goes on without a stop,
LEMMA DefineOpens ==
    ASSUME TypeInv, OpensInv, Define
    PROVE  OpensInv'
<1>1. pc = "define" /\ UNCHANGED <<run, opens, wait>> /\ Begin(1, stop) /\ stop \in 0..MaxStates
  BY DEF Define, TypeInv, CountsTyped
<1>2. PICK to \in 0..MaxStates : BeginsAt(1, stop, to)
  BY <1>1, BeginIs
<1>3. /\ wait => stop' = 0
      /\ pc' \in {"next", "merge", "close"}
      /\ pc' = "next" => wait
  BY <1>1, <1>2 DEF BeginsAt, OpensInv
<1>4. QED
  BY <1>1, <1>3, OpensKept

\* also when it appends, as there are states.
LEMMA AppendToOpens ==
    ASSUME TypeInv, OpensInv, AppendTo
    PROVE  OpensInv'
<1>1. pc = "append" /\ UNCHANGED <<run, opens, wait>> /\ defined
  BY DEF AppendTo, TypeInv, GrowthInv
<1>2. wait => stop = 0 /\ Len(states) > 0
  <2>1. wait => stop = 0 /\ states # << >>
    BY <1>1 DEF OpensInv
  <2>2. states # << >> => Len(states) > 0
    BY EmptySeq, LenProperties DEF TypeInv, StatesTyped
  <2>3. QED
    BY <2>1, <2>2
<1>3. CASE \E last \in 0..MaxStates : /\ Begin(Len(states) + 1, last)
                                      /\ wait /\ Len(states) > 0 /\ stop = 0 => last = 0
  <2>1. PICK last \in 0..MaxStates : Begin(Len(states) + 1, last) /\ (wait => last = 0)
    BY <1>2, <1>3
  <2>2. PICK to \in 0..MaxStates : BeginsAt(Len(states) + 1, last, to)
    BY <2>1, BeginIs
  <2>3. /\ wait => stop' = 0
        /\ pc' \in {"next", "merge", "close"}
        /\ pc' = "next" => wait
    BY <2>1, <2>2 DEF BeginsAt
  <2>4. QED
    BY <1>1, <2>3, OpensKept
<1>4. CASE pc' = "off" /\ UNCHANGED <<saved, stop, current, run_to, state_max>>
  BY <1>1, <1>2, <1>4, OpensKept
<1>5. QED
  BY <1>3, <1>4, AppendIs

\* The first processor's family is ahead of the others, until
LEMMA GetNextStateOpens ==
    ASSUME TypeInv, OpensInv, GetNextState
    PROVE  OpensInv'
<1>1. /\ pc = "next" /\ known' = [known EXCEPT ![1] = written[1]]
      /\ late' = IF written[1] > known[1] THEN Procs \ {1} ELSE {}
      /\ pc' = IF late' = {} THEN "decide" ELSE "reopen"
      /\ UNCHANGED <<written, ended, wait, stop, defined, states>> /\ Procs' = Procs
  BY DEF GetNextState, Reopens, run, told, file, Procs
<1>2. wait /\ late = {} /\ stop = 0
  BY <1>1 DEF OpensInv, Waiting
<1>3. \A p \in Procs \ late' : known'[p] >= known'[1]
  <2>1. /\ known \in [Procs -> 0..MaxStates] /\ 1 \in Procs /\ written[1] \in Nat
        /\ known[1] \in Nat /\ known[1] <= written[1]
    BY FirstProc DEF TypeInv, OpensTyped
  <2>2. known'[1] = written[1] /\ \A p \in Procs \ {1} : known'[p] = known[p]
    BY <1>1, <2>1
  <2>3. CASE written[1] > known[1]
    BY <1>1, <2>1, <2>2, <2>3
  <2>4. CASE ~(written[1] > known[1])
    <3>1. written[1] = known[1]
      BY <2>1, <2>4
    <3>2. known' = known
      BY <1>1, <2>1, <3>1
    <3>3. QED
      BY <1>1, <1>2, <3>2 DEF OpensInv, Busy
  <2>5. QED
    BY <2>3, <2>4
<1>4. QED
  BY <1>1, <1>2, <1>3 DEF OpensInv, Busy, Waiting

\* each has been opened again with as many states.
LEMMA ReopenOpens ==
    ASSUME TypeInv, OpensInv, Reopen
    PROVE  OpensInv'
<1>1. /\ pc = "reopen" /\ proc \in Procs /\ proc > 1 /\ run_to = known[1]
      /\ known' = [known EXCEPT ![proc] = IF proc \in late THEN written[proc] ELSE known[proc]]
      /\ late' = late \ {p \in {proc} : known'[p] >= run_to}
      /\ pc' = IF late' = {} THEN "decide" ELSE "reopen"
      /\ UNCHANGED <<written, ended, wait, stop, defined, states>> /\ Procs' = Procs
  BY DEF Reopen, TypeInv, ControlTyped, GrowthInv, OpensTyped, run, told, file, Procs
<1>2. wait /\ stop = 0 /\ late \subseteq Procs
  BY <1>1 DEF OpensInv, Waiting, TypeInv, OpensTyped
<1>3. known'[1] = known[1] /\ \A p \in Procs \ {proc} : known'[p] = known[p]
  BY <1>1, FirstProc DEF TypeInv, OpensTyped
<1>4. \A p \in Procs \ late : known[p] >= known[1]
  BY <1>1 DEF OpensInv, Busy
<1>5. ASSUME NEW p \in Procs \ late' PROVE known'[p] >= known'[1]
  <2>1. CASE p \in late
    BY <1>1, <1>3, <1>5, <2>1
  <2>2. CASE p \notin late
    <3>1. known'[p] = known[p]
      BY <1>1, <1>3, <2>2 DEF TypeInv, OpensTyped
    <3>2. QED
      BY <1>3, <1>4, <2>2, <3>1
  <2>3. QED
    BY <2>1, <2>2
<1>6. QED
  BY <1>1, <1>2, <1>5 DEF OpensInv, Busy, Waiting

\* Each step but those of the run and of opening.
LEMMA LoopOpens ==
    ASSUME TypeInv, OpensInv,
           DecideWaiting \/ Timeout \/ DecideFinal \/ EndOfRun \/ Merge \/ WriteState \/ Close \/ Kill
    PROVE  OpensInv'
<1>1. CASE DecideWaiting \/ Timeout \/ DecideFinal \/ EndOfRun
  <2>1. /\ UNCHANGED <<run, opens, wait, stop>> /\ pc \in {"decide", "check"}
        /\ pc' \in {"merge", "check", "close", "next"}
    BY <1>1 DEF DecideWaiting, Timeout, DecideFinal, EndOfRun, told
  <2>2. Busy /\ wait /\ stop = 0
    BY <2>1 DEF Busy, OpensInv, Waiting
  <2>3. QED
    BY <2>1, <2>2, OpensKept
<1>2. CASE Merge \/ WriteState \/ Close
  <2>1. /\ UNCHANGED <<run, opens, wait, stop>> /\ pc \in {"merge", "write", "close"}
        /\ pc' \in {"merge", "write", "check", "close", "off"}
        /\ pc' = "check" => wait
    BY <1>2 DEF Merge, WriteState, Close, told
  <2>2. Busy /\ (wait => stop = 0)
    BY <2>1 DEF Busy, OpensInv
  <2>3. QED
    BY <2>1, <2>2, OpensKept
<1>3. CASE Kill
  <2>1. /\ UNCHANGED <<run, opens, wait, stop>> /\ pc' = "off"
        /\ Procs' = Procs
    BY <1>3 DEF Kill, run, Procs
  <2>2. QED
    BY <2>1 DEF OpensInv, Busy, Waiting, run, opens
<1>4. QED
  BY <1>1, <1>2, <1>3

-----------------------------------------------------------------------------
(***************************************************************************)
(* The times.                                                              *)
(***************************************************************************)
\* A step that takes no times and does not come to a state to combine.
LEMMA TimesKept ==
    ASSUME TimesInv, times' = times, pc' \notin {"merge", "write"}
    PROVE  TimesInv'
BY DEF TimesInv

\* The run goes on.
LEMMA RunTimes ==
    ASSUME TimesInv, UNCHANGED <<told, data, loop, opens, pc, proc>>
    PROVE  TimesInv'
BY DEF TimesInv, told, data, loop, opens

\* A combiner that does not wait begins.
LEMMA BeginTimes ==
    ASSUME TypeInv, OpensInv, TimesInv, NEW last \in 0..MaxStates, Begin(Len(states) + 1, last),
           pc \in {"define", "append"}, UNCHANGED <<run, wait, times, opens, proc>>
    PROVE  TimesInv'
<1>1. PICK to \in 0..MaxStates :
          to <= known[LastProc] /\ BeginsAt(Len(states) + 1, last, to)
  BY BeginIs
<1>2. pc' = "merge" => ~wait /\ state_max' = to /\ run_to' = to + 1 /\ current' <= to
  BY <1>1 DEF BeginsAt
<1>3. /\ proc' = 1 /\ known' = known /\ times' = times /\ wait' = wait
      /\ pc' # "write"
  BY <1>1 DEF BeginsAt, TypeInv, GrowthInv, opens
<1>4. ~wait => to <= known[1]
  <2>1. SUFFICES ASSUME ~wait PROVE to <= known[1]
    OBVIOUS
  <2>2. /\ known[1] = written[1] /\ known[LastProc] = written[LastProc]
        /\ written[LastProc] = written[1]
    BY <2>1, FirstProc DEF OpensInv
  <2>3. QED
    BY <1>1, <2>2
<1>5. QED
  BY <1>2, <1>3, <1>4 DEF TimesInv

\* It defines the family,
LEMMA DefineTimes ==
    ASSUME TypeInv, OpensInv, TimesInv, Define
    PROVE  TimesInv'
<1>1. pc = "define" /\ Begin(1, stop) /\ UNCHANGED <<run, wait, times, opens, proc>>
  BY DEF Define
<1>2. Len(states) = 0
  BY <1>1, EmptySeq DEF TypeInv, GrowthInv
<1>3. Begin(Len(states) + 1, stop) /\ stop \in 0..MaxStates
  BY <1>1, <1>2 DEF TypeInv, CountsTyped
<1>4. QED
  BY <1>1, <1>3, BeginTimes

\* or appends to it.
LEMMA AppendToTimes ==
    ASSUME TypeInv, OpensInv, TimesInv, AppendTo
    PROVE  TimesInv'
<1>1. pc = "append" /\ UNCHANGED <<run, wait, times, opens, proc>>
  BY DEF AppendTo
<1>2. CASE \E last \in 0..MaxStates : Begin(Len(states) + 1, last)
  BY <1>1, <1>2, BeginTimes
<1>3. CASE pc' = "off"
  BY <1>1, <1>3, TimesKept
<1>4. QED
  BY <1>2, <1>3, AppendIs

\* A combiner that waits comes to a state to combine: it is not limited.
LEMMA DecideTimes ==
    ASSUME TypeInv, OpensInv, TimesInv, DecideWaiting \/ DecideFinal
    PROVE  TimesInv'
<1>1. /\ pc = "decide" /\ proc' = 1 /\ pc' # "write"
      /\ UNCHANGED <<current, times, known, wait>>
      /\ pc' = "merge" => current < run_to'
  BY DEF DecideWaiting, DecideFinal, told, opens
<1>2. stop = 0 /\ run_to = known[1] /\ run_to \in Nat /\ current \in Nat
  BY <1>1, DecidedTyped DEF OpensInv, Waiting, TypeInv, GrowthInv, CountsTyped
<1>3. ~Limited
  BY <1>2 DEF Limited
<1>4. run_to' = run_to /\ (pc' = "merge" => state_max' = run_to)
  BY <1>1, <1>2, <1>3 DEF DecideWaiting, DecideFinal
<1>5. QED
  BY <1>1, <1>2, <1>4 DEF TimesInv

\* What is there for each processor when a state is combined.
LEMMA Ready ==
    ASSUME TypeInv, OpensInv, TimesInv, pc = "merge", NEW p \in Procs
    PROVE  /\ state_max \in Nat /\ current \in Nat /\ current <= state_max
           /\ Len(states) < state_max
           /\ known[p] \in Nat /\ state_max <= known[p]
           /\ ReadState(p, current) = current
<1>1. /\ known[1] \in Nat /\ known[p] \in Nat /\ written[p] \in Nat /\ known[p] <= written[p]
      /\ current \in Nat /\ run_to \in Nat /\ state_max \in Nat
  BY FirstProc, ProcFacts DEF TypeInv, CountsTyped
<1>2. known[p] >= known[1] /\ (~wait => known[p] = written[p] /\ ended)
  BY DEF OpensInv, Busy
<1>3. /\ state_max <= known[1] /\ current <= state_max /\ current < run_to
      /\ run_to = state_max \/ ~wait
  BY DEF TimesInv, TypeInv, GrowthInv
<1>4. Len(states) \in Nat /\ current = Len(states) + 1
  BY LenProperties DEF TypeInv, StatesTyped, GrowthInv, Busy
<1>5. Complete(p, current)
  <2>1. CASE run_to = state_max
    BY <1>1, <1>2, <1>3, <2>1 DEF Complete
  <2>2. CASE ~wait
    BY <1>1, <1>2, <1>3, <2>2 DEF Complete
  <2>3. QED
    BY <1>3, <2>1, <2>2
<1>6. QED
  BY <1>1, <1>2, <1>3, <1>4, <1>5 DEF ReadState

\* The times that are taken are those of all states to combine.
LEMMA MergeTimes ==
    ASSUME TypeInv, OpensInv, TimesInv, Merge
    PROVE  TimesInv'
<1>1. /\ pc = "merge" /\ proc \in Procs /\ times' = StateTimes(proc)
      /\ UNCHANGED <<known, wait, state_max, current, run_to>>
  BY DEF Merge, TypeInv, ControlTyped, told, loop, opens
<1>2. /\ state_max \in Nat /\ Len(states) < state_max
      /\ known[proc] \in Nat /\ state_max <= known[proc]
  BY <1>1, Ready
<1>3. Len(times) \in Nat
  BY LenProperties DEF TypeInv, DataTyped
<1>4. (\A i \in DOMAIN times' : times'[i] = i) /\ state_max <= Len(times')
  <2>1. CASE Len(times) < state_max
    <3>1. times' = [i \in 1..state_max |-> IF i <= known[proc] THEN i ELSE None]
      BY <1>1, <1>2, <2>1 DEF StateTimes
    <3>2. times' \in Seq(0..MaxStates)
      BY <1>1, TimesTyped
    <3>3. DOMAIN times' = 1..state_max /\ DOMAIN times' = 1..Len(times') /\ Len(times') \in Nat
      BY <3>1, <3>2, LenProperties
    <3>4. \A i \in 1..state_max : times'[i] = i
      BY <1>2, <3>1
    <3>5. state_max = Len(times')
      BY <1>2, <3>3
    <3>6. QED
      BY <3>3, <3>4, <3>5
  <2>2. CASE ~(Len(times) < state_max)
    <3>1. times' = times
      BY <1>1, <2>2 DEF StateTimes
    <3>2. QED
      BY <1>2, <1>3, <2>2, <3>1 DEF TimesInv
  <2>3. QED
    BY <2>1, <2>2
<1>5. QED
  BY <1>1, <1>4 DEF TimesInv

\* The next state to combine has its time already, or will have it taken.
LEMMA WriteStateTimes ==
    ASSUME TypeInv, TimesInv, WriteState
    PROVE  TimesInv'
<1>1. /\ pc = "write" /\ current' = current + 1 /\ proc' = 1
      /\ UNCHANGED <<known, wait, state_max, times, run_to>> /\ pc' # "write"
      /\ pc' = "merge" => current + 1 < run_to
  BY DEF WriteState, TypeInv, GrowthInv, told, data, opens
<1>2. current \in Nat /\ run_to \in Nat /\ state_max \in Nat
  BY ProcFacts DEF TypeInv, CountsTyped
<1>3. run_to = state_max \/ (~wait /\ run_to = state_max + 1)
  BY <1>1 DEF TimesInv
<1>4. pc' = "merge" => current' <= state_max
  BY <1>1, <1>2, <1>3
<1>5. QED
  BY <1>1, <1>3, <1>4 DEF TimesInv

-----------------------------------------------------------------------------
(***************************************************************************)
(* What is merged and written.                                             *)
(***************************************************************************)
\* A step that combines nothing.
LEMMA MergedKept ==
    ASSUME MergedInv, states' = states, Procs' = Procs,
           pc' # "write", pc' = "merge" => proc' = 1
    PROVE  MergedInv'
<1>1. pc' = "merge" => 1..proc' - 1 = {}
  OBVIOUS
<1>2. QED
  BY <1>1 DEF MergedInv

\* The run goes on.
LEMMA RunMerged ==
    ASSUME MergedInv, UNCHANGED <<file, data, loop, pc, proc>>, Procs' = Procs
    PROVE  MergedInv'
BY DEF MergedInv, file, data, loop

\* A combiner begins with the first processor,
LEMMA BeginMerged ==
    ASSUME TypeInv, MergedInv, Define \/ AppendTo
    PROVE  MergedInv'
<1>1. states' = states /\ Procs' = Procs /\ proc' = 1
  BY DEF Define, AppendTo, TypeInv, GrowthInv, run, Procs
<1>2. pc' # "write"
  <2>1. CASE Define
    <3>1. Begin(1, stop) /\ stop \in 0..MaxStates
      BY <2>1 DEF Define, TypeInv, CountsTyped
    <3>2. QED
      BY <3>1, BeginIs DEF BeginsAt
  <2>2. CASE AppendTo
    <3>1. CASE \E last \in 0..MaxStates : Begin(Len(states) + 1, last)
      BY <3>1, BeginIs DEF BeginsAt
    <3>2. QED
      BY <2>2, <3>1, AppendIs
  <2>3. QED
    BY <2>1, <2>2
<1>3. QED
  BY <1>1, <1>2, MergedKept

\* merges the state of one after the other,
LEMMA MergeMerged ==
    ASSUME TypeInv, OpensInv, TimesInv, MergedInv, Merge
    PROVE  MergedInv'
<1>1. /\ pc = "merge" /\ proc \in Procs
      /\ buffer' = [buffer EXCEPT ![proc] = ReadState(proc, current)]
      /\ result' = [result EXCEPT ![proc] = buffer'[proc]]
      /\ states' = states /\ current' = current /\ Procs' = Procs
  BY DEF Merge, TypeInv, ControlTyped, file, loop, run, Procs
<1>2. LastProc \in Nat /\ Procs = 1..LastProc
  BY ProcFacts DEF TypeInv
<1>3. buffer \in [Procs -> 0..MaxStates] /\ result \in [Procs -> 0..MaxStates]
  BY DEF TypeInv, DataTyped
<1>4. buffer'[proc] = current
  BY <1>1, <1>3, Ready
<1>5. result'[proc] = current
  BY <1>1, <1>3, <1>4
<1>6. \A p \in 1..proc : result'[p] = current
  <2>1. ASSUME NEW p \in 1..proc - 1 PROVE result'[p] = current
    <3>1. p \in Procs /\ p # proc /\ result[p] = current
      BY <1>1, <1>2 DEF MergedInv
    <3>2. QED
      BY <1>1, <1>3, <3>1
  <2>2. \A p \in 1..proc : p = proc \/ p \in 1..proc - 1
    BY <1>1, <1>2
  <2>3. QED
    BY <1>5, <2>1, <2>2
<1>7. CASE proc < LastProc
  <2>1. proc' = proc + 1 /\ pc' = "merge"
    BY <1>7 DEF Merge
  <2>2. 1..proc' - 1 = 1..proc
    BY <1>1, <1>2, <2>1
  <2>3. QED
    BY <1>1, <1>6, <2>1, <2>2 DEF MergedInv
<1>8. CASE ~(proc < LastProc)
  <2>1. pc' = "write"
    BY <1>8 DEF Merge
  <2>2. Procs = 1..proc
    BY <1>1, <1>2, <1>8
  <2>3. QED
    BY <1>1, <1>6, <2>1, <2>2 DEF MergedInv
<1>9. QED
  BY <1>7, <1>8

\* and writes it when all are merged.
LEMMA WriteStateMerged ==
    ASSUME TypeInv, TimesInv, MergedInv, WriteState
    PROVE  MergedInv'
<1>1. /\ pc = "write" /\ states' = Append(states, Combination) /\ proc' = 1 /\ pc' # "write"
      /\ Procs' = Procs
  BY DEF WriteState, Combination, TypeInv, GrowthInv, run, Procs
<1>2. /\ states \in Seq(Record) /\ Len(states) \in Nat /\ current = Len(states) + 1
      /\ DOMAIN states = 1..Len(states)
  BY <1>1, LenProperties DEF TypeInv, StatesTyped, GrowthInv, Busy
<1>3. Combination = [time |-> current, from |-> [p \in Procs |-> current]]
  <2>1. result = [p \in Procs |-> current]
    <3>1. result \in [Procs -> 0..MaxStates] /\ \A p \in Procs : result[p] = current
      BY <1>1 DEF MergedInv, TypeInv, DataTyped
    <3>2. QED
      BY <3>1
  <2>2. current \in DOMAIN times /\ times[current] = current
    <3>1. current <= state_max /\ state_max <= Len(times)
      BY <1>1 DEF TimesInv
    <3>2. /\ DOMAIN times = 1..Len(times) /\ Len(times) \in Nat /\ state_max \in Nat
          /\ current \in Nat /\ current > 0
      BY <1>2, ProcFacts, LenProperties DEF TypeInv, DataTyped, CountsTyped
    <3>3. current \in DOMAIN times
      BY <3>1, <3>2
    <3>4. QED
      BY <3>3 DEF TimesInv
  <2>3. QED
    BY <2>1, <2>2 DEF Combination
<1>4. Combination \in Record
  <2>1. current \in 0..MaxStates
    BY <1>1, <1>2, ProcFacts DEF TypeInv, GrowthInv, CountsTyped
  <2>2. QED
    BY <1>3, <2>1 DEF Record
<1>5. ASSUME NEW i \in DOMAIN states' PROVE states'[i] = [time |-> i, from |-> [p \in Procs |-> i]]
  <2>1. /\ states' \in Seq(Record) /\ Len(states') = Len(states) + 1
        /\ \A j \in 1..Len(states) : states'[j] = states[j]
        /\ states'[Len(states) + 1] = Combination
    BY <1>1, <1>2, <1>4, AppendProperties
  <2>2. i \in 1..Len(states) \/ i = Len(states) + 1
    <3>1. i \in 1..Len(states) + 1
      BY <2>1, LenProperties
    <3>2. QED
      BY <1>2, <3>1
  <2>3. CASE i \in 1..Len(states)
    BY <1>2, <2>1, <2>3 DEF MergedInv
  <2>4. CASE i = Len(states) + 1
    BY <1>2, <1>3, <2>1, <2>4
  <2>5. QED
    BY <2>2, <2>3, <2>4
<1>6. pc' = "merge" => 1..proc' - 1 = {}
  BY <1>1
<1>7. QED
  BY <1>1, <1>5, <1>6 DEF MergedInv

\* The states that are left are the first ones.
LEMMA KillMerged ==
    ASSUME TypeInv, MergedInv, Kill
    PROVE  MergedInv'
<1>1. PICK n \in saved..Len(states) : states' = SubSeq(states, 1, n)
  BY DEF Kill
<1>2. pc' = "off" /\ Procs' = Procs
  BY DEF Kill, run, Procs
<1>3. states \in Seq(Record) /\ Len(states) \in Nat /\ saved \in 0..Len(states)
  BY LenProperties DEF TypeInv, StatesTyped, GrowthInv
<1>4. /\ states' \in Seq(Record) /\ Len(states') = n /\ n <= Len(states) /\ n \in Nat
      /\ \A i \in 1..n : states'[i] = states[i]
  BY <1>1, <1>3, SubSeqProperties
<1>5. DOMAIN states' = 1..n /\ DOMAIN states = 1..Len(states)
  BY <1>3, <1>4, LenProperties
<1>6. \A i \in DOMAIN states' : i \in DOMAIN states /\ states'[i] = states[i]
  BY <1>3, <1>4, <1>5
<1>7. QED
  BY <1>2, <1>6 DEF MergedInv

-----------------------------------------------------------------------------
(***************************************************************************)
(* Together.                                                               *)
(***************************************************************************)
IInv == TypeInv /\ OpensInv /\ TimesInv /\ MergedInv

\* A combiner that is made for it starts with nothing of the run.
LEMMA InitInv == MadeFor /\ Init => IInv
<1>1. SUFFICES ASSUME Init PROVE TypeInv /\ OpensInv /\ TimesInv /\ MergedInv
  BY DEF IInv
<1>2. /\ pc = "off" /\ ~ended /\ late = {} /\ times = << >> /\ states = << >>
  BY <1>1 DEF Init
<1>3. OpensInv
  BY <1>2 DEF OpensInv, Busy, Waiting
<1>4. TimesInv /\ MergedInv
  BY <1>2 DEF TimesInv, MergedInv
<1>5. QED
  BY <1>1, <1>3, <1>4, InitType

\* The steps of the combiner's loop, of the run, and of whoever starts or kills it.
LEMMA NextInv ==
    ASSUME MadeFor, IInv, [Next]_vars
    PROVE  IInv'
<1>1. TypeInv /\ OpensInv /\ TimesInv /\ MergedInv /\ TypeInv'
  BY NextType DEF IInv
<1>2. ASSUME NEW p \in Procs, Write(p) PROVE IInv'
  <2>1. UNCHANGED <<file, told, data, loop, opens, pc, proc>> /\ Procs' = Procs
    BY <1>1, <1>2 DEF Write, Procs, TypeInv, RunTyped
  <2>2. QED
    BY <1>1, <1>2, <2>1, WriteOpens, RunTimes, RunMerged DEF IInv
<1>3. CASE Finish
  <2>1. UNCHANGED <<file, told, data, loop, opens, pc, proc>> /\ Procs' = Procs
    BY <1>3 DEF Finish, Procs
  <2>2. QED
    BY <1>1, <1>3, <2>1, FinishOpens, RunTimes, RunMerged DEF IInv
<1>4. ASSUME NEW w \in BOOLEAN, NEW s \in 0..MaxStates, Start(w, s) PROVE IInv'
  <2>1. pc' = "open" /\ times' = << >> /\ states' = states /\ Procs' = Procs
    BY <1>4 DEF Start, file, run, Procs
  <2>2. TimesInv'
    BY <2>1 DEF TimesInv
  <2>3. QED
    BY <1>1, <1>4, <2>1, <2>2, StartOpens, MergedKept DEF IInv
<1>5. CASE OpenInput
  <2>1. /\ times' = times /\ states' = states /\ Procs' = Procs
        /\ pc' \notin {"merge", "write"}
    BY <1>5 DEF OpenInput, data, file, run, Procs
  <2>2. QED
    BY <1>1, <1>5, <2>1, OpenInputOpens, TimesKept, MergedKept DEF IInv
<1>6. CASE Define
  BY <1>1, <1>6, DefineOpens, DefineTimes, BeginMerged DEF IInv
<1>7. CASE AppendTo
  BY <1>1, <1>7, AppendToOpens, AppendToTimes, BeginMerged DEF IInv
<1>8. CASE GetNextState \/ Reopen
  <2>1. /\ times' = times /\ states' = states /\ Procs' = Procs
        /\ pc' \notin {"merge", "write"}
    BY <1>8 DEF GetNextState, Reopen, data, file, run, Procs
  <2>2. QED
    BY <1>1, <1>8, <2>1, GetNextStateOpens, ReopenOpens, TimesKept, MergedKept DEF IInv
<1>9. CASE DecideWaiting \/ DecideFinal
  <2>1. states' = states /\ Procs' = Procs /\ proc' = 1 /\ pc' # "write"
    BY <1>9 DEF DecideWaiting, DecideFinal, file, run, Procs
  <2>2. QED
    BY <1>1, <1>9, <2>1, LoopOpens, DecideTimes, MergedKept DEF IInv
<1>10. CASE Timeout \/ EndOfRun \/ Close
  <2>1. /\ times' = times /\ states' = states /\ Procs' = Procs
        /\ pc' \notin {"merge", "write"}
    BY <1>10 DEF Timeout, EndOfRun, Close, data, file, run, Procs
  <2>2. QED
    BY <1>1, <1>10, <2>1, LoopOpens, TimesKept, MergedKept DEF IInv
<1>11. CASE Merge
  BY <1>1, <1>11, LoopOpens, MergeTimes, MergeMerged DEF IInv
<1>12. CASE WriteState
  BY <1>1, <1>12, LoopOpens, WriteStateTimes, WriteStateMerged DEF IInv
<1>13. CASE Kill
  <2>1. times' = times /\ pc' \notin {"merge", "write"}
    BY <1>13 DEF Kill, data
  <2>2. QED
    BY <1>1, <1>13, <2>1, LoopOpens, TimesKept, KillMerged DEF IInv
<1>14. CASE UNCHANGED vars
  <2>1. /\ UNCHANGED <<file, told, data, loop, opens, pc, proc>> /\ Procs' = Procs
        /\ UNCHANGED <<written, ended, known, late, wait, stop, defined, states>>
    BY <1>14 DEF vars, run, file, told, opens, Procs
  <2>2. OpensInv'
    BY <1>1, <2>1 DEF OpensInv, Busy, Waiting
  <2>3. QED
    BY <1>1, <2>1, <2>2, RunTimes, RunMerged DEF IInv
<1>15. QED
  BY <1>2, <1>3, <1>4, <1>5, <1>6, <1>7, <1>8, <1>9, <1>10, <1>11, <1>12, <1>13, <1>14 DEF Next, Step

\* The n-th state of the combined family has the n-th state's time and, of every
\* processor, the data of its n-th state as it was when it was complete: for any
\* number of processors, however far each of them is while the combiner waits, and
\* however often a combiner is killed, runs out of patience or appends to what
\* another left.  It holds for what the combiner was made for: without -wait the
\* run has ended; with it, no processor's family is behind the first when it is
\* opened, no state is named to stop at, and a family to append to has states.
THEOREM StatesInOrder ==
    ASSUME MadeFor
    PROVE  Spec => []StatesCombined
<1>1. Init => IInv
  BY InitInv
<1>2. IInv /\ [Next]_vars => IInv'
  BY NextInv
<1>3. IInv => StatesCombined
  BY DEF IInv, MergedInv, StatesCombined
<1>4. QED
  BY <1>1, <1>2, <1>3, PTL DEF Spec

===============================================================================
