---------------------------- MODULE StateArchive ----------------------------
(***************************************************************************)
(* What the state-data branch of a Mili family promises its application: a *)
(* log of states that grows at its end, one state being written at a time, *)
(* that a restart cuts back to a prefix, and that outlives the process.    *)
(* States are named by their times.                                        *)
(*                                                                         *)
(* The promise about a process that dies differs: the state being written  *)
(* is always lost; a map in a T-file may lose the last ended state too.    *)
(***************************************************************************)
EXTENDS Naturals, Sequences

CONSTANT LosesLast    \* a dying process may lose the last state of the log

VARIABLES log,        \* the states that have been ended, in order
          current     \* the state being written, or None

None == 0

Init == log = << >> /\ current = None

Ended == IF current = None THEN log ELSE Append(log, current)

\* mc_new_state: an application that starts a state has ended the one before.
Begin == /\ current' \in Nat \ {None}
         /\ log' = Ended

\* mc_end_state and mc_close
End == /\ current # None
       /\ log' = Ended
       /\ current' = None

\* mc_restart_at_state, mc_restart_at_file
Restart(i) == /\ current = None
              /\ log' = SubSeq(log, 1, i)
              /\ UNCHANGED current

\* The process dies.
Fail == /\ \/ log' = log
           \/ LosesLast /\ log # << >> /\ log' = SubSeq(log, 1, Len(log) - 1)
        /\ current' = None

Next == \/ Begin
        \/ End
        \/ \E i \in 0..Len(log) : Restart(i)
        \/ Fail

Spec == Init /\ [][Next]_<<log, current>>
=============================================================================
