----------------------------- MODULE EachOnce ------------------------------
(***************************************************************************)
(* What execute() promises of a run of the job list, across timeouts,      *)
(* crashes and resumes: the entries are taken in the order of the list,    *)
(* and no subtest of an entry is begun a second time.                      *)
(***************************************************************************)
EXTENDS Naturals

CONSTANTS Slots, Subtests

VARIABLE ran  \* how often each subtest of each entry was begun

Nothing == [i \in Slots |-> [s \in Subtests |-> 0]]

Init == ran = Nothing

Begin(i, s) ==
  /\ ran[i][s] = 0
  /\ \A j \in Slots, t \in Subtests : j > i => ran[j][t] = 0
  /\ ran' = [ran EXCEPT ![i][s] = 1]

\* A new run is started in the results directory.
NewRun == ran' = Nothing

Next == NewRun \/ \E i \in Slots, s \in Subtests : Begin(i, s)

Spec == Init /\ [][Next]_ran
=============================================================================
