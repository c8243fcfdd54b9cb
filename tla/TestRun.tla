------------------------------ MODULE TestRun ------------------------------
(***************************************************************************)
(* What monitor_output() promises to execute(), whatever the test does: the*)
(* completion verdict of a test is written at most once and never after    *)
(* the run was stopped, and the value returned tells the caller which      *)
(* verdict it may count on when it decides to go on, to resume from disk   *)
(* or to give up.                                                          *)
(***************************************************************************)
VARIABLES
  verdict,  \* the completion marker on disk: "none", "exit" or "timeout"
  stopped,  \* the run is being aborted
  outcome   \* what the caller was told: "none" while the test is watched

vars == <<verdict, stopped, outcome>>

Init == verdict = "none" /\ stopped = FALSE /\ outcome = "none"

\* The test has ended; it may ask for the run to end with it.
Complete ==
  /\ outcome = "none" /\ verdict = "none" /\ ~stopped
  /\ verdict' \in {"exit", "timeout"}
  /\ stopped' \in BOOLEAN
  /\ UNCHANGED outcome

\* A signal to the runner, or an abort condition of the kernel.
Stop ==
  /\ outcome = "none" /\ ~stopped
  /\ stopped' = TRUE
  /\ UNCHANGED <<verdict, outcome>>

Succeed == ~stopped /\ verdict = "exit" /\ outcome' = "ok"
Resume  == ~stopped /\ verdict # "none" /\ outcome' = "killed"
Fail    == outcome' \in {"error", "dead"}

Tell ==
  /\ outcome = "none"
  /\ Succeed \/ Resume \/ Fail
  /\ UNCHANGED <<verdict, stopped>>

Next == Complete \/ Stop \/ Tell

Spec == Init /\ [][Next]_vars
=============================================================================
