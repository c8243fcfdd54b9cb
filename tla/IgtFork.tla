------------------------------- MODULE IgtFork -------------------------------
(***************************************************************************)
(* The processes of a test with subtests (fork support and exit handlers,  *)
(* lib/igt_core.c): children of igt_fork(), which a subtest waits for and  *)
(* whose failure is its failure, and helpers of igt_fork_helper(), which   *)
(* go on until they are stopped, and may outlast the subtest.              *)
(*                                                                         *)
(* wait() collects children and helpers alike.  A process that ended is    *)
(* known by its wait status: "ok" and "fail" are exits, the others deaths  *)
(* by a signal: "signal" from outside, "alarm" and "stray" by the SIGKILL  *)
(* of the alarm or of a process that went astray, "killed" by the one of   *)
(* the main process, for a failure of another child or with the subtest.   *)
(***************************************************************************)
EXTENDS Integers, Sequences, FiniteSets

CONSTANTS
  Helpers,      \* the igt_helper_process records of the test
  MaxHelpers,   \* the length of helper_process_pids, 4 in the code
  MaxChildren,  \* bound: children of a subtest
  MaxForks,     \* bound: processes forked
  MaxSubtests   \* bound: subtests of the test

ASSUME IgtForkAssumption ==
  /\ MaxHelpers \in Nat \ {0} /\ MaxChildren \in Nat /\ MaxForks \in Nat /\ MaxSubtests \in Nat
  /\ IsFiniteSet(Helpers)

Pids == 1..MaxForks
None == 0             \* no process, -1 in the code

VARIABLES
  pc,        \* what the main process does: "outside" or in a "subtest", "waiting",
             \* in exit_subtest(), in the exit "handlers", "exited"
  subtests,  \* bound: subtests begun
  children,  \* test_children[], num_test_children long
  count, err,              \* of __igt_waitchildren()
  alarm,                   \* the alarm of igt_waitchildren_timeout() is pending
  helper,                  \* the records: pid, or None if not running, and id
  helper_process_pids, helper_process_count,
  handlers,                \* exit_handler_fn, in the order they were installed
  left,                    \* num_test_children in children_exit_handler()
  state,     \* of each process: "none", "running", "zombie", "gone"; "rogue": see Strays
  status,    \* its wait status, once it is a zombie
  inherited  \* the test_children[] it was forked with

main  == <<pc, subtests, children, count, err, alarm>>
help  == <<helper, helper_process_pids, helper_process_count>>
procs == <<state, status, inherited>>
vars  == <<main, help, handlers, left, procs>>

Elements(s) == {s[i] : i \in DOMAIN s}
Alive(p)    == state[p] \in {"running", "rogue"}

\* kill() and waitpid() of the processes in set: those that ended keep their status.
KillAll(set, how) ==
  /\ state'  = [p \in Pids |-> IF p \in set /\ Alive(p) THEN "zombie" ELSE state[p]]
  /\ status' = [p \in Pids |-> IF p \in set /\ Alive(p) THEN how ELSE status[p]]
KillAndReap(set) ==
  /\ state'  = [p \in Pids |-> IF p \in set THEN "gone" ELSE state[p]]
  /\ status' = [p \in Pids |-> IF p \in set /\ Alive(p) THEN "killed" ELSE status[p]]

(***************************************************************************)
(* Forking.                                                                *)
(***************************************************************************)
Install(handler) ==
  handlers' = IF handler \in Elements(handlers) THEN handlers ELSE Append(handlers, handler)

Start(p) ==
  /\ state[p] = "none" /\ \A q \in Pids : q < p => state[q] # "none"
  /\ state' = [state EXCEPT ![p] = "running"]
  /\ inherited' = [inherited EXCEPT ![p] = children]
  /\ UNCHANGED status

\* A failed assertion raises SIGABRT, whose handler runs the exit handlers.
Exits == pc' = "handlers" /\ left' = Len(children)

__igt_fork(p) ==
  /\ pc = "subtest" /\ Len(children) < MaxChildren
  /\ Start(p) /\ children' = Append(children, p)
  /\ Install("children")
  /\ UNCHANGED <<pc, subtests, count, err, alarm, help, left>>

\* The first slot is taken.
FirstSlot(id) ==
  id = 1

FreeSlot(id) ==
  /\ helper_process_pids[id] = None
  /\ \A i \in 1..MaxHelpers : i < id => helper_process_pids[i] # None

__igt_fork_helper(h, p) ==
  /\ pc \in {"outside", "subtest"}
  /\ helper[h].pid = None /\ helper_process_count < MaxHelpers
  /\ Start(p) /\ Install("helpers")
  /\ \E id \in 1..MaxHelpers :
        /\ FreeSlot(id)
        /\ helper' = [helper EXCEPT ![h] = [pid |-> p, id |-> id]]
        /\ helper_process_pids' = [helper_process_pids EXCEPT ![id] = p]
  /\ helper_process_count' = helper_process_count + 1
  /\ UNCHANGED <<main, left>>

\* assert(!proc->running), and the assertion on the number of helpers.
ForkHelperFails(h) ==
  /\ pc \in {"outside", "subtest"}
  /\ helper[h].pid # None \/ helper_process_count = MaxHelpers
  /\ Exits
  /\ UNCHANGED <<subtests, children, count, err, alarm, help, handlers, procs>>

(***************************************************************************)
(* Helpers are joined or stopped.                                          *)
(***************************************************************************)
\* A helper that is stopped is counted off twice.
ReleaseTwice(h) ==
  /\ helper' = [helper EXCEPT ![h].pid = None]
  /\ helper_process_pids' = [helper_process_pids EXCEPT ![helper[h].id] = None]
  /\ helper_process_count' = helper_process_count - 2

Release(h) ==
  /\ helper' = [helper EXCEPT ![h].pid = None]
  /\ helper_process_pids' = [helper_process_pids EXCEPT ![helper[h].id] = None]
  /\ helper_process_count' = helper_process_count - 1

igt_wait_helper(h) ==
  /\ pc \in {"outside", "subtest"}
  /\ helper[h].pid # None /\ ~Alive(helper[h].pid)
  /\ state' = [state EXCEPT ![helper[h].pid] = "gone"]
  /\ Release(h)
  /\ UNCHANGED <<main, handlers, left, status, inherited>>

\* The assertion that the helper was alive comes last.
igt_stop_helper(h) ==
  /\ pc \in {"outside", "subtest"} /\ helper[h].pid # None
  /\ KillAndReap({helper[h].pid}) /\ Release(h)
  /\ IF Alive(helper[h].pid) THEN UNCHANGED <<pc, left>> ELSE Exits
  /\ UNCHANGED <<subtests, children, count, err, alarm, handlers, inherited>>

(***************************************************************************)
(* Waiting for the children.                                               *)
(***************************************************************************)
igt_waitchildren(timeout) ==
  /\ pc = "subtest" /\ pc' = "waiting"
  /\ count' = 0 /\ err' = "ok" /\ alarm' = timeout
  /\ UNCHANGED <<subtests, children, help, handlers, left, procs>>

\* Helpers are counted as children.
CollectAny(p) ==
  /\ pc = "waiting" /\ count < Len(children) /\ state[p] = "zombie"
  /\ LET ours  == p \in Elements(children)
         first == ours /\ err = "ok" /\ status[p] # "ok"
     IN /\ count' = count + 1
        /\ err'   = IF first THEN status[p] ELSE err
        /\ state' = [q \in Pids |->
             CASE q = p -> "gone"
               [] q # p /\ first /\ q \in Elements(children) /\ Alive(q) -> "zombie"
               [] OTHER -> state[q]]
        /\ status' = [q \in Pids |->
             IF q # p /\ first /\ q \in Elements(children) /\ Alive(q) THEN "killed" ELSE status[q]]
  /\ UNCHANGED <<pc, subtests, children, alarm, help, handlers, left, inherited>>

\* A child that succeeds makes the failures before it forgotten.
CollectForgets(p) ==
  /\ pc = "waiting" /\ count < Len(children) /\ state[p] = "zombie"
  /\ LET ours  == p \in Elements(children)
         first == ours /\ err = "ok" /\ status[p] # "ok"
     IN /\ count' = IF ours THEN count + 1 ELSE count
        /\ err'   = CASE first -> status[p] [] ours /\ status[p] = "ok" -> "ok" [] OTHER -> err
        /\ state' = [q \in Pids |->
             CASE q = p -> "gone"
               [] q # p /\ first /\ q \in Elements(children) /\ Alive(q) -> "zombie"
               [] OTHER -> state[q]]
        /\ status' = [q \in Pids |->
             IF q # p /\ first /\ q \in Elements(children) /\ Alive(q) THEN "killed" ELSE status[q]]
  /\ UNCHANGED <<pc, subtests, children, alarm, help, handlers, left, inherited>>

\* Each failure takes the place of the one before.
CollectEach(p) ==
  /\ pc = "waiting" /\ count < Len(children) /\ state[p] = "zombie"
  /\ LET ours  == p \in Elements(children)
         first == ours /\ status[p] # "ok"
     IN /\ count' = IF ours THEN count + 1 ELSE count
        /\ err'   = IF first THEN status[p] ELSE err
        /\ state' = [q \in Pids |->
             CASE q = p -> "gone"
               [] q # p /\ first /\ q \in Elements(children) /\ Alive(q) -> "zombie"
               [] OTHER -> state[q]]
        /\ status' = [q \in Pids |->
             IF q # p /\ first /\ q \in Elements(children) /\ Alive(q) THEN "killed" ELSE status[q]]
  /\ UNCHANGED <<pc, subtests, children, alarm, help, handlers, left, inherited>>

\* wait() returned p.
Collect(p) ==
  /\ pc = "waiting" /\ count < Len(children) /\ state[p] = "zombie"
  /\ LET ours  == p \in Elements(children)
         first == ours /\ err = "ok" /\ status[p] # "ok"
     IN /\ count' = IF ours THEN count + 1 ELSE count
        /\ err'   = IF first THEN status[p] ELSE err
        /\ state' = [q \in Pids |->
             CASE q = p -> "gone"
               [] q # p /\ first /\ q \in Elements(children) /\ Alive(q) -> "zombie"
               [] OTHER -> state[q]]
        /\ status' = [q \in Pids |->
             IF q # p /\ first /\ q \in Elements(children) /\ Alive(q) THEN "killed" ELSE status[q]]
  /\ UNCHANGED <<pc, subtests, children, alarm, help, handlers, left, inherited>>

\* The alarm kills nobody.
igt_alarm_ignored ==
  /\ pc = "waiting" /\ alarm /\ alarm' = FALSE
  /\ KillAll({}, "alarm")
  /\ UNCHANGED <<pc, subtests, children, count, err, help, handlers, left, inherited>>

igt_alarm_killchildren ==
  /\ pc = "waiting" /\ alarm /\ alarm' = FALSE
  /\ KillAll(Elements(children), "alarm")
  /\ UNCHANGED <<pc, subtests, children, count, err, help, handlers, left, inherited>>

\* A failure of a child goes on as igt_fail(), and exit_subtest().
Waited ==
  /\ pc = "waiting" /\ count = Len(children)
  /\ children' = <<>> /\ alarm' = FALSE
  /\ pc' = IF err = "ok" THEN "subtest" ELSE "exit_subtest"
  /\ UNCHANGED <<subtests, count, err, help, handlers, left, procs>>

(***************************************************************************)
(* Subtests.                                                               *)
(***************************************************************************)
BeginSubtest ==
  /\ pc = "outside" /\ subtests < MaxSubtests
  /\ pc' = "subtest" /\ subtests' = subtests + 1
  /\ UNCHANGED <<children, count, err, alarm, help, handlers, left, procs>>

\* Success, skip, failure or crash, with or without children.
EndSubtest ==
  /\ pc = "subtest" /\ pc' = "exit_subtest"
  /\ UNCHANGED <<subtests, children, count, err, alarm, help, handlers, left, procs>>

\* The children are left behind.
exit_subtest_leaves ==
  /\ pc = "exit_subtest" /\ pc' = "outside"
  /\ KillAndReap({}) /\ children' = <<>>
  /\ UNCHANGED <<subtests, count, err, alarm, help, handlers, left, inherited>>

\* exit_subtest(): "If the subtest aborted, it may have left children behind".
exit_subtest ==
  /\ pc = "exit_subtest" /\ pc' = "outside"
  /\ KillAndReap(Elements(children)) /\ children' = <<>>
  /\ UNCHANGED <<subtests, count, err, alarm, help, handlers, left, inherited>>

(***************************************************************************)
(* The test ends.                                                          *)
(***************************************************************************)
\* igt_exit(), whose assertion that no process is left may fail; a signal that is no
\* crash.  Either way the exit handlers run.
igt_exit ==
  /\ pc = "outside" /\ Exits
  /\ UNCHANGED <<subtests, children, count, err, alarm, help, handlers, procs>>

Signal ==
  /\ pc \in {"outside", "subtest", "waiting"} /\ Exits
  /\ UNCHANGED <<subtests, children, count, err, alarm, help, handlers, procs>>

__igt_abort ==
  /\ pc \in {"outside", "subtest"} /\ Exits
  /\ KillAll(Elements(children), "killed")
  /\ UNCHANGED <<subtests, children, count, err, alarm, help, handlers, inherited>>

LastHandler(handler) == pc = "handlers" /\ handlers # <<>> /\ handlers[Len(handlers)] = handler
HandlerDone == handlers' = SubSeq(handlers, 1, Len(handlers) - 1)

\* while (num_test_children-- && wait(&status)): any process counts, and so does a
\* wait() that finds none.
children_exit_handler ==
  /\ LastHandler("children")
  /\ IF left = 0
     THEN HandlerDone /\ UNCHANGED <<left, state>>
     ELSE /\ left' = left - 1 /\ UNCHANGED handlers
          /\ \/ \E p \in Pids : state[p] = "zombie" /\ state' = [state EXCEPT ![p] = "gone"]
             \/ (\A p \in Pids : state[p] \in {"none", "gone"}) /\ UNCHANGED state
  /\ UNCHANGED <<main, help, status, inherited>>

\* The handler looks at as many slots as there are helpers.
exit_handler_up_to_count ==
  /\ LastHandler("helpers") /\ HandlerDone
  /\ KillAndReap({helper_process_pids[i] : i \in 1..helper_process_count} \ {None})
  /\ helper_process_count' =
       helper_process_count - Cardinality({i \in 1..MaxHelpers : helper_process_pids[i] # None})
  /\ UNCHANGED <<main, helper, helper_process_pids, left, inherited>>

fork_helper_exit_handler ==
  /\ LastHandler("helpers") /\ HandlerDone
  /\ KillAndReap(Elements(helper_process_pids) \ {None})
  /\ helper_process_count' =
       helper_process_count - Cardinality({i \in 1..MaxHelpers : helper_process_pids[i] # None})
  /\ UNCHANGED <<main, helper, helper_process_pids, left, inherited>>

Exit ==
  /\ pc = "handlers" /\ handlers = <<>> /\ pc' = "exited"
  /\ UNCHANGED <<subtests, children, count, err, alarm, help, handlers, left, procs>>

(***************************************************************************)
(* The other processes.                                                    *)
(***************************************************************************)
Ends(p, how) ==
  /\ state[p] = "running"
  /\ state' = [state EXCEPT ![p] = "zombie"] /\ status' = [status EXCEPT ![p] = how]
  /\ UNCHANGED <<main, help, handlers, left, inherited>>

\* A child with a crash signal, or a helper with a failed assertion, runs
\* exit_subtest() of the test it was forked from: it reports the subtest, kills the
\* children it knows of, and goes on with the program (what it does there is left out).
Strays(p) ==
  /\ state[p] = "running"
  /\ LET known == {q \in Elements(inherited[p]) : Alive(q)}
     IN /\ state'  = [q \in Pids |-> IF q = p THEN "rogue" ELSE IF q \in known THEN "zombie" ELSE state[q]]
        /\ status' = [q \in Pids |-> IF q \in known THEN "stray" ELSE status[q]]
  /\ UNCHANGED <<main, help, handlers, left, inherited>>

\* igt_exit() there: it has failed.
RogueEnds(p) ==
  /\ state[p] = "rogue"
  /\ state' = [state EXCEPT ![p] = "zombie"] /\ status' = [status EXCEPT ![p] = "fail"]
  /\ UNCHANGED <<main, help, handlers, left, inherited>>

Init ==
  /\ pc = "outside" /\ subtests = 0 /\ children = <<>> /\ count = 0 /\ err = "ok" /\ alarm = FALSE
  /\ helper = [h \in Helpers |-> [pid |-> None, id |-> 1]]
  /\ helper_process_pids = [i \in 1..MaxHelpers |-> None] /\ helper_process_count = 0
  /\ handlers = <<>> /\ left = 0
  /\ state = [p \in Pids |-> "none"] /\ status = [p \in Pids |-> "ok"]
  /\ inherited = [p \in Pids |-> <<>>]

MainStep ==
  \/ BeginSubtest \/ EndSubtest \/ exit_subtest \/ igt_exit \/ Signal \/ __igt_abort
  \/ (\E timeout \in BOOLEAN : igt_waitchildren(timeout)) \/ Waited
  \/ (\E h \in Helpers : igt_wait_helper(h) \/ igt_stop_helper(h) \/ ForkHelperFails(h))
  \/ children_exit_handler \/ fork_helper_exit_handler \/ Exit

ProcessStep ==
  \E p \in Pids :
     \/ __igt_fork(p) \/ (\E h \in Helpers : __igt_fork_helper(h, p))
     \/ Collect(p) \/ Strays(p) \/ RogueEnds(p)
     \/ \E how \in {"ok", "fail", "signal"} : Ends(p, how)

Done == pc = "exited" /\ UNCHANGED vars
Next == MainStep \/ ProcessStep \/ igt_alarm_killchildren \/ Done

\* The kernel delivers the alarm, and the main process goes on when wait() can return.
\* Nothing is assumed of the children: they may hang.
Fairness ==
  /\ WF_vars(igt_alarm_killchildren) /\ WF_vars(\E p \in Pids : Collect(p)) /\ WF_vars(Waited)
Spec == Init /\ [][Next]_vars /\ Fairness

(***************************************************************************)
(* Properties.                                                             *)
(***************************************************************************)
TypeOK ==
  /\ pc \in {"outside", "subtest", "waiting", "exit_subtest", "handlers", "exited"}
  /\ subtests \in 0..MaxSubtests
  /\ children \in Seq(Pids) /\ Len(children) <= MaxChildren
  /\ count \in 0..MaxChildren /\ err \in {"ok", "fail", "signal", "alarm", "stray", "killed"} /\ alarm \in BOOLEAN
  /\ helper \in [Helpers -> [pid : Pids \cup {None}, id : 1..MaxHelpers]]
  /\ helper_process_pids \in [1..MaxHelpers -> Pids \cup {None}]
  /\ helper_process_count \in 0..MaxHelpers
  /\ handlers \in Seq({"children", "helpers"}) /\ left \in 0..MaxChildren
  /\ state \in [Pids -> {"none", "running", "rogue", "zombie", "gone"}]
  /\ status \in [Pids -> {"ok", "fail", "signal", "alarm", "stray", "killed"}]
  /\ inherited \in [Pids -> Seq(Pids)]

HelperPids == Elements(helper_process_pids) \ {None}

\* No child outlives its subtest, however the subtest ended: waited for, failed in the
\* middle of forking, or left without waiting (lib/tests/igt_fork.c, subtest_leak()).
\* A process left outside of a subtest is a helper.
NoChildOutlives ==
  pc = "outside" => children = <<>> /\ \A p \in Pids : Alive(p) => \E h \in Helpers : helper[h].pid = p

\* __igt_waitchildren() counts its children only, though wait() returns helpers as well:
\* while it waits there is a child it has not collected, so wait() does not fail, and it
\* does not leave before the last one.
CountsChildren ==
  pc = "waiting" => count = Cardinality({p \in Elements(children) : state[p] = "gone"})

\* igt_waitchildren() succeeds only if every child ended with success.
WaitTellsTheTruth ==
  pc = "waiting" /\ err = "ok" =>
    \A p \in Elements(children) : state[p] = "gone" => status[p] = "ok"

\* The error of igt_waitchildren() is one of a child that failed by itself, or that an
\* alarm or a stray process killed: never of a child that was killed for the first one.
ErrorIsTheCause == pc = "waiting" => err # "killed"

\* In all: igt_waitchildren() waits for all children, no others, and is right about them.
WaitIsRight == CountsChildren /\ WaitTellsTheTruth /\ ErrorIsTheCause

\* The slots of the helpers and their number agree with the records, so that a helper
\* that is stopped or joined never frees the slot of another, and the exit handler's
\* assertion that none is left holds.
SlotsAgree ==
  /\ \A h \in Helpers : helper[h].pid # None => helper_process_pids[helper[h].id] = helper[h].pid
  /\ pc \notin {"handlers", "exited"} =>
       helper_process_count = Cardinality({h \in Helpers : helper[h].pid # None})
  /\ pc = "exited" => helper_process_count = 0

\* No helper outlives the test, in whatever place it ended.
HelpersEndWithTheTest == pc = "exited" => \A p \in HelperPids : ~Alive(p)

\* In all: each helper has a slot until it is stopped, which is at the end of the test at last.
HelpersAreKept == SlotsAgree /\ HelpersEndWithTheTest

\* igt_waitchildren() comes to its end if it has an alarm or one of the children failed,
\* though the others may hang.
WaitEnds == (pc = "waiting" /\ (alarm \/ err # "ok")) ~> (pc # "waiting")
=============================================================================
