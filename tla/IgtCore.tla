------------------------------- MODULE IgtCore -------------------------------
(***************************************************************************)
(* A test with subtests (lib/igt_core.c) and what igt_runner makes of the  *)
(* results it sends: fixtures, groups, subtests and dynamic subtests that  *)
(* succeed, skip, fail, crash or abort; the packets of it, joined by those *)
(* of the monitor and of execute(), as fill_from_comms() reads them.       *)
(*                                                                         *)
(* The body of the test is its environment: any subtest may end in any way *)
(* igt_core.h allows.  The packets pass through the socket and the monitor *)
(* in order (module Monitor has the interleavings), so the dump is what    *)
(* was sent; context is what the parser has made of it so far.             *)
(***************************************************************************)
EXTENDS CommsParse, FiniteSets

CONSTANTS
  Containers,      \* the subtests that consist of dynamic subtests
  Streams,         \* the streams lines are logged to
  MaxFixtures,     \* bound: fixtures of the program
  MaxLines,        \* bound: lines logged by the test
  MaxFailures,     \* bound: failures in threads of the test
  MaxResumes,      \* bound: crashes of the machine after which the test is resumed
  MaxTogether      \* bound: fixtures, lines, failures and resumptions together

ASSUME IgtCoreAssumption ==
  /\ MaxFixtures \in Nat /\ MaxLines \in Nat /\ MaxFailures \in Nat /\ MaxResumes \in Nat
  /\ MaxTogether \in Nat /\ MaxDynamics \in Nat
  /\ Subtests \in Seq(Names) /\ Containers \subseteq Names /\ Streams \subseteq {"out", "err"}
  /\ \A i, j \in DOMAIN Subtests : Subtests[i] = Subtests[j] => i = j  \* igt_command_line.sh
  /\ EntryFirst \in Names \cup {None}
  /\ None \notin Names \cup Dynamics \cup {Binary} \cup Results \cup (1..MaxDynamics)
  /\ Binary \notin Names \cup Dynamics /\ Names \cap Dynamics = {}

VARIABLES
  pc,                  \* "off", "running", "exited": the process of the test
  exitcode,            \* igt_exitcode, or how the process ended
  found,               \* run_single_subtest_found, or no selection of subtests
  todo,                \* the places of the subtests the program still has to come to
  fixtures, lines, failures,   \* bounds: fixtures entered, lines logged, failed threads
  in_fixture, in_subtest, in_dynamic_subtest,
  executed,            \* _igt_dynamic_tests_executed
  entered,             \* dynamic subtests entered in this subtest
  henceforth,          \* skip_subtests_henceforth: "no", "SKIP" or "FAIL"
  saved,               \* of the group the program is in, or "none"
  skipped_one, succeeded_one, failed_one, dynamic_failed_one,
  thread_failed,       \* __thread_failed
  suspects,            \* observer: where a thread failed
  said,                \* observer: the result the test sent last, for each name
  aborting, results_received,    \* of the monitor
  reaped,              \* the monitor has returned
  begun,               \* the subtests whose start is in the dump
  resumes,             \* the resumptions so far
  context              \* fill_from_comms() after the packets so far

place  == <<in_fixture, in_subtest, in_dynamic_subtest>>
flags  == <<skipped_one, succeeded_one, failed_one, dynamic_failed_one>>
threads == <<thread_failed, suspects, said>>
groups == <<henceforth, saved>>
bounds == <<fixtures, lines, failures, resumes>>
process == <<pc, exitcode, found, todo>>
vars   == <<process, place, executed, entered, groups, flags, threads, bounds,
            aborting, results_received, reaped, begun, context>>

(***************************************************************************)
(* Sending a packet.  Before the monitor writes the start of a (dynamic)   *)
(* subtest it may find that the one before caused an abort condition.      *)
(***************************************************************************)
Write(p) == context' = Handle(context, p)

Send(p) ==
  /\ Write(p)
  /\ results_received' = (results_received \/ p.type \in {"subtest result", "dynamic result"})
  /\ UNCHANGED <<aborting, reaped>>

\* The abort is recorded before every start.
AbortBeforeEach(p) ==
  /\ results_received /\ aborting' = TRUE
  /\ context' = Handle(Handle(context, OverridePacket("abort")), p)
  /\ UNCHANGED <<results_received, reaped>>

\* The same, but a start the abort is recorded before.
AbortBefore(p) ==
  /\ results_received /\ ~aborting /\ aborting' = TRUE
  /\ context' = Handle(Handle(context, OverridePacket("abort")), p)
  /\ UNCHANGED <<results_received, reaped>>

SendStart(p) == Send(p) \/ AbortBefore(p)

Silent == UNCHANGED <<aborting, results_received, reaped, begun, context>>

(***************************************************************************)
(* Fixtures and groups.                                                    *)
(***************************************************************************)
Running  == pc = "running"
Room     == fixtures + lines + failures + resumes < MaxTogether
Outside  == Running /\ ~in_fixture /\ in_subtest = None

Fixture ==
  /\ Outside /\ henceforth = "no" /\ Room /\ fixtures < MaxFixtures
  /\ in_fixture' = TRUE /\ fixtures' = fixtures + 1
  /\ UNCHANGED <<process, in_subtest, in_dynamic_subtest, executed, entered, groups, flags,
                 threads, lines, failures, resumes>> /\ Silent

FixtureComplete ==
  /\ Running /\ in_fixture /\ in_fixture' = FALSE
  /\ UNCHANGED <<process, in_subtest, in_dynamic_subtest, executed, entered, groups, flags,
                 threads, bounds>> /\ Silent

GroupSave ==
  /\ Outside /\ saved = "none" /\ todo # {}
  /\ saved' = henceforth
  /\ UNCHANGED <<process, place, executed, entered, henceforth, flags, threads, bounds>> /\ Silent

GroupRestore ==
  /\ Outside /\ saved # "none"
  /\ henceforth' = saved /\ saved' = "none"
  /\ UNCHANGED <<process, place, executed, entered, flags, threads, bounds>> /\ Silent

SkipFixture ==
  /\ Running /\ in_fixture
  /\ skipped_one' = TRUE /\ henceforth' = "SKIP" /\ in_fixture' = FALSE
  /\ UNCHANGED <<process, in_subtest, in_dynamic_subtest, executed, entered, saved, succeeded_one,
                 failed_one, dynamic_failed_one, threads, bounds>> /\ Silent

\* igt_fail() outside of dynamic subtests: the first failure gives the exit code.
NotesFailure(code) ==
  /\ failed_one' = TRUE
  /\ exitcode' = IF failed_one THEN exitcode ELSE code

FailFixture ==
  /\ Running /\ in_fixture
  /\ NotesFailure("failure") /\ henceforth' = "FAIL" /\ in_fixture' = FALSE
  /\ UNCHANGED <<pc, found, todo, in_subtest, in_dynamic_subtest, executed, entered, saved, skipped_one,
                 succeeded_one, dynamic_failed_one, threads, bounds>> /\ Silent

(***************************************************************************)
(* Subtests begin.                                                         *)
(***************************************************************************)
\* The program comes to the subtest at place i of it.
Comes(i) == Outside /\ i \in todo /\ (\A j \in todo : i <= j) /\ todo' = todo \ {i}

\* __igt_run_subtest() while subtests are skipped: a result without a start.
SkipSubtest(i) ==
  /\ Comes(i) /\ henceforth # "no"
  /\ Send(Packet("subtest result", Subtests[i], henceforth))
  /\ said' = [said EXCEPT ![Subtests[i]] = Mapped(henceforth)]
  /\ UNCHANGED <<pc, exitcode, found, place, executed, entered, groups, flags, thread_failed, suspects,
                 bounds, begun>>

\* __igt_run_subtest(), and __igt_enter_dynamic_container() if it is to have
\* dynamic subtests.
RunSubtest(i) ==
  /\ Comes(i) /\ henceforth = "no"
  /\ in_subtest' = Subtests[i]
  /\ SendStart(Packet("subtest start", Subtests[i], None))
  /\ begun' = begun \cup {Subtests[i]}
  /\ said' = [said EXCEPT ![Subtests[i]] = None]
  /\ thread_failed' = FALSE /\ entered' = 0
  /\ IF Subtests[i] \in Containers THEN executed' = 0 /\ dynamic_failed_one' = FALSE
     ELSE UNCHANGED <<executed, dynamic_failed_one>>
  /\ UNCHANGED <<pc, exitcode, found, in_fixture, in_dynamic_subtest, groups, skipped_one, succeeded_one,
                 failed_one, suspects, bounds>>

InContainer == in_subtest # None /\ in_dynamic_subtest = None /\ executed >= 0
Here        == IF in_dynamic_subtest # None THEN <<in_subtest, in_dynamic_subtest>> ELSE in_subtest

\* A dynamic subtest is not counted.
RunDynamicUncounted ==
  /\ Running /\ InContainer /\ entered < MaxDynamics
  /\ entered' = entered + 1 /\ executed' = executed /\ in_dynamic_subtest' = entered + 1
  /\ SendStart(Packet("dynamic start", entered + 1, None))
  /\ thread_failed' = FALSE
  /\ UNCHANGED <<process, in_fixture, in_subtest, groups, flags, suspects, said, bounds, begun>>

RunDynamic ==
  /\ Running /\ InContainer /\ entered < MaxDynamics
  /\ entered' = entered + 1 /\ executed' = executed + 1 /\ in_dynamic_subtest' = entered + 1
  /\ SendStart(Packet("dynamic start", entered + 1, None))
  /\ thread_failed' = FALSE
  /\ UNCHANGED <<process, in_fixture, in_subtest, groups, flags, suspects, said, bounds, begun>>

Log(stream) ==
  /\ Running /\ in_subtest # None /\ Room /\ lines < MaxLines
  /\ lines' = lines + 1
  /\ Send(LogPacket(stream, in_subtest))
  /\ UNCHANGED <<process, place, executed, entered, groups, flags, threads, fixtures, failures, resumes,
                 begun>>

\* igt_fail() in another thread than the main one.
ThreadFails ==
  /\ Running /\ in_subtest # None /\ Room /\ failures < MaxFailures
  /\ thread_failed' = TRUE /\ failures' = failures + 1
  /\ suspects' = IF InContainer THEN suspects ELSE suspects \cup {Here}
  /\ UNCHANGED <<process, place, executed, entered, groups, flags, said, fixtures, lines, resumes>> /\ Silent

(***************************************************************************)
(* Subtests end.                                                           *)
(***************************************************************************)
\* exit_subtest(): of the dynamic subtest if there is one.
ExitSubtest(result, count) ==
  /\ said' = [said EXCEPT ![Here] = Mapped(result)]
  /\ IF in_dynamic_subtest # None
     THEN /\ Send(Packet("dynamic result", in_dynamic_subtest, result))
          /\ in_dynamic_subtest' = None /\ executed' = count
          /\ UNCHANGED in_subtest
     ELSE /\ Send(Packet("subtest result", in_subtest, result))
          /\ in_subtest' = None /\ executed' = -1
          /\ UNCHANGED in_dynamic_subtest
  /\ UNCHANGED <<pc, found, todo, in_fixture, entered, groups, suspects, bounds, begun>>

\* igt_skip(): a skipped dynamic subtest does not count.
Skip ==
  /\ Running /\ in_subtest # None
  /\ skipped_one' = TRUE
  /\ ExitSubtest("SKIP", executed - 1)
  /\ UNCHANGED <<exitcode, succeeded_one, failed_one, dynamic_failed_one, thread_failed>>

\* igt_fail() in a subtest or dynamic subtest.
Fail ==
  /\ IF in_dynamic_subtest # None
     THEN dynamic_failed_one' = TRUE /\ UNCHANGED <<exitcode, failed_one>>
     ELSE NotesFailure("failure") /\ UNCHANGED dynamic_failed_one
  /\ ExitSubtest("FAIL", executed)
  /\ UNCHANGED <<skipped_one, succeeded_one>>

\* The process ends otherwise than by igt_exit(), in whatever place it is.
Dies(how) ==
  /\ pc' = "exited" /\ exitcode' = how
  /\ UNCHANGED <<found, todo, place, executed, entered, groups, flags, threads, bounds>>

\* An explicit failure; the containers of dynamic subtests have none.
Assert == Running /\ in_subtest # None /\ ~InContainer /\ Fail /\ UNCHANGED thread_failed

\* igt_success(), at the end of a block.
SuccessFailsForThread ==
  /\ Running /\ in_subtest # None /\ thread_failed
  /\ IF InContainer /\ ~dynamic_failed_one
     THEN Dies("signal") /\ Silent   \* "Dynamic subtest containers must not fail explicitly"
     ELSE Fail /\ thread_failed' = FALSE

SuccessFailsForDynamic ==
  /\ Running /\ InContainer /\ ~thread_failed /\ dynamic_failed_one
  /\ Fail /\ UNCHANGED thread_failed

SuccessSkips ==
  /\ Running /\ InContainer /\ ~thread_failed /\ ~dynamic_failed_one /\ executed = 0
  /\ Skip

\* igt_success() does not ask for failures of threads.
SuccessDespiteThread ==
  /\ Running /\ in_subtest # None
  /\ InContainer => ~dynamic_failed_one /\ executed # 0
  /\ succeeded_one' = (succeeded_one \/ in_dynamic_subtest = None)
  /\ ExitSubtest("SUCCESS", executed)
  /\ UNCHANGED <<exitcode, skipped_one, failed_one, dynamic_failed_one, thread_failed>>

\* igt_success() does not ask for failures of dynamic subtests.
SuccessDespiteDynamic ==
  /\ Running /\ in_subtest # None /\ ~thread_failed
  /\ InContainer => executed # 0
  /\ succeeded_one' = (succeeded_one \/ in_dynamic_subtest = None)
  /\ ExitSubtest("SUCCESS", executed)
  /\ UNCHANGED <<exitcode, skipped_one, failed_one, dynamic_failed_one, thread_failed>>

Success ==
  /\ Running /\ in_subtest # None /\ ~thread_failed
  /\ InContainer => ~dynamic_failed_one /\ executed # 0
  /\ succeeded_one' = (succeeded_one \/ in_dynamic_subtest = None)
  /\ ExitSubtest("SUCCESS", executed)
  /\ UNCHANGED <<exitcode, skipped_one, failed_one, dynamic_failed_one, thread_failed>>

\* fatal_sig_handler() with a signal of crash_signal(), in a subtest.
Crash ==
  /\ Running /\ in_subtest # None
  /\ NotesFailure("crash")
  /\ ExitSubtest("CRASH", executed)
  /\ UNCHANGED <<skipped_one, succeeded_one, dynamic_failed_one, thread_failed>>

(***************************************************************************)
(* The test ends.                                                          *)
(***************************************************************************)
\* The exit code of a failure is kept only if nothing succeeded.
igt_exitForgets ==
  /\ Outside /\ todo = {} /\ saved = "none"
  /\ Dies(CASE ~found -> "invalid"
            [] found /\ ~skipped_one /\ ~succeeded_one /\ ~failed_one -> "signal"  \* assert()
            [] found /\ failed_one /\ ~succeeded_one -> exitcode
            [] OTHER -> IF succeeded_one THEN "success" ELSE "skip")
  /\ Silent

igt_exit ==
  /\ Outside /\ todo = {} /\ saved = "none"
  /\ Dies(CASE ~found -> "invalid"
            [] found /\ ~skipped_one /\ ~succeeded_one /\ ~failed_one -> "signal"  \* assert()
            [] found /\ failed_one -> exitcode
            [] OTHER -> IF succeeded_one THEN "success" ELSE "skip")
  /\ Silent

\* igt_abort_on(); a signal that is no crash, or comes outside of subtests.
Abort  == Running /\ Dies("abort") /\ Silent
Killed == Running /\ Dies("signal") /\ Silent

(***************************************************************************)
(* The runner.                                                             *)
(***************************************************************************)
\* execute_test_process(): the first packet is the runner's, the next is the
\* version string of the test.
Exec(left) ==
  /\ Write(ExecPacket)
  /\ pc' = "running" /\ exitcode' = "success" /\ todo' = left
  /\ found' = (left # {})
  /\ in_fixture' = FALSE /\ in_subtest' = None /\ in_dynamic_subtest' = None
  /\ executed' = -1 /\ entered' = 0
  /\ henceforth' = "no" /\ saved' = "none"
  /\ skipped_one' = FALSE /\ succeeded_one' = FALSE /\ failed_one' = FALSE
  /\ dynamic_failed_one' = FALSE /\ thread_failed' = FALSE
  /\ aborting' = FALSE /\ results_received' = FALSE
  /\ UNCHANGED <<fixtures, lines, failures, suspects, said, reaped, begun>>

Start == pc = "off" /\ Exec(DOMAIN Subtests) /\ UNCHANGED resumes

\* SIGHUP: the current test is to be a notrun; the test is killed soon.
Interrupt ==
  /\ Running /\ ~aborting /\ aborting' = TRUE
  /\ Write(OverridePacket("notrun"))
  /\ UNCHANGED <<process, place, executed, entered, groups, flags, threads, bounds,
                 results_received, reaped, begun>>

\* The SIGCHLD of the test.  It may have been killed for a timeout, before or just
\* after it came to its own end.
Reap(timeout) ==
  /\ pc = "exited" /\ ~reaped /\ reaped' = TRUE
  /\ IF aborting THEN ~timeout /\ UNCHANGED context
     ELSE LET c == IF timeout THEN Handle(context, OverridePacket("timeout")) ELSE context
          IN context' = Handle(c, ExitPacket(exitcode))
  /\ UNCHANGED <<process, place, executed, entered, groups, flags, threads, bounds,
                 aborting, results_received, begun>>

\* execute(): the test caused an abort condition, and it is not recorded yet.
AbortAfter ==
  /\ reaped /\ ~aborting /\ aborting' = TRUE
  /\ Write(OverridePacket("abort"))
  /\ UNCHANGED <<process, place, executed, entered, groups, flags, threads, bounds,
                 results_received, reaped, begun>>

\* The machine crashes or the runner is stopped, and igt_resume goes on with the
\* subtests that did not begin, in the same directory.  (As execute() is, that takes
\* a directory without a journal.txt: see RemainingSubtestsRun of module Executor.)
Resume ==
  /\ pc # "off" /\ ~reaped /\ begun # {} /\ Room /\ resumes < MaxResumes
  /\ Exec({i \in DOMAIN Subtests : Subtests[i] \notin begun})
  /\ resumes' = resumes + 1

Done == reaped /\ UNCHANGED vars

Init ==
  /\ pc = "off" /\ exitcode = "success" /\ todo = {} /\ found = TRUE
  /\ in_fixture = FALSE /\ in_subtest = None /\ in_dynamic_subtest = None
  /\ executed = -1 /\ entered = 0 /\ fixtures = 0 /\ lines = 0 /\ failures = 0 /\ resumes = 0
  /\ henceforth = "no" /\ saved = "none"
  /\ skipped_one = FALSE /\ succeeded_one = FALSE /\ failed_one = FALSE
  /\ dynamic_failed_one = FALSE /\ thread_failed = FALSE /\ suspects = {}
  /\ said = [n \in Names \cup Dynamics |-> None]
  /\ aborting = FALSE /\ results_received = FALSE /\ reaped = FALSE /\ begun = {}
  /\ context = NewContext

TestStep ==
  \/ Fixture \/ FixtureComplete \/ SkipFixture \/ FailFixture \/ GroupSave \/ GroupRestore
  \/ (\E i \in DOMAIN Subtests : SkipSubtest(i) \/ RunSubtest(i)) \/ RunDynamic
  \/ (\E stream \in Streams : Log(stream)) \/ ThreadFails
  \/ (Running /\ in_subtest # None /\ Skip) \/ Assert \/ Success \/ SuccessSkips
  \/ SuccessFailsForThread \/ SuccessFailsForDynamic \/ Crash
  \/ igt_exit \/ Abort \/ Killed

RunnerStep ==
  \/ Start \/ Interrupt \/ (\E timeout \in BOOLEAN : Reap(timeout)) \/ AbortAfter \/ Resume

Next == TestStep \/ RunnerStep \/ Done
Spec == Init /\ [][Next]_vars

(***************************************************************************)
(* Properties.                                                             *)
(***************************************************************************)
report == Report(context)

TypeOK ==
  /\ pc \in {"off", "running", "exited"} /\ found \in BOOLEAN
  /\ exitcode \in {"success", "skip", "failure", "crash", "abort", "signal", "invalid"}
  /\ todo \subseteq DOMAIN Subtests /\ begun \subseteq Names
  /\ in_fixture \in BOOLEAN /\ in_subtest \in Names \cup {None}
  /\ in_dynamic_subtest \in 1..MaxDynamics \cup {None}
  /\ in_fixture => in_subtest = None
  /\ in_dynamic_subtest # None => in_subtest # None /\ executed >= 1
  /\ in_subtest = None => executed = -1
  /\ executed \in -1..MaxDynamics /\ entered \in 0..MaxDynamics /\ executed <= entered
  /\ fixtures \in 0..MaxFixtures /\ lines \in 0..MaxLines /\ failures \in 0..MaxFailures
  /\ resumes \in 0..MaxResumes
  /\ henceforth \in {"no", "SKIP", "FAIL"} /\ saved \in {"none", "no", "SKIP", "FAIL"}
  /\ skipped_one \in BOOLEAN /\ succeeded_one \in BOOLEAN /\ failed_one \in BOOLEAN
  /\ dynamic_failed_one \in BOOLEAN /\ thread_failed \in BOOLEAN
  /\ suspects \subseteq Names \cup Dynamics /\ said \in [Names \cup Dynamics -> Results \cup {None}]
  /\ aborting \in BOOLEAN /\ results_received \in BOOLEAN /\ reaped \in BOOLEAN
  /\ context.results \in [Names \cup Dynamics \cup {Binary} -> Results \cup {None}]

\* fill_from_comms() reads every dump to its end: no packet the test, the monitor and
\* execute() can send, in the orders they can send them, makes a handler refuse it or
\* an assertion fail; not after a result without a start, an abort in a subtest, or a
\* dump that a resumed test goes on with.
DumpIsRead == context.state \notin {"error", "assertion"}

\* The report gives each subtest and dynamic subtest the result the test itself sent for
\* it, or one of the runner about it; what one of them got never becomes the result of
\* another, though the test may be killed, aborted or resumed between any two packets.
\* Not so in two cases, of a test that was resumed: comms_handle_exec() leaves a dynamic
\* subtest current, and the next one takes its place (it has no result then); and what
\* ends before its first subtest gives its exit code to the first subtest of the entry.
Replaced(n) == resumes > 0 /\ n = EntryFirst
Dropped(n)  == resumes > 0 /\ n \in Dynamics
ReportSaysWhatTheTestSaid ==
  LET r == report
  IN \A n \in Names \cup Dynamics :
        said[n] # None /\ ~Replaced(n) =>
          r[n] \in {said[n], "notrun", "abort", "timeout"} \cup (IF Dropped(n) THEN {None} ELSE {})

\* The runner blames at most one subtest, and one dynamic subtest, for a timeout, an
\* abort or an interruption, each time the test is executed.
ByRunner  == {"notrun", "abort", "timeout"}
OneIsBlamed ==
  LET r == report
      Blamed(set) == {n \in set : r[n] \in ByRunner}
  IN Cardinality(Blamed(Names)) <= resumes + 1 /\ Cardinality(Blamed(Dynamics)) <= resumes + 1

\* In all: the report is there, and right about every subtest.
ReportIsTrue == DumpIsRead /\ ReportSaysWhatTheTestSaid /\ OneIsBlamed

\* A subtest whose dynamic subtests are reported with a failure does not pass, whatever
\* the order of those that pass, skip and fail (igt_success()).
ContainerTellsFailure ==
  LET r == report
  IN \A s \in Names : r[s] = "pass" => \A k \in 1..MaxDynamics : r[<<s, k>>] # "fail"

\* A failure in a thread of the test is not lost: what it happened in does not pass.
ThreadFailureCounts == \A n \in suspects : report[n] # "pass"

\* Neither kind of failure, of which the main thread learns through flags only, is lost.
NoFailureIsLost == ContainerTellsFailure /\ ThreadFailureCounts

\* The exit code and the report, which come to the runner on different ways, agree.
ExitCodeAgrees ==
  pc = "exited" /\ resumes = 0 =>
    /\ exitcode = "success" => \A s \in Names : report[s] \notin {"fail", "crash", "incomplete"}
    /\ exitcode = "skip" => \A s \in Names : report[s] # "pass"
    /\ exitcode = "failure" => \A s \in Names : report[s] # "incomplete"

\* The text of a subtest that sent its start and its result has the lines logged in it,
\* between the two, and no line of another one that came to its end.
Ended(s)  == s \in begun /\ said[s] # None
OutIsOwn ==
  LET end == Finished(context)
  IN \A s \in Names : end.results[s] # None /\ Ended(s) /\ ~Replaced(s) =>
     LET text == end.texts[s].out
     IN /\ Cardinality({i \in DOMAIN text : text[i] = Line("mark", s)}) = 2
        /\ \A i \in DOMAIN text : text[i].of # s => text[i].of \in begun /\ said[text[i].of] = None

\* "Override the result of the most recently started test/subtest/dynamic subtest"
\* (lib/runnercomms.h): what the runner says of a dynamic subtest it says of the
\* subtest around it as well.  Not so when a subtest that is skipped without a start
\* follows: it takes the place of the subtest, while the dynamic one stays current.
BlamedTogether ==
  LET r == report
  IN \A d \in Dynamics : r[d] \in ByRunner => r[d[1]] = r[d]
=============================================================================
