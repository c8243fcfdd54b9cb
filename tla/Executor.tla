----------------------------- MODULE Executor ------------------------------
(***************************************************************************)
(* execute() of runner/executor.c with what it rests on: the results       *)
(* directory as the only memory that survives a crash, the start of a new  *)
(* run over an old one (initialize_execute_state with --overwrite), the    *)
(* resumption from disk (initialize_execute_state_from_resume), which is   *)
(* done by igt_resume after a crash and by execute() itself after a test   *)
(* was killed, and the boot-time abort that fills the directory.           *)
(*                                                                         *)
(* monitor_output() is abstracted to what module TestRun promises of it.   *)
(* The numbered directories, the journal and the comms dump are the only   *)
(* files of a test the runner itself reads.                                *)
(*                                                                         *)
(* A definition marked "mutant" is a deliberately wrong variant of the one *)
(* below it and is used by no other definition.                            *)
(***************************************************************************)
EXTENDS Naturals, FiniteSets, FiniteSetsExt

CONSTANTS
  MaxSize,      \* bound: entries of a job list
  Subtests,     \* the subtests of every test binary
  Listed,       \* the job list names the subtests (else: "all of them")
  Sync,         \* settings->sync: what was written is on disk
  Extra,        \* directories in which somebody left files of his own
  MaxRuns,      \* bound: runs started in one results directory
  MaxStops,     \* bound: crashes, signals and failures outside of tests
  CrashingTests \* tests may take the machine down, as often as they are run

ASSUME ExecutorAssumption ==
  /\ MaxSize \in Nat \ {0} /\ MaxRuns \in Nat /\ MaxStops \in Nat
  /\ IsFiniteSet(Subtests)
  /\ Subtests \cap {"exec", "exit", "timeout", "graceful", "notrun", "abort", "newline", "torn"} = {}
  /\ Extra \subseteq 0..MaxSize
  /\ {Listed, Sync, CrashingTests} \subseteq BOOLEAN

Slots == 0..MaxSize - 1

VARIABLES
  \* the results directory
  run,       \* which run's metadata and job list are on disk, 0 before any
  size,      \* entries of that job list
  dirs,      \* the numbered directories there are
  files,     \* in each, which of journal.txt and comms exist
  journal,   \* what the journal tells: subtests begun, how the test ended
  comms,     \* what the comms dump tells
  aborted, endtime,  \* aborted.txt, endtime.txt
  \* the runner's memory
  pc, next, excluded, k, begun, outcome, reason, written,
  \* how the last execution ended: "true" and "false" as execute() returns
  status,
  \* what is observed of the whole
  proto,     \* how the tests of this run report
  ran,       \* how often each subtest was begun in this run
  cut,       \* once, the clearing of old results was cut short
  stops      \* counter of the bound MaxStops

disk   == <<run, size, dirs, files, journal, comms, aborted, endtime>>
memory == <<next, excluded, k, begun, outcome, reason, written>>
seen   == <<proto, ran, cut, stops>>
vars   == <<disk, memory, seen, pc, status>>

Init ==
  /\ run = 0 /\ size = 0 /\ dirs = {} /\ aborted = FALSE /\ endtime = FALSE
  /\ files = [i \in Slots |-> {}]
  /\ journal = [i \in Slots |-> {}] /\ comms = [i \in Slots |-> {}]
  /\ pc = "off" /\ next = 0 /\ excluded = {} /\ k = 0 /\ begun = {}
  /\ outcome = "none" /\ reason = FALSE /\ written = FALSE /\ status = "none"
  /\ proto = "comms" /\ cut = FALSE /\ stops = 0
  /\ ran = [i \in Slots |-> [s \in Subtests |-> 0]]

-----------------------------------------------------------------------------
(***************************************************************************)
(* initialize_execute_state(): the metadata of the new run replaces the    *)
(* old, then clear_old_results() deletes the old results one by one, from  *)
(* directory 0 on until one does not exist.  A directory with files of     *)
(* somebody else stays behind, with a warning.                             *)
(***************************************************************************)
StartRun ==
  /\ pc = "off" /\ run < MaxRuns
  /\ run' = run + 1
  /\ size' \in 1..MaxSize
  /\ proto' \in {"journal", "comms"}
  /\ ran' = [i \in Slots |-> [s \in Subtests |-> 0]]
  /\ pc' = "remove" /\ status' = "none"
  /\ UNCHANGED <<dirs, files, journal, comms, aborted, endtime, memory, cut, stops>>

RemoveTopLevel ==
  /\ pc = "remove"
  /\ aborted' = FALSE /\ endtime' = FALSE
  /\ k' = 0 /\ pc' = "clear"
  /\ UNCHANGED <<run, size, dirs, files, journal, comms, next, excluded, begun, outcome, reason,
                 written, seen, status>>

ClearJournal ==
  /\ pc = "clear" /\ k \in dirs
  /\ "journal" \in files[k]
  /\ files' = [files EXCEPT ![k] = @ \ {"journal"}]
  /\ journal' = [journal EXCEPT ![k] = {}]
  /\ UNCHANGED <<run, size, dirs, comms, aborted, endtime, memory, seen, pc, status>>

ClearComms ==
  /\ pc = "clear" /\ k \in dirs
  /\ files[k] = {"comms"}
  /\ files' = [files EXCEPT ![k] = {}]
  /\ comms' = [comms EXCEPT ![k] = {}]
  /\ UNCHANGED <<run, size, dirs, journal, aborted, endtime, memory, proto, ran, cut, stops, pc, status>>

ClearDirectory ==
  /\ pc = "clear" /\ k \in dirs
  /\ files[k] = {}
  /\ dirs' = IF k \in Extra THEN dirs ELSE dirs \ {k}
  /\ k' = k + 1
  /\ UNCHANGED <<run, size, files, journal, comms, aborted, endtime, next, excluded, begun,
                 outcome, reason, written, proto, ran, cut, stops, pc, status>>

Cleared ==
  /\ pc = "clear" /\ k \notin dirs
  /\ next' = 0 /\ excluded' = {}
  /\ pc' = "execute"
  /\ UNCHANGED <<disk, k, begun, outcome, reason, written, seen, status>>

-----------------------------------------------------------------------------
(***************************************************************************)
(* initialize_execute_state_from_resume().  The search for the directory   *)
(* with the highest number begins at list->size.  Both files, where they   *)
(* exist, have to name subtests and to leave some for the entry to be run  *)
(* again: each of the prune functions answers "is there anything pruned",  *)
(* and a "no" of one is not taken back by the other.                       *)
(***************************************************************************)
InComms(i)   == comms[i] \cap Subtests
InJournal(i) == journal[i] \cap Subtests
Unparsable(i) == comms[i] \cap {"newline", "torn"} # {}

\* entry->subtest_count as read from the job list, and after prune_from_comms
Count == IF Listed THEN Cardinality(Subtests) ELSE 0
CountAfterComms(i) ==
  IF "comms" \notin files[i] \/ InComms(i) = {} THEN Count
  ELSE Count + Cardinality(InComms(i)) + (IF Count = 0 THEN 1 ELSE 0)

CommsComplete(i) ==
  /\ ~Unparsable(i)
  /\ (Count > 0 /\ Cardinality(InComms(i)) >= Count) \/ "exit" \in comms[i]

JournalComplete(i) ==
  \/ journal[i] \cap {"exit", "graceful"} # {}
  \/ CountAfterComms(i) > 0 /\ Cardinality(InJournal(i)) >= CountAfterComms(i)

CommsSaysDone(i) ==
  "comms" \in files[i] /\ (Unparsable(i) \/ InComms(i) = {} \/ CommsComplete(i))
JournalSaysDone(i) ==
  "journal" \in files[i] /\ (InJournal(i) = {} \/ JournalComplete(i))

SearchBeyond == size + 1  \* mutant
SearchFrom == size

\* Where the run goes on, when directory i is the last there is.
ContinueAtStart(i) == 0  \* mutant
ContinueAtUnstarted(i) ==  \* mutant
  IF InComms(i) \cup InJournal(i) # {} /\ (CommsSaysDone(i) \/ JournalSaysDone(i)) THEN i + 1 ELSE i
ContinueAtNext(i) == i + 1  \* mutant
ContinueAt(i) == IF CommsSaysDone(i) \/ JournalSaysDone(i) THEN i + 1 ELSE i

\* The subtests the entry of directory i is told not to run again.
PrunedAt(i) ==
  (IF "comms" \in files[i] THEN InComms(i) ELSE {})
    \cup (IF "journal" \in files[i] THEN InJournal(i) ELSE {})

\* igt_resume, started by whoever watches the machine
ResumeRun ==
  /\ pc = "off" /\ run > 0
  /\ k' = SearchFrom /\ pc' = "search" /\ status' = "none"
  /\ UNCHANGED <<disk, next, excluded, begun, outcome, reason, written, seen>>

SearchDown ==
  /\ pc = "search" /\ k \notin dirs /\ k > 0
  /\ k' = k - 1
  /\ UNCHANGED <<disk, next, excluded, begun, outcome, reason, written, seen, pc, status>>

NothingFound ==
  /\ pc = "search" /\ k \notin dirs /\ k = 0
  /\ next' = 0 /\ excluded' = {} /\ pc' = "execute"
  /\ UNCHANGED <<disk, k, begun, outcome, reason, written, seen, status>>

Found ==
  /\ pc = "search" /\ k \in dirs
  /\ next' = ContinueAt(k)
  /\ excluded' = IF next' = k THEN PrunedAt(k) ELSE {}
  /\ pc' = "execute"
  /\ UNCHANGED <<disk, k, begun, outcome, reason, written, seen, status>>

Search == SearchDown \/ NothingFound \/ Found

-----------------------------------------------------------------------------
(* execute(), up to its loop                                               *)

AllExecuted ==
  /\ pc = "execute" /\ next >= size
  /\ pc' = "off" /\ status' = "true"
  /\ UNCHANGED <<disk, memory, seen>>

\* An abort condition at bootup: write_abort_file() with O_EXCL, then
\* fill_results_directory_with_notruns().
BootAbort ==
  /\ pc = "execute" /\ next < size
  /\ aborted' = TRUE
  /\ k' = 0 /\ pc' = "fill"
  /\ UNCHANGED <<run, size, dirs, files, journal, comms, endtime, next, excluded, begun, outcome,
                 reason, written, seen, status>>

BootFine ==
  /\ pc = "execute" /\ next < size
  /\ pc' = "loop"
  /\ UNCHANGED <<disk, memory, seen, status>>

FillSkip ==
  /\ pc = "fill" /\ k < size /\ k \in dirs
  /\ k' = k + 1
  /\ UNCHANGED <<disk, next, excluded, begun, outcome, reason, written, seen, pc, status>>

FillDirectory ==
  /\ pc = "fill" /\ k < size /\ k \notin dirs
  /\ dirs' = dirs \cup {k}
  /\ pc' = "fillopen"
  /\ UNCHANGED <<run, size, files, journal, comms, aborted, endtime, memory, seen, status>>

FillOpen ==
  /\ pc = "fillopen"
  /\ files' = [files EXCEPT ![k] = {"journal", "comms"}]
  /\ pc' = "fillwrite"
  /\ UNCHANGED <<run, size, dirs, journal, comms, aborted, endtime, memory, seen, status>>

FillWrite ==
  /\ pc = "fillwrite"
  /\ journal' = [journal EXCEPT ![k] = @ \cup {"graceful"}]
  /\ k' = k + 1 /\ pc' = "fill"
  /\ UNCHANGED <<run, size, dirs, files, comms, aborted, endtime, next, excluded, begun, outcome,
                 reason, written, proto, ran, cut, stops, status>>

FillDone ==
  /\ pc = "fill" /\ k = size
  /\ pc' = "off" /\ status' = "false"
  /\ UNCHANGED <<disk, memory, seen>>

-----------------------------------------------------------------------------
(* One entry: execute_next_entry()                                         *)

LoopDone ==
  /\ pc = "loop" /\ next >= size
  /\ pc' = "endtime" /\ status' = "true"
  /\ UNCHANGED <<disk, memory, seen>>

\* should_die_because_signal()
SignalledBetween ==
  /\ pc = "loop" /\ next < size
  /\ stops < MaxStops /\ stops' = stops + 1
  /\ pc' = "off" /\ status' = "false"
  /\ UNCHANGED <<disk, memory, proto, ran, cut>>

MakeDirectory ==
  /\ pc = "loop" /\ next < size
  /\ dirs' = dirs \cup {next}
  /\ pc' = "openjournal"
  /\ UNCHANGED <<run, size, files, journal, comms, aborted, endtime, memory, seen, status>>

\* open_output_files(): journal.txt is opened first, comms last; both are
\* created when missing.  open_at_end() ends an unfinished last line, in the
\* binary comms dump too, where it is one byte no packet begins with.
OpenJournal ==
  /\ pc = "openjournal"
  /\ files' = [files EXCEPT ![next] = @ \cup {"journal"}]
  /\ pc' = "opencomms"
  /\ UNCHANGED <<run, size, dirs, journal, comms, aborted, endtime, memory, seen, status>>

OpenComms ==
  /\ pc = "opencomms"
  /\ files' = [files EXCEPT ![next] = @ \cup {"comms"}]
  /\ comms' = [comms EXCEPT ![next] = IF @ = {} THEN {} ELSE @ \cup {"newline"}]
  /\ begun' = {} /\ pc' = "fork"
  /\ UNCHANGED <<run, size, dirs, journal, aborted, endtime, next, excluded, k, outcome, reason,
                 written, proto, ran, cut, stops, status>>

\* The child announces what it executes before it executes it.
Fork ==
  /\ pc = "fork"
  /\ comms' = [comms EXCEPT ![next] = @ \cup {"exec"}]
  /\ pc' = "test"
  /\ UNCHANGED <<run, size, dirs, files, journal, aborted, endtime, memory, seen, status>>

\* The directory, a file of it, a pipe or the child cannot be made: failure.
EntryFails ==
  /\ pc \in {"loop", "openjournal", "opencomms", "fork"} /\ next < size
  /\ stops < MaxStops /\ stops' = stops + 1
  /\ outcome' = "error" /\ reason' = FALSE /\ written' = FALSE
  /\ pc' = "after"
  /\ UNCHANGED <<disk, next, excluded, k, begun, proto, ran, cut, status>>

(***************************************************************************)
(* What is recorded of a test goes to the comms dump when the test has     *)
(* used the socket, else to the journal (socket_comms_used).               *)
(***************************************************************************)
MayUseSocket ==
  IF proto = "journal" THEN {FALSE} ELSE IF begun # {} THEN {TRUE} ELSE BOOLEAN

Record(used, r) ==
  IF used THEN comms' = [comms EXCEPT ![next] = @ \cup r] /\ UNCHANGED journal
          ELSE journal' = [journal EXCEPT ![next] = @ \cup r] /\ UNCHANGED comms

BeginSubtest(s) ==
  /\ pc = "test"
  /\ s \notin begun \cup excluded
  /\ begun' = begun \cup {s}
  /\ ran' = [ran EXCEPT ![next][s] = @ + 1]
  /\ Record(proto = "comms", {s})
  /\ UNCHANGED <<run, size, dirs, files, aborted, endtime, next, excluded, k, outcome, reason,
                 written, proto, cut, stops, pc, status>>

\* monitor_output() returns out; v is the verdict it leaves on disk, why tells
\* whether there is a reason to abort, already whether that is on disk, too.
Report(used, out, v, why, already) ==
  /\ pc = "test" /\ pc' = "after"
  /\ outcome' = out /\ reason' = why /\ written' = already
  /\ Record(used, v)
  /\ UNCHANGED <<run, size, dirs, files, aborted, endtime, next, excluded, k, begun, seen, status>>

\* The test ended by itself, perhaps with IGT_EXIT_ABORT.
TestExits ==
  \E used \in MayUseSocket :
    Report(used, "ok", {"exit"}, FALSE, FALSE) \/ Report(used, "error", {"exit"}, TRUE, FALSE)

\* It was killed: for a timeout, or for a taint or its disk usage.
TestKilled ==
  \E used \in MayUseSocket, v \in {{"exit"}, {"timeout"}} :
    Report(used, "killed", IF used THEN v \cup {"exit"} ELSE v, FALSE, FALSE)

\* The run was told to stop, by SIGHUP (which leaves a notrun mark) or another
\* signal; or an abort condition was seen between two subtests and is written to
\* the comms dump; or the test refuses to die.
TestStopped ==
  \E used \in MayUseSocket :
    \/ Report(used, "error", {}, FALSE, FALSE)
    \/ Report(used, "error", IF used THEN {"notrun"} ELSE {"graceful"}, FALSE, FALSE)
    \/ used /\ begun # {} /\ Report(used, "error", {"abort"}, TRUE, TRUE)
    \/ Report(used, "error", {}, TRUE, FALSE)

-----------------------------------------------------------------------------
(***************************************************************************)
(* After the test: an abort condition (of the monitor, or seen now) ends   *)
(* the run with a record of it, in the comms dump of the test when that is *)
(* valid, else in aborted.txt, which is never overwritten.                 *)
(***************************************************************************)
ExistingComms(i) == "comms" \in files[i]  \* mutant
ValidComms(i) == "comms" \in files[i] /\ ~Unparsable(i) /\ comms[i] \ {"exec"} # {}

AbortAfter ==
  /\ pc = "after"
  /\ \/ written /\ UNCHANGED <<comms, aborted>>
     \/ /\ ~written /\ ValidComms(next)
        /\ comms' = [comms EXCEPT ![next] = @ \cup {"abort"}] /\ UNCHANGED aborted
     \/ /\ ~written /\ ~ValidComms(next)
        /\ aborted' = TRUE /\ UNCHANGED comms
  /\ reason' = TRUE /\ status' = "false" /\ pc' = "endtime"
  /\ UNCHANGED <<run, size, dirs, files, journal, endtime, next, excluded, k, begun, outcome,
                 written, seen>>

FailAfter ==
  /\ pc = "after" /\ ~reason /\ outcome = "error"
  /\ status' = "false" /\ pc' = "endtime"
  /\ UNCHANGED <<disk, memory, seen>>

OverallTimeout ==
  /\ pc = "after" /\ ~reason /\ outcome # "error"
  /\ status' = "timeout" /\ pc' = "endtime"
  /\ UNCHANGED <<disk, memory, seen>>

NextEntry ==
  /\ pc = "after" /\ ~reason /\ outcome = "ok"
  /\ next' = next + 1 /\ excluded' = {} /\ pc' = "loop"
  /\ UNCHANGED <<disk, k, begun, outcome, reason, written, seen, status>>

\* "Timeout happened, need to recreate from journal": execute() calls itself.
ResumeAfterKill ==
  /\ pc = "after" /\ ~reason /\ outcome = "killed"
  /\ \/ /\ k' = SearchFrom /\ pc' = "search" /\ UNCHANGED <<stops, status>>
     \/ /\ stops < MaxStops /\ stops' = stops + 1
        /\ pc' = "off" /\ status' = "false" /\ UNCHANGED k
  /\ UNCHANGED <<disk, next, excluded, begun, outcome, reason, written, proto, ran, cut>>

WriteEndtime ==
  /\ pc = "endtime"
  /\ endtime' = TRUE /\ pc' = "off"
  /\ UNCHANGED <<run, size, dirs, files, journal, comms, aborted, memory, seen, status>>

-----------------------------------------------------------------------------
(***************************************************************************)
(* The machine or the runner dies; or the runner gives up because a file   *)
(* outside of a test's execution cannot be read, written or removed.  A    *)
(* packet is written in two write()s and may be torn.  What was not synced *)
(* may be gone.                                                            *)
(***************************************************************************)
Forget ==
  /\ next' = 0 /\ excluded' = {} /\ k' = 0 /\ begun' = {}
  /\ outcome' = "none" /\ reason' = FALSE /\ written' = FALSE

Lose(i) ==
  \/ dirs' = dirs \ {i} /\ files' = [files EXCEPT ![i] = {}]
     /\ journal' = [journal EXCEPT ![i] = {}] /\ comms' = [comms EXCEPT ![i] = {}]
  \/ \E j \in SUBSET journal[i], c \in SUBSET comms[i] :
       /\ journal' = [journal EXCEPT ![i] = j] /\ comms' = [comms EXCEPT ![i] = c]
       /\ UNCHANGED <<dirs, files>>

Crash ==
  /\ pc # "off"
  /\ \/ pc = "test" /\ CrashingTests /\ UNCHANGED stops
     \/ stops < MaxStops /\ stops' = stops + 1
  /\ \/ UNCHANGED <<dirs, files, journal, comms>>
     \/ /\ pc = "test" /\ proto = "comms"
        /\ comms' = [comms EXCEPT ![next] = @ \cup {"torn"}]
        /\ UNCHANGED <<dirs, files, journal>>
     \/ ~Sync /\ pc \in {"fork", "test", "after"} /\ Lose(next)
  /\ Forget
  /\ cut' = (cut \/ pc \in {"remove", "clear"})
  /\ pc' = "off" /\ status' = "crashed"
  /\ UNCHANGED <<run, size, aborted, endtime, proto, ran>>

Clear == RemoveTopLevel \/ ClearJournal \/ ClearComms \/ ClearDirectory \/ Cleared
Fill  == FillSkip \/ FillDirectory \/ FillOpen \/ FillWrite \/ FillDone
Test  == TestExits \/ TestKilled \/ TestStopped \/ \E s \in Subtests : BeginSubtest(s)
After == AbortAfter \/ FailAfter \/ OverallTimeout \/ NextEntry \/ ResumeAfterKill

RunnerStep ==
  \/ Clear \/ Search \/ AllExecuted \/ BootAbort \/ BootFine \/ Fill
  \/ LoopDone \/ SignalledBetween \/ MakeDirectory \/ OpenJournal \/ OpenComms \/ Fork
  \/ EntryFails \/ Test \/ After \/ WriteEndtime

Next == StartRun \/ ResumeRun \/ RunnerStep \/ Crash

(***************************************************************************)
(* The runner and its test take their steps (module Monitor shows that a   *)
(* test always comes to an end), and after a crash somebody resumes.       *)
(***************************************************************************)
Spec == Init /\ [][Next]_vars /\ WF_vars(RunnerStep) /\ WF_vars(ResumeRun)

-----------------------------------------------------------------------------
(* Properties *)

\* Where a resume would go on now.
Last == Max(dirs \cap 0..size)
NextFromDisk == IF dirs \cap 0..size = {} THEN 0 ELSE ContinueAt(Last)

Marks == {"exec", "exit", "timeout", "graceful", "notrun", "abort", "newline", "torn"}

\* Every variable holds a value of its type.
TypeOK ==
  /\ run \in 0..MaxRuns /\ size \in 0..MaxSize /\ dirs \subseteq Slots
  /\ files \in [Slots -> SUBSET {"journal", "comms"}]
  /\ journal \in [Slots -> SUBSET (Subtests \cup Marks)]
  /\ comms \in [Slots -> SUBSET (Subtests \cup Marks)]
  /\ aborted \in BOOLEAN /\ endtime \in BOOLEAN
  /\ pc \in {"off", "remove", "clear", "search", "execute", "fill", "fillopen", "fillwrite", "loop",
             "openjournal", "opencomms", "fork", "test", "after", "endtime"}
  /\ next \in 0..MaxSize + 1 /\ excluded \subseteq Subtests /\ k \in 0..MaxSize
  /\ begun \subseteq Subtests /\ outcome \in {"none", "ok", "killed", "error"}
  /\ reason \in BOOLEAN /\ written \in BOOLEAN
  /\ status \in {"none", "true", "timeout", "false", "crashed"}
  /\ proto \in {"journal", "comms"} /\ cut \in BOOLEAN /\ stops \in 0..MaxStops
  /\ ran \in [Slots -> [Subtests -> Nat]]

\* With everything synced no subtest is run twice in one run and no entry after a
\* later one, whatever is killed, crashes and is resumed (execute, prune_from_*).
Order == INSTANCE EachOnce
KeepsOrder == Order!Spec

\* When nothing is left to be run every entry has its result directory, and its
\* journal in it, unless an abort condition at bootup had it filled (execute).
\* This is not so once the clearing of old results was cut short: a resume takes
\* what is left of the old results for those of the new run (see README).
CompleteWhenDone ==
  (pc = "off" /\ status = "true" /\ ~cut) =>
    \A i \in 0..size - 1 : i \in dirs /\ (aborted \/ "journal" \in files[i])

\* An abort leaves a record from which the result generator can tell which test
\* it is to be blamed on: aborted.txt, or an override in the comms dump provided
\* that it is readable and the results of the test are in it.  (Where clearing was
\* cut short, the dump of an older run may be left: open_at_end() spoils it.)
AbortLeavesRecord ==
  (pc = "endtime" /\ reason /\ ~cut) =>
    \/ aborted
    \/ /\ "abort" \in comms[next] /\ ~Unparsable(next)
       /\ comms[next] \ {"exec", "abort"} # {}

\* Tests that take the machine down each time they run do not keep a run from its
\* end: resuming passes over them.  (That every boot aborts is another matter, see
\* BootAbort: such a boot fills the directories.)
ResumesReachTheEnd == run > 0 ~> (NextFromDisk >= size \/ pc = "fill")

(***************************************************************************)
(* Statements of the source that the code does not keep (see README).      *)
(***************************************************************************)
\* "Timeout happened, need to recreate from journal": an entry that was interrupted
\* after some of its subtests is run again for the others, before the run is done.
InterruptedAt(i) ==
  /\ InComms(i) \cup InJournal(i) # {} /\ ~Unparsable(i)
  /\ (comms[i] \cup journal[i]) \cap {"exit", "graceful"} = {}

RemainingSubtestsRun ==
  (pc = "off" /\ status = "true") =>
    \A i \in 0..size - 1 : InterruptedAt(i) => \A s \in Subtests : ran[i][s] >= 1
=============================================================================
