--------------------------- MODULE ExecutorProofs ---------------------------
(***************************************************************************)
(* Theorems about execute() and its resumptions for every job list, all    *)
(* sets of subtests, and all values of the bounds of module Executor.      *)
(***************************************************************************)
EXTENDS Executor, TLAPS

-----------------------------------------------------------------------------
(* Type correctness.  Indices stay within the job list only because of     *)
(* what the loops establish.                                               *)

\* execute_next_entry() works on an entry of the list.
InEntry == pc \in {"openjournal", "opencomms", "fork", "test", "after"} => next < size

\* So does fill_results_directory_with_notruns().
InFill ==
  /\ pc \in {"fillopen", "fillwrite"} => k < size
  /\ pc = "fill" => k <= size

TypeInv == TypeOK /\ InEntry /\ InFill

\* The assumption, as far as types depend on it.
LEMMA Bounds == MaxSize \in Nat /\ MaxSize > 0 /\ MaxRuns \in Nat /\ MaxStops \in Nat
BY ExecutorAssumption DEF ExecutorAssumption

\* The fresh results directory and idle runner are of their types.
LEMMA InitType == ASSUME Init PROVE TypeInv
<1>1. /\ files \in [Slots -> SUBSET {"journal", "comms"}]
      /\ journal \in [Slots -> SUBSET (Subtests \cup Marks)]
      /\ comms \in [Slots -> SUBSET (Subtests \cup Marks)]
  BY DEF Init
<1>2. ran \in [Slots -> [Subtests -> Nat]]
  BY DEF Init
<1>3. /\ run \in 0..MaxRuns /\ size \in 0..MaxSize /\ stops \in 0..MaxStops
      /\ next \in 0..MaxSize + 1 /\ k \in 0..MaxSize
  BY Bounds DEF Init
<1>4. /\ dirs = {} /\ excluded = {} /\ begun = {} /\ aborted = FALSE /\ endtime = FALSE
      /\ reason = FALSE /\ written = FALSE /\ pc = "off" /\ outcome = "none"
      /\ status = "none" /\ proto = "comms" /\ cut = FALSE
  BY DEF Init
<1> QED
  BY <1>1, <1>2, <1>3, <1>4 DEF TypeInv, TypeOK, InEntry, InFill

\* The old results' top-level files go before the numbered directories.
LEMMA RemoveTopLevelType == ASSUME TypeInv, RemoveTopLevel PROVE TypeInv'
<1>1. aborted' \in BOOLEAN /\ endtime' \in BOOLEAN
  BY DEF RemoveTopLevel
<1>2. k' \in 0..MaxSize /\ pc' = "clear"
  BY Bounds DEF RemoveTopLevel
<1>3. UNCHANGED <<run, size, dirs, files, journal, comms, next, excluded, begun, outcome, reason,
                 written, seen, status>>
  BY DEF RemoveTopLevel
<1> QED
  BY <1>1, <1>2, <1>3 DEF TypeInv, TypeOK, InEntry, InFill, seen

\* The run goes on at the directory found or at the one after it.
LEMMA FoundType == ASSUME TypeInv, Found PROVE TypeInv'
<1>1. k \in 0..MaxSize - 1
  BY DEF TypeInv, TypeOK, Found, Slots
<1>2. ContinueAt(k) \in {k, k + 1}
  BY <1>1 DEF ContinueAt
<1>3. PrunedAt(k) \subseteq Subtests
  BY DEF PrunedAt, InComms, InJournal
<1>4. /\ next' \in 0..MaxSize + 1 /\ excluded' \subseteq Subtests /\ pc' = "execute"
      /\ UNCHANGED <<disk, k, begun, outcome, reason, written, seen, status>>
  BY <1>1, <1>2, <1>3, Bounds DEF Found
<1> QED
  BY <1>4 DEF TypeInv, TypeOK, InEntry, InFill, disk, seen

\* What is recorded of a test goes to one of its two files.
LEMMA RecordType ==
  ASSUME TypeInv, NEW used \in BOOLEAN, NEW r \in SUBSET (Subtests \cup Marks), Record(used, r)
  PROVE  /\ journal' \in [Slots -> SUBSET (Subtests \cup Marks)]
         /\ comms' \in [Slots -> SUBSET (Subtests \cup Marks)]
<1>1. /\ journal \in [Slots -> SUBSET (Subtests \cup Marks)]
      /\ comms \in [Slots -> SUBSET (Subtests \cup Marks)]
  BY DEF TypeInv, TypeOK
<1> QED
  BY <1>1 DEF Record

\* monitor_output() leaves its verdict in one of the two files.
LEMMA ReportType ==
  ASSUME TypeInv, NEW used \in BOOLEAN, NEW out \in {"ok", "killed", "error"},
         NEW v \in SUBSET Marks, NEW why \in BOOLEAN, NEW already \in BOOLEAN,
         Report(used, out, v, why, already)
  PROVE  TypeInv'
<1>1. /\ journal' \in [Slots -> SUBSET (Subtests \cup Marks)]
      /\ comms' \in [Slots -> SUBSET (Subtests \cup Marks)]
  <2>1. v \in SUBSET (Subtests \cup Marks) /\ Record(used, v)
    BY DEF Report
  <2> QED
    BY <2>1, RecordType
<1>2. /\ pc = "test" /\ pc' = "after" /\ outcome' = out /\ reason' = why /\ written' = already
      /\ UNCHANGED <<run, size, dirs, files, aborted, endtime, next, excluded, k, begun, seen, status>>
  BY DEF Report
<1> QED
  BY <1>1, <1>2 DEF TypeInv, TypeOK, InEntry, InFill, seen

\* However a test ends, with the verdicts monitor_output() has for it.
LEMMA TestType == ASSUME TypeInv, TestExits \/ TestKilled \/ TestStopped PROVE TypeInv'
<1>1. MayUseSocket \subseteq BOOLEAN
  BY DEF MayUseSocket
<1>2. {"exit", "timeout", "notrun", "graceful", "abort"} \subseteq Marks
  BY DEF Marks
<1>3. CASE TestExits
  BY <1>1, <1>2, <1>3, ReportType DEF TestExits
<1>4. CASE TestKilled
  <2>1. PICK used \in MayUseSocket, v \in {{"exit"}, {"timeout"}} :
           Report(used, "killed", IF used THEN v \cup {"exit"} ELSE v, FALSE, FALSE)
    BY <1>4 DEF TestKilled
  <2>2. (IF used THEN v \cup {"exit"} ELSE v) \in SUBSET Marks
    BY <1>2, <2>1
  <2> QED
    BY <1>1, <2>1, <2>2, ReportType
<1>5. CASE TestStopped
  <2>1. PICK used \in MayUseSocket :
          \/ Report(used, "error", {}, FALSE, FALSE)
          \/ Report(used, "error", IF used THEN {"notrun"} ELSE {"graceful"}, FALSE, FALSE)
          \/ Report(used, "error", {"abort"}, TRUE, TRUE)
          \/ Report(used, "error", {}, TRUE, FALSE)
    BY <1>5 DEF TestStopped
  <2>2. (IF used THEN {"notrun"} ELSE {"graceful"}) \in SUBSET Marks
    BY <1>2
  <2> QED
    BY <1>1, <1>2, <2>1, <2>2, ReportType
<1> QED
  BY <1>3, <1>4, <1>5

\* A subtest that is begun is recorded and counted.
LEMMA BeginSubtestType == ASSUME TypeInv, NEW s \in Subtests, BeginSubtest(s) PROVE TypeInv'
<1>1. /\ journal' \in [Slots -> SUBSET (Subtests \cup Marks)]
      /\ comms' \in [Slots -> SUBSET (Subtests \cup Marks)]
  <2>1. {s} \in SUBSET (Subtests \cup Marks)
    OBVIOUS
  <2>2. Record(proto = "comms", {s})
    BY Zenon DEF BeginSubtest
  <2>3. (proto = "comms") \in BOOLEAN
    OBVIOUS
  <2> QED
    BY <2>1, <2>2, <2>3, RecordType, Zenon
<1>2. ran' \in [Slots -> [Subtests -> Nat]] /\ begun' \subseteq Subtests
  <2>1. ran \in [Slots -> [Subtests -> Nat]] /\ begun \subseteq Subtests
    BY DEF TypeInv, TypeOK
  <2>2. begun' = begun \cup {s} /\ ran' = [ran EXCEPT ![next][s] = @ + 1]
    BY DEF BeginSubtest
  <2>3. begun' \subseteq Subtests
    BY <2>1, <2>2
  <2>4. ran' \in [Slots -> [Subtests -> Nat]]
    <3> DEFINE row == [ran[next] EXCEPT ![s] = @ + 1]
    <3>1. next \in Slots => row \in [Subtests -> Nat]
      BY <2>1
    <3>2. ran' = [ran EXCEPT ![next] = row]
      BY <2>2
    <3> HIDE DEF row
    <3> QED
      BY <2>1, <3>1, <3>2
  <2> QED
    BY <2>3, <2>4
<1>3. UNCHANGED <<run, size, dirs, files, aborted, endtime, next, excluded, k, outcome, reason,
                 written, proto, cut, stops, pc, status>>
  BY DEF BeginSubtest
<1> QED
  BY <1>1, <1>2, <1>3 DEF TypeInv, TypeOK, InEntry, InFill

\* An abort is recorded in the comms dump or in aborted.txt.
LEMMA AbortAfterType == ASSUME TypeInv, AbortAfter PROVE TypeInv'
<1>1. comms' \in [Slots -> SUBSET (Subtests \cup Marks)]
  BY DEF AbortAfter, TypeInv, TypeOK, Marks
<1>2. aborted' \in BOOLEAN
  BY DEF AbortAfter, TypeInv, TypeOK
<1>3. /\ reason' \in BOOLEAN /\ status' = "false" /\ pc' = "endtime"
      /\ UNCHANGED <<run, size, dirs, files, journal, endtime, next, excluded, k, begun, outcome,
                 written, seen>>
  BY DEF AbortAfter
<1> QED
  BY <1>1, <1>2, <1>3 DEF TypeInv, TypeOK, InEntry, InFill, seen

\* A crash tears a packet or, without sync, loses what was written.
LEMMA CrashType == ASSUME TypeInv, Crash PROVE TypeInv'
<1>0. /\ dirs \subseteq Slots /\ files \in [Slots -> SUBSET {"journal", "comms"}]
      /\ journal \in [Slots -> SUBSET (Subtests \cup Marks)]
      /\ comms \in [Slots -> SUBSET (Subtests \cup Marks)] /\ stops \in 0..MaxStops
  BY DEF TypeInv, TypeOK
<1>1. /\ dirs' \subseteq Slots /\ files' \in [Slots -> SUBSET {"journal", "comms"}]
      /\ journal' \in [Slots -> SUBSET (Subtests \cup Marks)]
      /\ comms' \in [Slots -> SUBSET (Subtests \cup Marks)]
  <2>1. CASE UNCHANGED <<dirs, files, journal, comms>>
    BY <1>0, <2>1
  <2>2. CASE /\ comms' = [comms EXCEPT ![next] = @ \cup {"torn"}]
             /\ UNCHANGED <<dirs, files, journal>>
    BY <1>0, <2>2 DEF Marks
  <2>3. CASE Lose(next)
    <3>1. CASE /\ dirs' = dirs \ {next} /\ files' = [files EXCEPT ![next] = {}]
               /\ journal' = [journal EXCEPT ![next] = {}] /\ comms' = [comms EXCEPT ![next] = {}]
      BY <1>0, <3>1
    <3>2. CASE \E j \in SUBSET journal[next], c \in SUBSET comms[next] :
                 /\ journal' = [journal EXCEPT ![next] = j] /\ comms' = [comms EXCEPT ![next] = c]
                 /\ UNCHANGED <<dirs, files>>
      <4>1. CASE next \in Slots
        BY <1>0, <3>2, <4>1
      <4>2. CASE next \notin Slots
        BY <1>0, <3>2, <4>2
      <4> QED
        BY <4>1, <4>2
    <3> QED
      BY <2>3, <3>1, <3>2 DEF Lose
  <2> QED
    BY <2>1, <2>2, <2>3 DEF Crash
<1>2. stops' \in 0..MaxStops
  BY <1>0, Bounds DEF Crash
<1>3. /\ next' = 0 /\ excluded' = {} /\ k' = 0 /\ begun' = {} /\ outcome' = "none"
      /\ reason' \in BOOLEAN /\ written' \in BOOLEAN /\ pc' = "off" /\ status' = "crashed"
      /\ cut' \in BOOLEAN /\ UNCHANGED <<run, size, aborted, endtime, proto, ran>>
  BY DEF Crash, Forget
<1> QED
  BY <1>1, <1>2, <1>3, Bounds DEF TypeInv, TypeOK, InEntry, InFill

\* Every step keeps every variable within its type.
LEMMA NextType == ASSUME TypeInv, [Next]_vars PROVE TypeInv'
<1>1. CASE StartRun
  BY <1>1, Bounds
  DEF StartRun, TypeInv, TypeOK, InEntry, InFill, Slots, disk, memory, seen
<1>2. CASE ClearJournal
  BY <1>2, Bounds
  DEF ClearJournal, TypeInv, TypeOK, InEntry, InFill, Slots, disk, memory, seen
<1>3. CASE ClearComms
  BY <1>3, Bounds
  DEF ClearComms, TypeInv, TypeOK, InEntry, InFill, Slots, disk, memory, seen
<1>4. CASE ClearDirectory
  BY <1>4, Bounds
  DEF ClearDirectory, TypeInv, TypeOK, InEntry, InFill, Slots, disk, memory, seen
<1>5. CASE Cleared
  BY <1>5, Bounds
  DEF Cleared, TypeInv, TypeOK, InEntry, InFill, Slots, disk, memory, seen
<1>6. CASE ResumeRun
  BY <1>6, Bounds
  DEF ResumeRun, TypeInv, TypeOK, InEntry, InFill, Slots, disk, memory, seen, SearchFrom
<1>7. CASE SearchDown
  BY <1>7, Bounds
  DEF SearchDown, TypeInv, TypeOK, InEntry, InFill, Slots, disk, memory, seen
<1>8. CASE NothingFound
  BY <1>8, Bounds
  DEF NothingFound, TypeInv, TypeOK, InEntry, InFill, Slots, disk, memory, seen
<1>9. CASE AllExecuted
  BY <1>9, Bounds
  DEF AllExecuted, TypeInv, TypeOK, InEntry, InFill, Slots, disk, memory, seen
<1>10. CASE BootAbort
  BY <1>10, Bounds
  DEF BootAbort, TypeInv, TypeOK, InEntry, InFill, Slots, disk, memory, seen
<1>11. CASE BootFine
  BY <1>11, Bounds
  DEF BootFine, TypeInv, TypeOK, InEntry, InFill, Slots, disk, memory, seen
<1>12. CASE FillSkip
  BY <1>12, Bounds
  DEF FillSkip, TypeInv, TypeOK, InEntry, InFill, Slots, disk, memory, seen
<1>13. CASE FillDirectory
  BY <1>13, Bounds
  DEF FillDirectory, TypeInv, TypeOK, InEntry, InFill, Slots, disk, memory, seen
<1>14. CASE FillOpen
  BY <1>14, Bounds
  DEF FillOpen, TypeInv, TypeOK, InEntry, InFill, Slots, disk, memory, seen
<1>15. CASE FillWrite
  BY <1>15, Bounds
  DEF FillWrite, TypeInv, TypeOK, InEntry, InFill, Slots, Marks, disk, memory, seen
<1>16. CASE FillDone
  BY <1>16, Bounds
  DEF FillDone, TypeInv, TypeOK, InEntry, InFill, Slots, disk, memory, seen
<1>17. CASE LoopDone
  BY <1>17, Bounds
  DEF LoopDone, TypeInv, TypeOK, InEntry, InFill, Slots, disk, memory, seen
<1>18. CASE SignalledBetween
  BY <1>18, Bounds
  DEF SignalledBetween, TypeInv, TypeOK, InEntry, InFill, Slots, disk, memory, seen
<1>19. CASE MakeDirectory
  BY <1>19, Bounds
  DEF MakeDirectory, TypeInv, TypeOK, InEntry, InFill, Slots, disk, memory, seen
<1>20. CASE OpenJournal
  BY <1>20, Bounds
  DEF OpenJournal, TypeInv, TypeOK, InEntry, InFill, Slots, disk, memory, seen
<1>21. CASE OpenComms
  BY <1>21, Bounds
  DEF OpenComms, TypeInv, TypeOK, InEntry, InFill, Slots, Marks, disk, memory, seen
<1>22. CASE Fork
  BY <1>22, Bounds
  DEF Fork, TypeInv, TypeOK, InEntry, InFill, Slots, Marks, disk, memory, seen
<1>23. CASE FailAfter
  BY <1>23, Bounds
  DEF FailAfter, TypeInv, TypeOK, InEntry, InFill, Slots, disk, memory, seen
<1>24. CASE OverallTimeout
  BY <1>24, Bounds
  DEF OverallTimeout, TypeInv, TypeOK, InEntry, InFill, Slots, disk, memory, seen
<1>25. CASE NextEntry
  BY <1>25, Bounds
  DEF NextEntry, TypeInv, TypeOK, InEntry, InFill, Slots, disk, memory, seen
<1>26. CASE ResumeAfterKill
  BY <1>26, Bounds
  DEF ResumeAfterKill, TypeInv, TypeOK, InEntry, InFill, Slots, disk, memory, seen, SearchFrom
<1>27. CASE WriteEndtime
  BY <1>27, Bounds
  DEF WriteEndtime, TypeInv, TypeOK, InEntry, InFill, Slots, disk, memory, seen
<1>28. CASE RemoveTopLevel
  BY <1>28, RemoveTopLevelType
<1>29. CASE Found
  BY <1>29, FoundType
<1>30. CASE TestExits \/ TestKilled \/ TestStopped
  BY <1>30, TestType
<1>31. CASE \E s \in Subtests : BeginSubtest(s)
  BY <1>31, BeginSubtestType
<1>32. CASE AbortAfter
  BY <1>32, AbortAfterType
<1>33. CASE Crash
  BY <1>33, CrashType
<1>34. CASE EntryFails
  <2>1. next < size /\ pc' = "after" /\ outcome' = "error" /\ reason' = FALSE /\ written' = FALSE
    BY <1>34 DEF EntryFails
  <2>2. stops' \in 0..MaxStops
    BY <1>34, Bounds DEF EntryFails, TypeInv, TypeOK
  <2>3. UNCHANGED <<disk, next, excluded, k, begun, proto, ran, cut, status>>
    BY <1>34 DEF EntryFails
  <2> QED
    BY <2>1, <2>2, <2>3 DEF TypeInv, TypeOK, InEntry, InFill, disk
<1>35. CASE UNCHANGED vars
  BY <1>35 DEF TypeInv, TypeOK, InEntry, InFill, vars, disk, memory, seen
<1> QED
  BY <1>1, <1>2, <1>3, <1>4, <1>5, <1>6, <1>7, <1>8, <1>9, <1>10, <1>11, <1>12, <1>13, <1>14,
     <1>15, <1>16, <1>17, <1>18, <1>19, <1>20, <1>21, <1>22, <1>23, <1>24, <1>25, <1>26,
     <1>27, <1>28, <1>29, <1>30, <1>31, <1>32, <1>33, <1>34, <1>35
  DEF Next, RunnerStep, Clear, Search, Fill, Test, After

\* Type correctness: TypeOK of module Executor holds in all runs, crashes and
\* resumptions of execute(); in particular no index leaves the job list.
THEOREM TypeCorrect == Spec => []TypeOK
<1>1. Init => TypeInv
  BY InitType
<1>2. TypeInv /\ [Next]_vars => TypeInv'
  BY NextType
<1>3. TypeInv => TypeOK
  BY DEF TypeInv
<1> QED
  BY <1>1, <1>2, <1>3, PTL DEF Spec

-----------------------------------------------------------------------------
(* The order of execution, when everything written is on disk: what was    *)
(* begun can be told from the results directory, and the runner goes on    *)
(* behind it.                                                              *)

\* What was begun is on disk, in the directory of its entry.
Recorded ==
  \A i \in Slots, s \in Subtests : ran[i][s] > 0 =>
    /\ i \in dirs /\ i < size
    /\ files[i] = {"journal", "comms"}
    /\ s \in comms[i] \cup journal[i]

\* What was begun lies before the place where the runner goes on.
Passed ==
  \A i \in Slots, s \in Subtests : ran[i][s] > 0 =>
    /\ pc \notin {"remove", "clear"}
    /\ pc = "search" => i <= k
    /\ pc \in {"execute", "loop", "openjournal", "opencomms", "fork"} =>
         i < next \/ (i = next /\ s \in excluded)
    /\ pc = "test" => i < next \/ (i = next /\ s \in excluded \cup begun)
    /\ pc = "after" => i <= next

\* A test is started in a directory that has both files.
Prepared ==
  /\ pc \in {"openjournal", "opencomms", "fork", "test"} => next \in dirs
  /\ pc = "opencomms" => "journal" \in files[next]
  /\ pc \in {"fork", "test"} => files[next] = {"journal", "comms"}

OrderInv == TypeInv /\ Recorded /\ Passed /\ Prepared

\* The types the arguments below need.
LEMMA SlotFacts ==
  ASSUME OrderInv
  PROVE  /\ MaxSize \in Nat /\ size \in 0..MaxSize /\ next \in 0..MaxSize + 1 /\ k \in 0..MaxSize
         /\ dirs \subseteq Slots /\ files \in [Slots -> SUBSET {"journal", "comms"}]
         /\ journal \in [Slots -> SUBSET (Subtests \cup Marks)]
         /\ comms \in [Slots -> SUBSET (Subtests \cup Marks)]
         /\ ran \in [Slots -> [Subtests -> Nat]]
         /\ InEntry /\ InFill
BY Bounds DEF OrderInv, TypeInv, TypeOK

OrderKept == Recorded' /\ Passed' /\ Prepared'

\* A new run has begun nothing.
LEMMA StartRunOrder == ASSUME OrderInv, StartRun PROVE OrderKept
<1>1. \A i \in Slots, s \in Subtests : ran'[i][s] = 0
  BY DEF StartRun
<1>2. pc' = "remove"
  BY DEF StartRun
<1> QED
  BY <1>1, <1>2 DEF OrderKept, Recorded, Passed, Prepared

\* Nothing was begun in a directory that does not exist.
LEMMA SearchDownOrder == ASSUME OrderInv, SearchDown PROVE OrderKept
<1>1. ASSUME NEW i \in Slots, NEW s \in Subtests, ran[i][s] > 0 PROVE i <= k'
  <2>1. i <= k /\ i # k
    BY <1>1 DEF OrderInv, Recorded, Passed, SearchDown
  <2> QED
    BY <2>1, SlotFacts DEF SearchDown, Slots
<1>2. pc' = "search" /\ pc = "search" /\ UNCHANGED <<disk, seen>>
  BY DEF SearchDown
<1> QED
  BY <1>1, <1>2 DEF OrderKept, OrderInv, Recorded, Passed, Prepared, disk, seen

\* The run goes on behind what was begun in the last directory, or with what is pruned of it.
LEMMA FoundOrder == ASSUME OrderInv, Found PROVE OrderKept
<1>1. ASSUME NEW i \in Slots, NEW s \in Subtests, ran[i][s] > 0
      PROVE  i < next' \/ (i = next' /\ s \in excluded')
  <2>1. i <= k /\ files[i] = {"journal", "comms"} /\ s \in comms[i] \cup journal[i]
    BY <1>1 DEF OrderInv, Recorded, Passed, Found
  <2>2. next' \in {k, k + 1} /\ (next' = k => excluded' = PrunedAt(k))
    BY DEF Found, ContinueAt
  <2>3. i = k => s \in PrunedAt(k)
    BY <2>1 DEF PrunedAt, InComms, InJournal
  <2> QED
    BY <2>1, <2>2, <2>3, SlotFacts DEF Slots
<1>2. pc' = "execute" /\ UNCHANGED <<disk, seen>>
  BY DEF Found
<1> QED
  BY <1>1, <1>2 DEF OrderKept, OrderInv, Recorded, Passed, Prepared, disk, seen

\* The end of a test adds to its two files and takes nothing away.
LEMMA ReportOrder ==
  ASSUME OrderInv, NEW used, NEW out, NEW v, NEW why, NEW already, Report(used, out, v, why, already)
  PROVE  OrderKept
<1>1. \A i \in Slots : comms[i] \subseteq comms'[i] /\ journal[i] \subseteq journal'[i]
  BY SlotFacts DEF Report, Record
<1>2. /\ pc = "test" /\ pc' = "after"
      /\ UNCHANGED <<size, dirs, files, next, excluded, begun, seen>>
  BY DEF Report
<1>3. Recorded'
  BY <1>1, <1>2 DEF OrderInv, Recorded, seen
<1>4. Passed'
  BY <1>2, SlotFacts DEF OrderInv, Passed, seen, Slots
<1> QED
  BY <1>2, <1>3, <1>4 DEF OrderKept, Prepared

\* However a test ends.
LEMMA TestOrder == ASSUME OrderInv, TestExits \/ TestKilled \/ TestStopped
  PROVE OrderKept
BY ReportOrder DEF TestExits, TestKilled, TestStopped

\* The subtest that is begun is recorded before anything else happens.
LEMMA BeginOrder == ASSUME OrderInv, NEW s \in Subtests, BeginSubtest(s)
  PROVE OrderKept
<1>1. /\ pc = "test" /\ pc' = "test" /\ begun' = begun \cup {s}
      /\ ran' = [ran EXCEPT ![next][s] = @ + 1]
      /\ UNCHANGED <<size, dirs, files, next, excluded>>
  BY DEF BeginSubtest
<1>2. next \in Slots /\ next < size
  BY <1>1, SlotFacts DEF InEntry, Slots
<1>3. /\ \A i \in Slots : comms[i] \subseteq comms'[i] /\ journal[i] \subseteq journal'[i]
      /\ s \in comms'[next] \cup journal'[next]
  <2>1. Record(proto = "comms", {s})
    BY Zenon DEF BeginSubtest
  <2> QED
    BY <1>2, <2>1, SlotFacts DEF Record
<1>4. \A i \in Slots, t \in Subtests : ran'[i][t] > 0 => ran[i][t] > 0 \/ (i = next /\ t = s)
  BY <1>1, SlotFacts
<1>5. Recorded'
  BY <1>1, <1>2, <1>3, <1>4 DEF OrderInv, Recorded, Prepared
<1>6. Passed'
  BY <1>1, <1>4 DEF OrderInv, Passed
<1>7. Prepared'
  BY <1>1 DEF OrderInv, Prepared
<1> QED
  BY <1>5, <1>6, <1>7 DEF OrderKept

\* An abort adds to the comms dump.
LEMMA AbortAfterOrder == ASSUME OrderInv, AbortAfter PROVE OrderKept
<1>1. \A i \in Slots : comms[i] \subseteq comms'[i]
  BY SlotFacts DEF AbortAfter
<1>2. pc' = "endtime" /\ UNCHANGED <<size, dirs, files, journal, seen>>
  BY DEF AbortAfter
<1> QED
  BY <1>1, <1>2 DEF OrderKept, OrderInv, Recorded, Passed, Prepared, seen

\* A crash loses nothing that was synced.
LEMMA CrashOrder == ASSUME Sync, OrderInv, Crash PROVE OrderKept
<1>1. \A i \in Slots : comms[i] \subseteq comms'[i]
  BY SlotFacts DEF Crash
<1>2. pc' = "off" /\ UNCHANGED <<size, dirs, files, journal, ran>>
  BY DEF Crash
<1> QED
  BY <1>1, <1>2 DEF OrderKept, OrderInv, Recorded, Passed, Prepared

\* Every step keeps what was begun behind the place where the runner goes on.
LEMMA NextOrder == ASSUME Sync, OrderInv, [Next]_vars PROVE OrderInv'
<1>1. OrderKept
  <2>1. CASE ClearJournal
    BY <2>1, SlotFacts
    DEF ClearJournal, OrderKept, OrderInv, Recorded, Passed, Prepared, InEntry, InFill, Slots, disk, memory, seen
  <2>2. CASE ClearComms
    BY <2>2, SlotFacts
    DEF ClearComms, OrderKept, OrderInv, Recorded, Passed, Prepared, InEntry, InFill, Slots, disk, memory, seen
  <2>3. CASE ClearDirectory
    BY <2>3, SlotFacts
    DEF ClearDirectory, OrderKept, OrderInv, Recorded, Passed, Prepared, InEntry, InFill, Slots, disk, memory, seen
  <2>4. CASE Cleared
    BY <2>4, SlotFacts
    DEF Cleared, OrderKept, OrderInv, Recorded, Passed, Prepared, InEntry, InFill, Slots, disk, memory, seen
  <2>5. CASE ResumeRun
    BY <2>5, SlotFacts
    DEF ResumeRun, OrderKept, OrderInv, Recorded, Passed, Prepared, InEntry, InFill, Slots, disk, memory, seen, SearchFrom
  <2>6. CASE NothingFound
    BY <2>6, SlotFacts
    DEF NothingFound, OrderKept, OrderInv, Recorded, Passed, Prepared, InEntry, InFill, Slots, disk, memory, seen
  <2>7. CASE AllExecuted
    BY <2>7, SlotFacts
    DEF AllExecuted, OrderKept, OrderInv, Recorded, Passed, Prepared, InEntry, InFill, Slots, disk, memory, seen
  <2>8. CASE BootAbort
    BY <2>8, SlotFacts
    DEF BootAbort, OrderKept, OrderInv, Recorded, Passed, Prepared, InEntry, InFill, Slots, disk, memory, seen
  <2>9. CASE BootFine
    BY <2>9, SlotFacts
    DEF BootFine, OrderKept, OrderInv, Recorded, Passed, Prepared, InEntry, InFill, Slots, disk, memory, seen
  <2>10. CASE FillSkip
    BY <2>10, SlotFacts
    DEF FillSkip, OrderKept, OrderInv, Recorded, Passed, Prepared, InEntry, InFill, Slots, disk, memory, seen
  <2>11. CASE FillDirectory
    BY <2>11, SlotFacts
    DEF FillDirectory, OrderKept, OrderInv, Recorded, Passed, Prepared, InEntry, InFill, Slots, disk, memory, seen
  <2>12. CASE FillOpen
    BY <2>12, SlotFacts
    DEF FillOpen, OrderKept, OrderInv, Recorded, Passed, Prepared, InEntry, InFill, Slots, disk, memory, seen
  <2>13. CASE FillWrite
    BY <2>13, SlotFacts
    DEF FillWrite, OrderKept, OrderInv, Recorded, Passed, Prepared, InEntry, InFill, Slots, disk, memory, seen
  <2>14. CASE FillDone
    BY <2>14, SlotFacts
    DEF FillDone, OrderKept, OrderInv, Recorded, Passed, Prepared, InEntry, InFill, Slots, disk, memory, seen
  <2>15. CASE LoopDone
    BY <2>15, SlotFacts
    DEF LoopDone, OrderKept, OrderInv, Recorded, Passed, Prepared, InEntry, InFill, Slots, disk, memory, seen
  <2>16. CASE SignalledBetween
    BY <2>16, SlotFacts
    DEF SignalledBetween, OrderKept, OrderInv, Recorded, Passed, Prepared, InEntry, InFill, Slots, disk, memory, seen
  <2>17. CASE MakeDirectory
    BY <2>17, SlotFacts
    DEF MakeDirectory, OrderKept, OrderInv, Recorded, Passed, Prepared, InEntry, InFill, Slots, disk, memory, seen
  <2>18. CASE OpenJournal
    BY <2>18, SlotFacts
    DEF OpenJournal, OrderKept, OrderInv, Recorded, Passed, Prepared, InEntry, InFill, Slots, disk, memory, seen
  <2>19. CASE OpenComms
    BY <2>19, SlotFacts
    DEF OpenComms, OrderKept, OrderInv, Recorded, Passed, Prepared, InEntry, InFill, Slots, disk, memory, seen
  <2>20. CASE Fork
    BY <2>20, SlotFacts
    DEF Fork, OrderKept, OrderInv, Recorded, Passed, Prepared, InEntry, InFill, Slots, disk, memory, seen
  <2>21. CASE FailAfter
    BY <2>21, SlotFacts
    DEF FailAfter, OrderKept, OrderInv, Recorded, Passed, Prepared, InEntry, InFill, Slots, disk, memory, seen
  <2>22. CASE OverallTimeout
    BY <2>22, SlotFacts
    DEF OverallTimeout, OrderKept, OrderInv, Recorded, Passed, Prepared, InEntry, InFill, Slots, disk, memory, seen
  <2>23. CASE NextEntry
    BY <2>23, SlotFacts
    DEF NextEntry, OrderKept, OrderInv, Recorded, Passed, Prepared, InEntry, InFill, Slots, disk, memory, seen
  <2>24. CASE ResumeAfterKill
    BY <2>24, SlotFacts
    DEF ResumeAfterKill, OrderKept, OrderInv, Recorded, Passed, Prepared, InEntry, InFill, Slots, disk, memory, seen, SearchFrom
  <2>25. CASE WriteEndtime
    BY <2>25, SlotFacts
    DEF WriteEndtime, OrderKept, OrderInv, Recorded, Passed, Prepared, InEntry, InFill, Slots, disk, memory, seen
  <2>26. CASE RemoveTopLevel
    BY <2>26, SlotFacts
    DEF RemoveTopLevel, OrderKept, OrderInv, Recorded, Passed, Prepared, InEntry, InFill, Slots, disk, memory, seen
  <2>27. CASE StartRun
    BY <2>27, StartRunOrder
  <2>28. CASE SearchDown
    BY <2>28, SearchDownOrder
  <2>29. CASE Found
    BY <2>29, FoundOrder
  <2>30. CASE TestExits \/ TestKilled \/ TestStopped
    BY <2>30, TestOrder
  <2>31. CASE \E s \in Subtests : BeginSubtest(s)
    BY <2>31, BeginOrder
  <2>32. CASE AbortAfter
    BY <2>32, AbortAfterOrder
  <2>33. CASE Crash
    BY <2>33, CrashOrder
  <2>34. CASE EntryFails
    <3>1. /\ pc \in {"loop", "openjournal", "opencomms", "fork"} /\ pc' = "after"
          /\ UNCHANGED <<size, dirs, files, journal, comms, next, ran>>
      BY <2>34 DEF EntryFails, disk
    <3>2. Recorded' /\ Prepared'
      BY <3>1 DEF OrderInv, Recorded, Prepared
    <3>3. Passed'
      BY <3>1, SlotFacts DEF OrderInv, Passed, Slots
    <3> QED
      BY <3>2, <3>3 DEF OrderKept
  <2>35. CASE UNCHANGED vars
    BY <2>35 DEF OrderKept, OrderInv, Recorded, Passed, Prepared, vars, disk, memory, seen
  <2> QED
    BY <2>1, <2>2, <2>3, <2>4, <2>5, <2>6, <2>7, <2>8, <2>9, <2>10, <2>11, <2>12, <2>13, <2>14,
       <2>15, <2>16, <2>17, <2>18, <2>19, <2>20, <2>21, <2>22, <2>23, <2>24, <2>25, <2>26,
       <2>27, <2>28, <2>29, <2>30, <2>31, <2>32, <2>33, <2>34, <2>35
    DEF Next, RunnerStep, Clear, Search, Fill, Test, After
<1>2. TypeInv'
  BY NextType DEF OrderInv
<1> QED
  BY <1>1, <1>2 DEF OrderInv, OrderKept

\* A step begins one more subtest in the order of the list, or starts over, or begins none.
LEMMA OrderStep == ASSUME OrderInv, [Next]_vars PROVE [Order!Next]_ran
<1>1. CASE StartRun
  BY <1>1 DEF StartRun, Order!Next, Order!NewRun, Order!Nothing
<1>2. ASSUME NEW s \in Subtests, BeginSubtest(s) PROVE Order!Begin(next, s) /\ next \in Slots
  <2>1. /\ pc = "test" /\ s \notin begun \cup excluded
        /\ ran' = [ran EXCEPT ![next][s] = @ + 1]
    BY <1>2 DEF BeginSubtest
  <2>2. next \in Slots
    BY <2>1, SlotFacts DEF InEntry, Slots
  <2>3. \A i \in Slots, t \in Subtests : ran[i][t] \in Nat
    BY SlotFacts
  <2>4. ran[next][s] = 0
    BY <2>1, <2>2, <2>3 DEF OrderInv, Passed, Slots
  <2>5. \A j \in Slots, t \in Subtests : j > next => ran[j][t] = 0
    BY <2>1, <2>2, <2>3 DEF OrderInv, Passed, Slots
  <2>6. ran' = [ran EXCEPT ![next][s] = 1]
    BY <2>1, <2>2, <2>4, SlotFacts
  <2> QED
    BY <2>2, <2>4, <2>5, <2>6 DEF Order!Begin
<1>3. CASE \E s \in Subtests : BeginSubtest(s)
  BY <1>2, <1>3 DEF Order!Next
<1>4. CASE Clear
  BY <1>4 DEF Clear, RemoveTopLevel, ClearJournal, ClearComms, ClearDirectory, Cleared, disk, memory, seen
<1>5. CASE ResumeRun \/ Search
  BY <1>5 DEF Search, ResumeRun, SearchDown, NothingFound, Found, disk, memory, seen
<1>6. CASE AllExecuted \/ BootAbort \/ BootFine
  BY <1>6 DEF AllExecuted, BootAbort, BootFine, disk, memory, seen
<1>7. CASE Fill
  BY <1>7 DEF Fill, FillSkip, FillDirectory, FillOpen, FillWrite, FillDone, disk, memory, seen
<1>8. CASE LoopDone \/ SignalledBetween \/ MakeDirectory \/ OpenJournal \/ OpenComms \/ Fork \/ EntryFails
  BY <1>8 DEF LoopDone, SignalledBetween, MakeDirectory, OpenJournal, OpenComms, Fork, EntryFails, disk, memory, seen
<1>9. CASE TestExits \/ TestKilled \/ TestStopped
  BY <1>9 DEF TestExits, TestKilled, TestStopped, Report, disk, memory, seen
<1>10. CASE After
  BY <1>10 DEF After, AbortAfter, FailAfter, OverallTimeout, NextEntry, ResumeAfterKill, disk, memory, seen
<1>11. CASE WriteEndtime \/ Crash \/ UNCHANGED vars
  BY <1>11 DEF WriteEndtime, Crash, vars, disk, memory, seen
<1> QED
  BY <1>1, <1>3, <1>4, <1>5, <1>6, <1>7, <1>8, <1>9, <1>10, <1>11 DEF Next, RunnerStep, Test

\* With everything synced no crash, kill or resume makes execute() run a subtest a
\* second time, or an entry of the list after a later one: it implements EachOnce.
THEOREM OrderIsKept == Sync => (Spec => KeepsOrder)
<1> SUFFICES ASSUME Sync PROVE Spec => KeepsOrder
  OBVIOUS
<1>1. Init => OrderInv /\ Order!Init
  <2> SUFFICES ASSUME Init PROVE OrderInv /\ Order!Init
    OBVIOUS
  <2>1. \A i \in Slots, s \in Subtests : ~(ran[i][s] > 0)
    BY DEF Init
  <2>2. pc = "off" /\ Order!Init
    BY DEF Init, Order!Init, Order!Nothing
  <2> QED
    BY <2>1, <2>2, InitType DEF OrderInv, Recorded, Passed, Prepared
<1>2. OrderInv /\ [Next]_vars => OrderInv'
  BY NextOrder
<1>3. OrderInv /\ [Next]_vars => [Order!Next]_ran
  BY OrderStep
<1> QED
  BY <1>1, <1>2, <1>3, PTL DEF Spec, KeepsOrder, Order!Spec
-----------------------------------------------------------------------------
(* What the results directory holds, as long as no clearing of old results *)
(* was cut short and nobody leaves files of his own in it: the directories *)
(* are those of the entries reached so far, the runner never enters one a  *)
(* second time, and what a test reports is all in one of its two files.    *)

Both == {"journal", "comms"}

\* The numbered directories have no gap; they are cleared from the first one on.
From == IF pc = "clear" THEN k ELSE 0
Gapless == \A i \in dirs : From <= i /\ \A j \in From..i - 1 : j \in dirs

\* The two files are opened, and cleared, in this order; the subtests are in one of them.
Tidy(i) ==
  /\ files[i] \in {{}, {"journal"}, Both} \/ (pc = "clear" /\ i = k /\ files[i] = {"comms"})
  /\ "comms" \notin files[i] => comms[i] = {}
  /\ files[i] # Both => journal[i] = {}
  /\ i \notin dirs => files[i] = {}
  /\ InComms(i) = {} \/ InJournal(i) = {}
AllTidy == \A i \in Slots : Tidy(i)

Executing == {"execute", "loop", "openjournal", "opencomms", "fork", "test", "after", "endtime"}

\* The directories lead up to the place where the runner is.
Reached ==
  /\ pc \notin {"remove", "clear"} => \A i \in dirs : i < size
  /\ pc = "search" => \A i \in dirs : i <= k
  /\ pc \in Executing => /\ \A i \in dirs : i <= next
                         /\ \A i \in 0..next - 1 : i \in dirs
  /\ pc \in {"openjournal", "opencomms", "fork", "test"} => next \in dirs
  /\ pc \in {"fill", "fillopen", "fillwrite"} => aborted /\ \A i \in 0..k - 1 : i \in dirs
  /\ pc \in {"fillopen", "fillwrite"} => k \in dirs
  /\ pc = "fillwrite" => files[k] = Both

\* All of them but the last have their journal.
Journaled ==
  /\ pc \notin {"remove", "clear"} =>
       \A i \in dirs, j \in dirs : i < j => aborted \/ "journal" \in files[i]
  /\ pc \in Executing => \A i \in dirs : i < next => aborted \/ "journal" \in files[i]

\* What has been recorded of the entry that is executed.
Entered ==
  /\ pc \in {"execute", "loop", "openjournal"} /\ next < size => files[next] = {}
  /\ pc = "opencomms" => files[next] = {"journal"}
  /\ pc = "fork" => files[next] = Both /\ comms[next] = {} /\ journal[next] = {} /\ begun = {}
  /\ pc = "test" => /\ files[next] = Both
                    /\ comms[next] \cap {"newline", "torn", "abort"} = {}
                    /\ proto = "journal" => InComms(next) = {}
                    /\ proto = "comms" => InJournal(next) = {} /\ begun \subseteq comms[next]
  /\ pc = "after" => /\ ~Unparsable(next)
                     /\ outcome = "ok" => files[next] = Both
                     /\ written => "abort" \in comms[next] /\ comms[next] \ {"exec", "abort"} # {}
                     /\ ~written => "abort" \notin comms[next]

\* How the execution ends.
Ending ==
  /\ pc = "loop" /\ next >= size => ~reason
  /\ pc = "endtime" /\ status = "true" => next >= size
  /\ AbortLeavesRecord
  /\ CompleteWhenDone

Clean == Gapless /\ AllTidy /\ Reached /\ Journaled /\ Entered /\ Ending
CleanInv == TypeInv /\ (~cut => Clean)

\* The types the arguments below need.
LEMMA CleanTypes ==
  ASSUME TypeInv
  PROVE  /\ MaxSize \in Nat /\ size \in 0..MaxSize /\ next \in 0..MaxSize + 1 /\ k \in 0..MaxSize
         /\ dirs \subseteq 0..MaxSize - 1 /\ Slots = 0..MaxSize - 1
         /\ files \in [Slots -> SUBSET Both]
         /\ journal \in [Slots -> SUBSET (Subtests \cup Marks)]
         /\ comms \in [Slots -> SUBSET (Subtests \cup Marks)]
         /\ InEntry /\ InFill /\ Subtests \cap Marks = {} /\ cut \in BOOLEAN
BY Bounds, ExecutorAssumption DEF TypeInv, TypeOK, ExecutorAssumption, Marks, Slots, Both

\* The comms dump goes last.
LEMMA ClearCommsClean ==
  ASSUME Extra = {}, TypeInv, Clean, ClearComms
  PROVE  Clean'
<1>1. Gapless'
  BY CleanTypes
  DEF ClearComms, Clean, Gapless, From, Reached, Executing, InEntry, InFill, disk, memory, seen
<1>2. AllTidy'
  <2> SUFFICES ASSUME NEW i \in Slots PROVE Tidy(i)'
    BY DEF AllTidy
  <2>1. /\ Tidy(i) /\ k \in Slots /\ files[k] = {"comms"} /\ UNCHANGED <<k, dirs, pc, journal>>
        /\ files' = [files EXCEPT ![k] = {}] /\ comms' = [comms EXCEPT ![k] = {}]
    BY CleanTypes DEF Clean, AllTidy, ClearComms, memory
  <2>2. CASE i = k
    <3>1. files'[k] = {} /\ comms'[k] = {} /\ k \in dirs'
      BY <2>1, CleanTypes DEF ClearComms
    <3>2. journal'[k] = {}
      BY <2>1, <2>2 DEF Tidy, Both
    <3> QED
      BY <2>2, <3>1, <3>2 DEF Tidy, InComms, InJournal, Both
  <2>3. CASE i # k
    BY <2>1, <2>3, CleanTypes DEF Tidy, InComms, InJournal
  <2> QED
    BY <2>2, <2>3
<1>3. Reached'
  BY CleanTypes
  DEF ClearComms, Clean, Reached, Both, Executing, Gapless, From, InEntry, InFill, disk, memory,
     seen
<1>4. Journaled'
  BY CleanTypes
  DEF ClearComms, Clean, Journaled, Reached, Executing, Both, Entered, InEntry, InFill, disk,
     memory, seen
<1>5. Entered'
  BY CleanTypes
  DEF ClearComms, Clean, Entered, AllTidy, Tidy, Unparsable, InComms, InJournal, Both, Reached,
     Executing, InEntry, InFill, disk, memory, seen
<1>6. Ending'
  BY CleanTypes
  DEF ClearComms, Clean, Ending, AbortLeavesRecord, CompleteWhenDone, Unparsable, Entered,
     Reached, Journaled, Executing, InEntry, InFill, disk, memory, seen
<1> QED
  BY <1>1, <1>2, <1>3, <1>4, <1>5, <1>6 DEF Clean

\* The empty directory goes, as nobody has left files in it.
LEMMA ClearDirectoryClean ==
  ASSUME Extra = {}, TypeInv, Clean, ClearDirectory
  PROVE  Clean'
<1>1. Gapless'
  BY CleanTypes
  DEF ClearDirectory, Clean, Gapless, From, Reached, Executing, InEntry, InFill, disk, memory,
     seen
<1>2. AllTidy'
  BY CleanTypes
  DEF ClearDirectory, Clean, AllTidy, Tidy, InComms, InJournal, Both, Reached, Executing, Entered,
     InEntry, InFill, disk, memory, seen
<1>3. Reached'
  BY CleanTypes
  DEF ClearDirectory, Clean, Reached, Both, Executing, Gapless, From, InEntry, InFill, disk,
     memory, seen
<1>4. Journaled'
  BY CleanTypes
  DEF ClearDirectory, Clean, Journaled, Reached, Executing, Both, Entered, InEntry, InFill, disk,
     memory, seen
<1>5. Entered'
  BY CleanTypes
  DEF ClearDirectory, Clean, Entered, AllTidy, Tidy, Unparsable, InComms, InJournal, Both,
     Reached, Executing, InEntry, InFill, disk, memory, seen
<1>6. Ending'
  BY CleanTypes
  DEF ClearDirectory, Clean, Ending, AbortLeavesRecord, CompleteWhenDone, Unparsable, Entered,
     Reached, Journaled, Executing, InEntry, InFill, disk, memory, seen
<1> QED
  BY <1>1, <1>2, <1>3, <1>4, <1>5, <1>6 DEF Clean

\* Nothing is left behind.
LEMMA ClearedClean ==
  ASSUME Extra = {}, TypeInv, Clean, Cleared
  PROVE  Clean'
<1>1. dirs = {}
  <2> SUFFICES ASSUME NEW i \in dirs PROVE FALSE
    OBVIOUS
  <2>1. k <= i /\ (\A j \in k..i - 1 : j \in dirs) /\ k \notin dirs
    BY DEF Clean, Gapless, From, Cleared
  <2> QED
    BY <2>1, CleanTypes
<1>2. Gapless'
  BY <1>1, CleanTypes
  DEF Cleared, Clean, Gapless, From, Reached, Executing, InEntry, InFill, disk, memory, seen
<1>3. AllTidy'
  BY <1>1, CleanTypes
  DEF Cleared, Clean, AllTidy, Tidy, InComms, InJournal, Both, Reached, Executing, Entered,
     InEntry, InFill, disk, memory, seen
<1>4. Reached'
  BY <1>1, CleanTypes
  DEF Cleared, Clean, Reached, Both, Executing, Gapless, From, InEntry, InFill, disk, memory, seen
<1>5. Journaled'
  BY <1>1, CleanTypes
  DEF Cleared, Clean, Journaled, Reached, Executing, Both, Entered, InEntry, InFill, disk, memory,
     seen
<1>6. Entered'
  BY <1>1, CleanTypes
  DEF Cleared, Clean, Entered, AllTidy, Tidy, Unparsable, InComms, InJournal, Both, Reached,
     Executing, InEntry, InFill, disk, memory, seen
<1>7. Ending'
  BY <1>1, CleanTypes
  DEF Cleared, Clean, Ending, AbortLeavesRecord, CompleteWhenDone, Unparsable, Entered, Reached,
     Journaled, Executing, InEntry, InFill, disk, memory, seen
<1> QED
  BY <1>1, <1>2, <1>3, <1>4, <1>5, <1>6, <1>7 DEF Clean

\* The search begins above all directories.
LEMMA ResumeRunClean ==
  ASSUME Extra = {}, TypeInv, Clean, ResumeRun
  PROVE  Clean'
<1>1. Gapless'
  BY CleanTypes
  DEF ResumeRun, Clean, Gapless, From, Reached, Executing, InEntry, InFill, disk, memory, seen,
     SearchFrom
<1>2. AllTidy'
  BY CleanTypes
  DEF ResumeRun, Clean, AllTidy, Tidy, InComms, InJournal, Both, Reached, Executing, Entered,
     InEntry, InFill, disk, memory, seen, SearchFrom
<1>3. Reached'
  BY CleanTypes
  DEF ResumeRun, Clean, Reached, Both, Executing, Gapless, From, InEntry, InFill, disk, memory,
     seen, SearchFrom
<1>4. Journaled'
  BY CleanTypes
  DEF ResumeRun, Clean, Journaled, Reached, Executing, Both, Entered, InEntry, InFill, disk,
     memory, seen, SearchFrom
<1>5. Entered'
  BY CleanTypes
  DEF ResumeRun, Clean, Entered, AllTidy, Tidy, Unparsable, InComms, InJournal, Both, Reached,
     Executing, InEntry, InFill, disk, memory, seen, SearchFrom
<1>6. Ending'
  BY CleanTypes
  DEF ResumeRun, Clean, Ending, AbortLeavesRecord, CompleteWhenDone, Unparsable, Entered, Reached,
     Journaled, Executing, InEntry, InFill, disk, memory, seen, SearchFrom
<1> QED
  BY <1>1, <1>2, <1>3, <1>4, <1>5, <1>6 DEF Clean

\* A directory the last execution got to fill is done with, an empty one is taken over.
LEMMA FoundClean ==
  ASSUME Extra = {}, TypeInv, Clean, Found
  PROVE  Clean'
<1>1. (next' = k /\ files[k] = {}) \/ (next' = k + 1 /\ "journal" \in files[k])
  <2>1. k \in Slots /\ Tidy(k) /\ pc = "search"
    BY CleanTypes DEF Clean, AllTidy, Found
  <2>2. CASE files[k] = {}
    BY <2>2 DEF Found, ContinueAt, CommsSaysDone, JournalSaysDone
  <2>3. CASE files[k] # {}
    <3>1. CommsSaysDone(k) \/ JournalSaysDone(k)
      BY <2>1, <2>3 DEF Tidy, CommsSaysDone, JournalSaysDone, InComms, InJournal, Both
    <3>2. "journal" \in files[k]
      BY <2>1, <2>3 DEF Tidy, Both
    <3> QED
      BY <3>1, <3>2 DEF Found, ContinueAt
  <2> QED
    BY <2>2, <2>3
<1>2. Gapless'
  BY <1>1, CleanTypes
  DEF Found, Clean, Gapless, From, Reached, Executing, InEntry, InFill, disk, memory, seen
<1>3. AllTidy'
  BY <1>1, CleanTypes
  DEF Found, Clean, AllTidy, Tidy, InComms, InJournal, Both, Reached, Executing, Entered, InEntry,
     InFill, disk, memory, seen
<1>4. Reached'
  BY <1>1, CleanTypes
  DEF Found, Clean, Reached, Both, Executing, Gapless, From, InEntry, InFill, disk, memory, seen
<1>5. Journaled'
  <2>1. \A i \in dirs : i <= k
    BY DEF Clean, Reached, Found
  <2>2. \A i \in dirs : i < next' => aborted \/ "journal" \in files[i]
    BY <1>1, <2>1, CleanTypes DEF Clean, Journaled, Found
  <2> QED
    BY <2>2 DEF Clean, Journaled, Found, disk
<1>6. Entered'
  BY <1>1, CleanTypes
  DEF Found, Clean, Entered, AllTidy, Tidy, Unparsable, InComms, InJournal, Both, Reached,
     Executing, InEntry, InFill, disk, memory, seen
<1>7. Ending'
  BY <1>1, CleanTypes
  DEF Found, Clean, Ending, AbortLeavesRecord, CompleteWhenDone, Unparsable, Entered, Reached,
     Journaled, Executing, InEntry, InFill, disk, memory, seen
<1> QED
  BY <1>1, <1>2, <1>3, <1>4, <1>5, <1>6, <1>7 DEF Clean

\* All entries up to the end of the list have their directories.
LEMMA AllExecutedClean ==
  ASSUME Extra = {}, TypeInv, Clean, AllExecuted
  PROVE  Clean'
<1>1. Gapless'
  BY CleanTypes
  DEF AllExecuted, Clean, Gapless, From, Reached, Executing, InEntry, InFill, disk, memory, seen
<1>2. AllTidy'
  BY CleanTypes
  DEF AllExecuted, Clean, AllTidy, Tidy, InComms, InJournal, Both, Reached, Executing, Entered,
     InEntry, InFill, disk, memory, seen
<1>3. Reached'
  BY CleanTypes
  DEF AllExecuted, Clean, Reached, Both, Executing, Gapless, From, InEntry, InFill, disk, memory,
     seen
<1>4. Journaled'
  BY CleanTypes
  DEF AllExecuted, Clean, Journaled, Reached, Executing, Both, Entered, InEntry, InFill, disk,
     memory, seen
<1>5. Entered'
  BY CleanTypes
  DEF AllExecuted, Clean, Entered, AllTidy, Tidy, Unparsable, InComms, InJournal, Both, Reached,
     Executing, InEntry, InFill, disk, memory, seen
<1>6. Ending'
  BY CleanTypes
  DEF AllExecuted, Clean, Ending, AbortLeavesRecord, CompleteWhenDone, Unparsable, Entered,
     Reached, Journaled, Executing, InEntry, InFill, disk, memory, seen
<1> QED
  BY <1>1, <1>2, <1>3, <1>4, <1>5, <1>6 DEF Clean

\* The abort is on disk before the directories are filled.
LEMMA BootAbortClean ==
  ASSUME Extra = {}, TypeInv, Clean, BootAbort
  PROVE  Clean'
<1>1. Gapless'
  BY CleanTypes
  DEF BootAbort, Clean, Gapless, From, Reached, Executing, InEntry, InFill, disk, memory, seen
<1>2. AllTidy'
  BY CleanTypes
  DEF BootAbort, Clean, AllTidy, Tidy, InComms, InJournal, Both, Reached, Executing, Entered,
     InEntry, InFill, disk, memory, seen
<1>3. Reached'
  BY CleanTypes
  DEF BootAbort, Clean, Reached, Both, Executing, Gapless, From, InEntry, InFill, disk, memory,
     seen
<1>4. Journaled'
  BY CleanTypes
  DEF BootAbort, Clean, Journaled, Reached, Executing, Both, Entered, InEntry, InFill, disk,
     memory, seen
<1>5. Entered'
  BY CleanTypes
  DEF BootAbort, Clean, Entered, AllTidy, Tidy, Unparsable, InComms, InJournal, Both, Reached,
     Executing, InEntry, InFill, disk, memory, seen
<1>6. Ending'
  BY CleanTypes
  DEF BootAbort, Clean, Ending, AbortLeavesRecord, CompleteWhenDone, Unparsable, Entered, Reached,
     Journaled, Executing, InEntry, InFill, disk, memory, seen
<1> QED
  BY <1>1, <1>2, <1>3, <1>4, <1>5, <1>6 DEF Clean

\* The loop begins where the search has ended.
LEMMA BootFineClean ==
  ASSUME Extra = {}, TypeInv, Clean, BootFine
  PROVE  Clean'
<1>1. Gapless'
  BY CleanTypes
  DEF BootFine, Clean, Gapless, From, Reached, Executing, InEntry, InFill, disk, memory, seen
<1>2. AllTidy'
  BY CleanTypes
  DEF BootFine, Clean, AllTidy, Tidy, InComms, InJournal, Both, Reached, Executing, Entered,
     InEntry, InFill, disk, memory, seen
<1>3. Reached'
  BY CleanTypes
  DEF BootFine, Clean, Reached, Both, Executing, Gapless, From, InEntry, InFill, disk, memory,
     seen
<1>4. Journaled'
  BY CleanTypes
  DEF BootFine, Clean, Journaled, Reached, Executing, Both, Entered, InEntry, InFill, disk,
     memory, seen
<1>5. Entered'
  BY CleanTypes
  DEF BootFine, Clean, Entered, AllTidy, Tidy, Unparsable, InComms, InJournal, Both, Reached,
     Executing, InEntry, InFill, disk, memory, seen
<1>6. Ending'
  BY CleanTypes
  DEF BootFine, Clean, Ending, AbortLeavesRecord, CompleteWhenDone, Unparsable, Entered, Reached,
     Journaled, Executing, InEntry, InFill, disk, memory, seen
<1> QED
  BY <1>1, <1>2, <1>3, <1>4, <1>5, <1>6 DEF Clean

\* A directory that exists is passed over.
LEMMA FillSkipClean ==
  ASSUME Extra = {}, TypeInv, Clean, FillSkip
  PROVE  Clean'
<1>1. Gapless'
  BY CleanTypes
  DEF FillSkip, Clean, Gapless, From, Reached, Executing, InEntry, InFill, disk, memory, seen
<1>2. AllTidy'
  BY CleanTypes
  DEF FillSkip, Clean, AllTidy, Tidy, InComms, InJournal, Both, Reached, Executing, Entered,
     InEntry, InFill, disk, memory, seen
<1>3. Reached'
  BY CleanTypes
  DEF FillSkip, Clean, Reached, Both, Executing, Gapless, From, InEntry, InFill, disk, memory,
     seen
<1>4. Journaled'
  BY CleanTypes
  DEF FillSkip, Clean, Journaled, Reached, Executing, Both, Entered, InEntry, InFill, disk,
     memory, seen
<1>5. Entered'
  BY CleanTypes
  DEF FillSkip, Clean, Entered, AllTidy, Tidy, Unparsable, InComms, InJournal, Both, Reached,
     Executing, InEntry, InFill, disk, memory, seen
<1>6. Ending'
  BY CleanTypes
  DEF FillSkip, Clean, Ending, AbortLeavesRecord, CompleteWhenDone, Unparsable, Entered, Reached,
     Journaled, Executing, InEntry, InFill, disk, memory, seen
<1> QED
  BY <1>1, <1>2, <1>3, <1>4, <1>5, <1>6 DEF Clean

\* The next one is made.
LEMMA FillDirectoryClean ==
  ASSUME Extra = {}, TypeInv, Clean, FillDirectory
  PROVE  Clean'
<1>1. Gapless'
  BY CleanTypes
  DEF FillDirectory, Clean, Gapless, From, Reached, Executing, InEntry, InFill, disk, memory, seen
<1>2. AllTidy'
  BY CleanTypes
  DEF FillDirectory, Clean, AllTidy, Tidy, InComms, InJournal, Both, Reached, Executing, Entered,
     InEntry, InFill, disk, memory, seen
<1>3. Reached'
  BY CleanTypes
  DEF FillDirectory, Clean, Reached, Both, Executing, Gapless, From, InEntry, InFill, disk,
     memory, seen
<1>4. Journaled'
  BY CleanTypes
  DEF FillDirectory, Clean, Journaled, Reached, Executing, Both, Entered, InEntry, InFill, disk,
     memory, seen
<1>5. Entered'
  BY CleanTypes
  DEF FillDirectory, Clean, Entered, AllTidy, Tidy, Unparsable, InComms, InJournal, Both, Reached,
     Executing, InEntry, InFill, disk, memory, seen
<1>6. Ending'
  BY CleanTypes
  DEF FillDirectory, Clean, Ending, AbortLeavesRecord, CompleteWhenDone, Unparsable, Entered,
     Reached, Journaled, Executing, InEntry, InFill, disk, memory, seen
<1> QED
  BY <1>1, <1>2, <1>3, <1>4, <1>5, <1>6 DEF Clean

\* The forced result goes to the journal.
LEMMA FillWriteClean ==
  ASSUME Extra = {}, TypeInv, Clean, FillWrite
  PROVE  Clean'
<1>1. Gapless'
  BY CleanTypes
  DEF FillWrite, Clean, Gapless, From, Reached, Executing, InEntry, InFill, disk, memory, seen
<1>2. AllTidy'
  <2> SUFFICES ASSUME NEW i \in Slots PROVE Tidy(i)'
    BY DEF AllTidy
  <2>1. /\ Tidy(i) /\ k \in Slots /\ files[k] = Both /\ UNCHANGED <<dirs, files, comms>>
        /\ journal' = [journal EXCEPT ![k] = @ \cup {"graceful"}] /\ pc = "fillwrite"
    BY CleanTypes DEF Clean, AllTidy, Reached, InFill, FillWrite
  <2>2. CASE i = k
    BY <2>1, <2>2, CleanTypes DEF Tidy, InComms, InJournal, Both, Marks
  <2>3. CASE i # k
    BY <2>1, <2>3, CleanTypes DEF Tidy, InComms, InJournal
  <2> QED
    BY <2>2, <2>3
<1>3. Reached'
  BY CleanTypes
  DEF FillWrite, Clean, Reached, Both, Executing, Gapless, From, InEntry, InFill, disk, memory,
     seen
<1>4. Journaled'
  BY CleanTypes
  DEF FillWrite, Clean, Journaled, Reached, Executing, Both, Entered, InEntry, InFill, disk,
     memory, seen
<1>5. Entered'
  BY CleanTypes
  DEF FillWrite, Clean, Entered, AllTidy, Tidy, Unparsable, InComms, InJournal, Both, Reached,
     Executing, InEntry, InFill, disk, memory, seen
<1>6. Ending'
  BY CleanTypes
  DEF FillWrite, Clean, Ending, AbortLeavesRecord, CompleteWhenDone, Unparsable, Entered, Reached,
     Journaled, Executing, InEntry, InFill, disk, memory, seen
<1> QED
  BY <1>1, <1>2, <1>3, <1>4, <1>5, <1>6 DEF Clean

\* The directory of the entry is made, if it is not there.
LEMMA MakeDirectoryClean ==
  ASSUME Extra = {}, TypeInv, Clean, MakeDirectory
  PROVE  Clean'
<1>1. Gapless'
  BY CleanTypes
  DEF MakeDirectory, Clean, Gapless, From, Reached, Executing, InEntry, InFill, disk, memory, seen
<1>2. AllTidy'
  BY CleanTypes
  DEF MakeDirectory, Clean, AllTidy, Tidy, InComms, InJournal, Both, Reached, Executing, Entered,
     InEntry, InFill, disk, memory, seen
<1>3. Reached'
  BY CleanTypes
  DEF MakeDirectory, Clean, Reached, Both, Executing, Gapless, From, InEntry, InFill, disk,
     memory, seen
<1>4. Journaled'
  BY CleanTypes
  DEF MakeDirectory, Clean, Journaled, Reached, Executing, Both, Entered, InEntry, InFill, disk,
     memory, seen
<1>5. Entered'
  BY CleanTypes
  DEF MakeDirectory, Clean, Entered, AllTidy, Tidy, Unparsable, InComms, InJournal, Both, Reached,
     Executing, InEntry, InFill, disk, memory, seen
<1>6. Ending'
  BY CleanTypes
  DEF MakeDirectory, Clean, Ending, AbortLeavesRecord, CompleteWhenDone, Unparsable, Entered,
     Reached, Journaled, Executing, InEntry, InFill, disk, memory, seen
<1> QED
  BY <1>1, <1>2, <1>3, <1>4, <1>5, <1>6 DEF Clean

\* The name of the test is the first to be recorded.
LEMMA ForkClean ==
  ASSUME Extra = {}, TypeInv, Clean, Fork
  PROVE  Clean'
<1>1. Gapless'
  BY CleanTypes
  DEF Fork, Clean, Gapless, From, Reached, Executing, InEntry, InFill, disk, memory, seen, Marks
<1>2. AllTidy'
  <2> SUFFICES ASSUME NEW i \in Slots PROVE Tidy(i)'
    BY DEF AllTidy
  <2>1. Tidy(i) /\ next \in Slots
    BY CleanTypes DEF Clean, AllTidy, Fork, InEntry, InFill
  <2>2. CASE i = next
    BY <2>1, <2>2, CleanTypes
    DEF Fork, Clean, Entered, Reached, Tidy, InComms, InJournal, Both, Marks, disk, memory, seen
  <2>3. CASE i # next
    BY <2>1, <2>3, CleanTypes
    DEF Fork, Tidy, InComms, InJournal, disk, memory, seen
  <2> QED
    BY <2>2, <2>3
<1>3. Reached'
  BY CleanTypes
  DEF Fork, Clean, Reached, Both, Executing, Gapless, From, InEntry, InFill, disk, memory, seen,
     Marks
<1>4. Journaled'
  BY CleanTypes
  DEF Fork, Clean, Journaled, Reached, Executing, Both, Entered, InEntry, InFill, disk, memory,
     seen, Marks
<1>5. Entered'
  <2>1. /\ next \in Slots /\ pc' = "test" /\ comms' = [comms EXCEPT ![next] = @ \cup {"exec"}]
        /\ UNCHANGED <<next, files, journal, begun, proto>>
    BY CleanTypes DEF Fork, InEntry, memory, seen
  <2>2. files[next] = Both /\ comms[next] = {} /\ journal[next] = {} /\ begun = {}
    BY <2>1 DEF Clean, Entered, Fork
  <2>3. comms'[next] = {"exec"} /\ "exec" \notin Subtests
    BY <2>1, <2>2, CleanTypes DEF Marks
  <2> QED
    BY <2>1, <2>2, <2>3 DEF Entered, InComms, InJournal
<1>6. Ending'
  BY CleanTypes
  DEF Fork, Clean, Ending, AbortLeavesRecord, CompleteWhenDone, Unparsable, Entered, Reached,
     Journaled, Executing, InEntry, InFill, disk, memory, seen, Marks
<1> QED
  BY <1>1, <1>2, <1>3, <1>4, <1>5, <1>6 DEF Clean

\* What cannot be made is not there.
LEMMA EntryFailsClean ==
  ASSUME Extra = {}, TypeInv, Clean, EntryFails
  PROVE  Clean'
<1>1. Gapless'
  BY CleanTypes
  DEF EntryFails, Clean, Gapless, From, Reached, Executing, InEntry, InFill, disk, memory, seen
<1>2. AllTidy'
  BY CleanTypes
  DEF EntryFails, Clean, AllTidy, Tidy, InComms, InJournal, Both, Reached, Executing, Entered,
     InEntry, InFill, disk, memory, seen
<1>3. Reached'
  BY CleanTypes
  DEF EntryFails, Clean, Reached, Both, Executing, Gapless, From, InEntry, InFill, disk, memory,
     seen
<1>4. Journaled'
  BY CleanTypes
  DEF EntryFails, Clean, Journaled, Reached, Executing, Both, Entered, InEntry, InFill, disk,
     memory, seen
<1>5. Entered'
  BY CleanTypes
  DEF EntryFails, Clean, Entered, AllTidy, Tidy, Unparsable, InComms, InJournal, Both, Reached,
     Executing, InEntry, InFill, disk, memory, seen
<1>6. Ending'
  BY CleanTypes
  DEF EntryFails, Clean, Ending, AbortLeavesRecord, CompleteWhenDone, Unparsable, Entered,
     Reached, Journaled, Executing, InEntry, InFill, disk, memory, seen
<1> QED
  BY <1>1, <1>2, <1>3, <1>4, <1>5, <1>6 DEF Clean

\* The entry that was executed has its journal.
LEMMA NextEntryClean ==
  ASSUME Extra = {}, TypeInv, Clean, NextEntry
  PROVE  Clean'
<1>1. Gapless'
  BY CleanTypes
  DEF NextEntry, Clean, Gapless, From, Reached, Executing, InEntry, InFill, disk, memory, seen
<1>2. AllTidy'
  BY CleanTypes
  DEF NextEntry, Clean, AllTidy, Tidy, InComms, InJournal, Both, Reached, Executing, Entered,
     InEntry, InFill, disk, memory, seen
<1>3. Reached'
  <2>1. next \in dirs
    BY CleanTypes DEF Clean, Entered, AllTidy, Tidy, NextEntry, InEntry, Both
  <2> QED
    BY <2>1, CleanTypes DEF NextEntry, Clean, Reached, Executing, InEntry, disk
<1>4. Journaled'
  BY CleanTypes
  DEF NextEntry, Clean, Journaled, Reached, Executing, Both, Entered, InEntry, InFill, disk,
     memory, seen
<1>5. Entered'
  BY CleanTypes
  DEF NextEntry, Clean, Entered, AllTidy, Tidy, Unparsable, InComms, InJournal, Both, Reached,
     Executing, InEntry, InFill, disk, memory, seen
<1>6. Ending'
  BY CleanTypes
  DEF NextEntry, Clean, Ending, AbortLeavesRecord, CompleteWhenDone, Unparsable, Entered, Reached,
     Journaled, Executing, InEntry, InFill, disk, memory, seen
<1> QED
  BY <1>1, <1>2, <1>3, <1>4, <1>5, <1>6 DEF Clean

\* A killed test is a reason to look again where to go on.
LEMMA ResumeAfterKillClean ==
  ASSUME Extra = {}, TypeInv, Clean, ResumeAfterKill
  PROVE  Clean'
<1>1. Gapless'
  BY CleanTypes
  DEF ResumeAfterKill, Clean, Gapless, From, Reached, Executing, InEntry, InFill, disk, memory,
     seen, SearchFrom
<1>2. AllTidy'
  BY CleanTypes
  DEF ResumeAfterKill, Clean, AllTidy, Tidy, InComms, InJournal, Both, Reached, Executing,
     Entered, InEntry, InFill, disk, memory, seen, SearchFrom
<1>3. Reached'
  BY CleanTypes
  DEF ResumeAfterKill, Clean, Reached, Both, Executing, Gapless, From, InEntry, InFill, disk,
     memory, seen, SearchFrom
<1>4. Journaled'
  BY CleanTypes
  DEF ResumeAfterKill, Clean, Journaled, Reached, Executing, Both, Entered, InEntry, InFill, disk,
     memory, seen, SearchFrom
<1>5. Entered'
  BY CleanTypes
  DEF ResumeAfterKill, Clean, Entered, AllTidy, Tidy, Unparsable, InComms, InJournal, Both,
     Reached, Executing, InEntry, InFill, disk, memory, seen, SearchFrom
<1>6. Ending'
  BY CleanTypes
  DEF ResumeAfterKill, Clean, Ending, AbortLeavesRecord, CompleteWhenDone, Unparsable, Entered,
     Reached, Journaled, Executing, InEntry, InFill, disk, memory, seen, SearchFrom
<1> QED
  BY <1>1, <1>2, <1>3, <1>4, <1>5, <1>6 DEF Clean

\* An execution that came to its end has got through the list.
LEMMA WriteEndtimeClean ==
  ASSUME Extra = {}, TypeInv, Clean, WriteEndtime
  PROVE  Clean'
<1>1. Gapless'
  BY CleanTypes
  DEF WriteEndtime, Clean, Gapless, From, Reached, Executing, InEntry, InFill, disk, memory, seen
<1>2. AllTidy'
  BY CleanTypes
  DEF WriteEndtime, Clean, AllTidy, Tidy, InComms, InJournal, Both, Reached, Executing, Entered,
     InEntry, InFill, disk, memory, seen
<1>3. Reached'
  BY CleanTypes
  DEF WriteEndtime, Clean, Reached, Both, Executing, Gapless, From, InEntry, InFill, disk, memory,
     seen
<1>4. Journaled'
  BY CleanTypes
  DEF WriteEndtime, Clean, Journaled, Reached, Executing, Both, Entered, InEntry, InFill, disk,
     memory, seen
<1>5. Entered'
  BY CleanTypes
  DEF WriteEndtime, Clean, Entered, AllTidy, Tidy, Unparsable, InComms, InJournal, Both, Reached,
     Executing, InEntry, InFill, disk, memory, seen
<1>6. Ending'
  BY CleanTypes
  DEF WriteEndtime, Clean, Ending, AbortLeavesRecord, CompleteWhenDone, Unparsable, Entered,
     Reached, Journaled, Executing, InEntry, InFill, disk, memory, seen
<1> QED
  BY <1>1, <1>2, <1>3, <1>4, <1>5, <1>6 DEF Clean

\* The dump the abort is recorded in can be read and holds results.
LEMMA AbortAfterClean ==
  ASSUME Extra = {}, TypeInv, Clean, AbortAfter
  PROVE  Clean'
<1>1. Gapless'
  BY CleanTypes
  DEF AbortAfter, Clean, Gapless, From, Reached, Executing, InEntry, InFill, disk, memory, seen,
     ValidComms, Marks
<1>2. AllTidy'
  <2> SUFFICES ASSUME NEW i \in Slots PROVE Tidy(i)'
    BY DEF AllTidy
  <2>1. /\ Tidy(i) /\ next \in Slots /\ pc = "after" /\ pc' = "endtime"
        /\ UNCHANGED <<dirs, files, journal>>
    BY CleanTypes DEF Clean, AllTidy, AbortAfter, InEntry
  <2>2. CASE comms' = [comms EXCEPT ![next] = @ \cup {"abort"}] /\ "comms" \in files[next]
    <3>1. InComms(i)' = InComms(i) /\ InJournal(i)' = InJournal(i)
      BY <2>1, <2>2, CleanTypes DEF InComms, InJournal, Marks
    <3>2. "comms" \notin files[i] => comms'[i] = comms[i]
      BY <2>1, <2>2, CleanTypes
    <3> QED
      BY <2>1, <3>1, <3>2 DEF Tidy
  <2>3. CASE UNCHANGED comms
    BY <2>1, <2>3 DEF Tidy, InComms, InJournal
  <2> QED
    BY <2>2, <2>3 DEF AbortAfter, ValidComms
<1>3. Reached'
  BY CleanTypes
  DEF AbortAfter, Clean, Reached, Both, Executing, Gapless, From, InEntry, InFill, disk, memory,
     seen, ValidComms, Marks
<1>4. Journaled'
  BY CleanTypes
  DEF AbortAfter, Clean, Journaled, Reached, Executing, Both, Entered, InEntry, InFill, disk,
     memory, seen, ValidComms, Marks
<1>5. Entered'
  BY CleanTypes
  DEF AbortAfter, Clean, Entered, AllTidy, Tidy, Unparsable, InComms, InJournal, Both, Reached,
     Executing, InEntry, InFill, disk, memory, seen, ValidComms, Marks
<1>6. Ending'
  BY CleanTypes
  DEF AbortAfter, Clean, Ending, AbortLeavesRecord, CompleteWhenDone, Unparsable, Entered,
     Reached, Journaled, Executing, InEntry, InFill, disk, memory, seen, ValidComms, Marks
<1> QED
  BY <1>1, <1>2, <1>3, <1>4, <1>5, <1>6 DEF Clean

\* What monitor_output() leaves on disk of how a test ended.
Verdicts == {"exit", "timeout", "notrun", "graceful", "abort"}

\* What monitor_output() tells of a test goes to the file the test has used so far.
LEMMA ReportClean ==
  ASSUME Extra = {}, TypeInv, Clean, NEW used \in MayUseSocket, NEW out,
         NEW v \in SUBSET Verdicts, NEW why \in BOOLEAN, NEW already \in BOOLEAN,
         Report(used, out, v, why, already),
         "abort" \in v <=> already, already => begun # {} /\ used
  PROVE  Clean'
<1>1. /\ pc = "test" /\ pc' = "after" /\ outcome' = out /\ reason' = why /\ written' = already
      /\ Record(used, v) /\ next \in Slots
      /\ UNCHANGED <<size, dirs, files, aborted, next, cut>>
  BY CleanTypes DEF Report, InEntry, seen
<1>2. /\ files[next] = Both /\ comms[next] \cap {"newline", "torn", "abort"} = {}
      /\ proto = "comms" => begun \subseteq comms[next]
  BY <1>1 DEF Clean, Entered
<1>3. /\ \A i \in Slots : comms'[i] \cap Subtests = comms[i] \cap Subtests
      /\ \A i \in Slots : journal'[i] \cap Subtests = journal[i] \cap Subtests
      /\ \A i \in Slots : i # next => comms'[i] = comms[i] /\ journal'[i] = journal[i]
      /\ comms'[next] = IF used THEN comms[next] \cup v ELSE comms[next]
  <2>1. v \cap Subtests = {}
    BY CleanTypes DEF Marks, Verdicts
  <2>2. CASE used
    BY <1>1, <2>1, <2>2, CleanTypes DEF Record
  <2>3. CASE ~used
    BY <1>1, <2>1, <2>3, CleanTypes DEF Record
  <2> QED
    BY <2>2, <2>3
<1>4. Gapless' /\ Reached' /\ Journaled'
  BY <1>1, CleanTypes DEF Clean, Gapless, From, Reached, Journaled, Executing
<1>5. AllTidy'
  BY <1>1, <1>2, <1>3, CleanTypes DEF Clean, AllTidy, Tidy, InComms, InJournal, Both
<1>6. Entered'
  <2>1. ~Unparsable(next)'
    BY <1>1, <1>2, <1>3 DEF Unparsable, Verdicts
  <2>2. ~already => "abort" \notin comms'[next]
    BY <1>2, <1>3
  <2>3. already => "abort" \in comms'[next] /\ comms'[next] \ {"exec", "abort"} # {}
    <3> SUFFICES ASSUME already PROVE "abort" \in comms'[next] /\ comms'[next] \ {"exec", "abort"} # {}
      OBVIOUS
    <3>1. used /\ "abort" \in v /\ begun # {}
      OBVIOUS
    <3>2. proto = "comms" /\ begun \subseteq Subtests
      BY <3>1 DEF MayUseSocket, TypeInv, TypeOK
    <3>3. PICK s \in begun : s \in comms'[next] /\ s \notin Marks
      BY <1>2, <1>3, <3>1, <3>2, CleanTypes
    <3> QED
      BY <1>3, <3>1, <3>3 DEF Marks
  <2> QED
    BY <1>1, <1>2, <2>1, <2>2, <2>3 DEF Entered
<1>7. Ending'
  BY <1>1 DEF Ending, AbortLeavesRecord, CompleteWhenDone
<1> QED
  BY <1>4, <1>5, <1>6, <1>7 DEF Clean

\* However a test ends.
LEMMA TestClean ==
  ASSUME Extra = {}, TypeInv, Clean, TestExits \/ TestKilled \/ TestStopped
  PROVE  Clean'
<1>1. CASE TestExits
  <2>1. PICK used \in MayUseSocket :
          Report(used, "ok", {"exit"}, FALSE, FALSE) \/ Report(used, "error", {"exit"}, TRUE, FALSE)
    BY <1>1 DEF TestExits
  <2>2. {"exit"} \in SUBSET Verdicts /\ "abort" \notin {"exit"}
    BY DEF Verdicts
  <2>3. ("abort" \in {"exit"} <=> FALSE) /\ FALSE \in BOOLEAN /\ TRUE \in BOOLEAN
    BY <2>2
  <2> QED
    BY <2>1, <2>2, <2>3, ReportClean, Zenon
<1>2. CASE TestKilled
  <2>1. PICK used \in MayUseSocket, w \in SUBSET {"exit", "timeout"} :
           Report(used, "killed", w, FALSE, FALSE)
    BY <1>2 DEF TestKilled
  <2>2. w \in SUBSET Verdicts /\ "abort" \notin w
    BY DEF Verdicts
  <2>3. ("abort" \in w <=> FALSE) /\ FALSE \in BOOLEAN
    BY <2>2
  <2> QED
    BY <2>1, <2>2, <2>3, ReportClean, Zenon
<1>3. CASE TestStopped
  <2>1. PICK used \in MayUseSocket :
          \/ Report(used, "error", {}, FALSE, FALSE)
          \/ Report(used, "error", IF used THEN {"notrun"} ELSE {"graceful"}, FALSE, FALSE)
          \/ used /\ begun # {} /\ Report(used, "error", {"abort"}, TRUE, TRUE)
          \/ Report(used, "error", {}, TRUE, FALSE)
    BY <1>3 DEF TestStopped
  <2>2. CASE Report(used, "error", {}, FALSE, FALSE) \/ Report(used, "error", {}, TRUE, FALSE)
    <3>1. ("abort" \in {} <=> FALSE) /\ FALSE \in BOOLEAN /\ TRUE \in BOOLEAN
      OBVIOUS
    <3>2. {} \in SUBSET Verdicts
      OBVIOUS
    <3> QED
      BY <2>2, <3>1, <3>2, ReportClean, Zenon
  <2>3. CASE Report(used, "error", IF used THEN {"notrun"} ELSE {"graceful"}, FALSE, FALSE)
    <3>1. PICK w \in SUBSET {"notrun", "graceful"} : Report(used, "error", w, FALSE, FALSE)
      BY <2>3
    <3>2. w \in SUBSET Verdicts /\ "abort" \notin w
      BY DEF Verdicts
    <3>3. ("abort" \in w <=> FALSE) /\ FALSE \in BOOLEAN
      BY <3>2
    <3> QED
      BY <3>1, <3>2, <3>3, ReportClean, Zenon
  <2>4. CASE used /\ begun # {} /\ Report(used, "error", {"abort"}, TRUE, TRUE)
    <3>1. {"abort"} \in SUBSET Verdicts
      BY DEF Verdicts
    <3> QED
      BY <2>4, <3>1, ReportClean
  <2> QED
    BY <2>1, <2>2, <2>3, <2>4
<1> QED
  BY <1>1, <1>2, <1>3

\* The subtest that is begun is recorded where the others are.
LEMMA BeginClean ==
  ASSUME Extra = {}, TypeInv, Clean, NEW s \in Subtests, BeginSubtest(s)
  PROVE  Clean'
<1>1. /\ pc = "test" /\ pc' = "test" /\ begun' = begun \cup {s} /\ next \in Slots
      /\ UNCHANGED <<size, dirs, files, aborted, next, proto>>
  BY CleanTypes DEF BeginSubtest, InEntry
<1>2. /\ comms' = IF proto = "comms" THEN [comms EXCEPT ![next] = @ \cup {s}] ELSE comms
      /\ journal' = IF proto = "comms" THEN journal ELSE [journal EXCEPT ![next] = @ \cup {s}]
  <2>1. Record(proto = "comms", {s})
    BY Zenon DEF BeginSubtest
  <2> QED
    BY <2>1 DEF Record
<1>3. /\ files[next] = Both /\ comms[next] \cap {"newline", "torn", "abort"} = {}
      /\ proto = "journal" => InComms(next) = {}
      /\ proto = "comms" => InJournal(next) = {} /\ begun \subseteq comms[next]
      /\ proto \in {"journal", "comms"} /\ s \notin Marks
  BY <1>1, CleanTypes DEF Clean, Entered, TypeInv, TypeOK
<1>4. Gapless' /\ Reached' /\ Journaled'
  BY <1>1, CleanTypes DEF Clean, Gapless, From, Reached, Journaled, Executing
<1>5. Entered'
  BY <1>1, <1>2, <1>3, CleanTypes DEF Entered, InComms, InJournal, Marks
<1>6. AllTidy'
  <2> SUFFICES ASSUME NEW i \in Slots PROVE Tidy(i)'
    BY DEF AllTidy
  <2>1. Tidy(i)
    BY DEF Clean, AllTidy
  <2>2. CASE i = next
    BY <1>1, <1>2, <1>3, <2>1, <2>2, CleanTypes DEF Tidy, InComms, InJournal, Both
  <2>3. CASE i # next
    BY <1>1, <1>2, <2>1, <2>3, CleanTypes DEF Tidy, InComms, InJournal
  <2> QED
    BY <2>2, <2>3
<1>7. Ending'
  BY <1>1 DEF Ending, AbortLeavesRecord, CompleteWhenDone
<1> QED
  BY <1>4, <1>5, <1>6, <1>7 DEF Clean

\* A crash loses the last directory or some of what is recorded in it.
LEMMA CrashClean ==
  ASSUME Extra = {}, TypeInv, Clean, Crash, ~cut'
  PROVE  Clean'
<1>1. /\ pc \notin {"off", "remove", "clear"} /\ pc' = "off" /\ status' = "crashed"
      /\ UNCHANGED <<size, aborted>>
  BY DEF Crash
<1>2. \/ UNCHANGED <<dirs, files, journal, comms>>
      \/ /\ pc = "test" /\ UNCHANGED <<dirs, files, journal>>
         /\ comms' = [comms EXCEPT ![next] = @ \cup {"torn"}]
      \/ pc \in {"fork", "test", "after"} /\ Lose(next)
  BY DEF Crash
<1>3. pc \in {"fork", "test", "after"} => next \in Slots /\ \A i \in dirs : i <= next
  BY CleanTypes DEF Clean, Reached, Executing, InEntry
<1>4. CASE UNCHANGED <<dirs, files, journal, comms>>
  BY <1>1, <1>4, CleanTypes
  DEF Clean, Gapless, From, AllTidy, Tidy, InComms, InJournal, Reached, Executing, Journaled,
      Entered, Ending, AbortLeavesRecord, CompleteWhenDone
<1>5. ASSUME dirs' \in {dirs, dirs \ {next}}, \A i \in dirs' : files'[i] = files[i],
             pc \in {"fork", "test", "after"}, AllTidy'
      PROVE  Clean'
  <2>1. Gapless' /\ Reached' /\ Journaled'
    BY <1>1, <1>3, <1>5, CleanTypes DEF Clean, Gapless, From, Reached, Journaled, Executing
  <2>2. Entered' /\ Ending'
    BY <1>1 DEF Entered, Ending, AbortLeavesRecord, CompleteWhenDone
  <2> QED
    BY <1>5, <2>1, <2>2 DEF Clean
<1>6. ASSUME pc \in {"fork", "test", "after"}, next \in Slots,
             dirs' = dirs, files' = files,
             \A i \in Slots \ {next} : journal'[i] = journal[i] /\ comms'[i] = comms[i],
             journal'[next] \subseteq journal[next], comms'[next] \subseteq comms[next] \cup {"torn"},
             files[next] # Both => comms'[next] \subseteq comms[next]
      PROVE  AllTidy'
  <2> SUFFICES ASSUME NEW i \in Slots PROVE Tidy(i)'
    BY DEF AllTidy
  <2>1. Tidy(i)
    BY DEF Clean, AllTidy
  <2>2. CASE i = next
    BY <1>1, <1>6, <2>1, <2>2, CleanTypes DEF Tidy, InComms, InJournal, Both, Marks
  <2>3. CASE i # next
    BY <1>1, <1>6, <2>1, <2>3, CleanTypes DEF Tidy, InComms, InJournal
  <2> QED
    BY <2>2, <2>3
<1>7. CASE /\ pc = "test" /\ UNCHANGED <<dirs, files, journal>>
           /\ comms' = [comms EXCEPT ![next] = @ \cup {"torn"}]
  <2>1. files[next] = Both
    BY <1>7 DEF Clean, Entered
  <2> QED
    BY <1>3, <1>5, <1>6, <1>7, <2>1, CleanTypes
<1>8. CASE pc \in {"fork", "test", "after"} /\ Lose(next)
  <2>1. CASE /\ dirs' = dirs \ {next} /\ files' = [files EXCEPT ![next] = {}]
             /\ journal' = [journal EXCEPT ![next] = {}] /\ comms' = [comms EXCEPT ![next] = {}]
    <3>1. AllTidy'
      BY <1>1, <1>3, <1>8, <2>1, CleanTypes DEF Clean, AllTidy, Tidy, InComms, InJournal, Both
    <3> QED
      BY <1>3, <1>5, <1>8, <2>1, <3>1, CleanTypes
  <2>2. CASE \E j \in SUBSET journal[next], c \in SUBSET comms[next] :
               /\ journal' = [journal EXCEPT ![next] = j] /\ comms' = [comms EXCEPT ![next] = c]
               /\ UNCHANGED <<dirs, files>>
    <3>1. AllTidy'
      BY <1>3, <1>6, <1>8, <2>2, CleanTypes
    <3> QED
      BY <1>5, <1>8, <2>2, <3>1
  <2> QED
    BY <1>8, <2>1, <2>2 DEF Lose
<1> QED
  BY <1>2, <1>4, <1>7, <1>8

\* Every step keeps the results directory in order, unless it cuts a clearing short.
LEMMA NextClean ==
  ASSUME Extra = {}, TypeInv, Clean, [Next]_vars, ~cut'
  PROVE  Clean'
<1>1. CASE StartRun
  BY <1>1, CleanTypes
  DEF StartRun, Clean, Gapless, From, AllTidy, Tidy, Reached, Journaled, Entered, Ending,
     AbortLeavesRecord, CompleteWhenDone, Executing, Both, InComms, InJournal, Unparsable,
     InEntry, InFill, disk, memory, seen
<1>2. CASE RemoveTopLevel
  BY <1>2, CleanTypes
  DEF RemoveTopLevel, Clean, Gapless, From, AllTidy, Tidy, Reached, Journaled, Entered, Ending,
     AbortLeavesRecord, CompleteWhenDone, Executing, Both, InComms, InJournal, Unparsable,
     InEntry, InFill, disk, memory, seen
<1>3. CASE ClearJournal
  BY <1>3, CleanTypes
  DEF ClearJournal, Clean, Gapless, From, AllTidy, Tidy, Reached, Journaled, Entered, Ending,
     AbortLeavesRecord, CompleteWhenDone, Executing, Both, InComms, InJournal, Unparsable,
     InEntry, InFill, disk, memory, seen
<1>4. CASE SearchDown
  BY <1>4, CleanTypes
  DEF SearchDown, Clean, Gapless, From, AllTidy, Tidy, Reached, Journaled, Entered, Ending,
     AbortLeavesRecord, CompleteWhenDone, Executing, Both, InComms, InJournal, Unparsable,
     InEntry, InFill, disk, memory, seen
<1>5. CASE NothingFound
  BY <1>5, CleanTypes
  DEF NothingFound, Clean, Gapless, From, AllTidy, Tidy, Reached, Journaled, Entered, Ending,
     AbortLeavesRecord, CompleteWhenDone, Executing, Both, InComms, InJournal, Unparsable,
     InEntry, InFill, disk, memory, seen
<1>6. CASE FillOpen
  BY <1>6, CleanTypes
  DEF FillOpen, Clean, Gapless, From, AllTidy, Tidy, Reached, Journaled, Entered, Ending,
     AbortLeavesRecord, CompleteWhenDone, Executing, Both, InComms, InJournal, Unparsable,
     InEntry, InFill, disk, memory, seen
<1>7. CASE FillDone
  BY <1>7, CleanTypes
  DEF FillDone, Clean, Gapless, From, AllTidy, Tidy, Reached, Journaled, Entered, Ending,
     AbortLeavesRecord, CompleteWhenDone, Executing, Both, InComms, InJournal, Unparsable,
     InEntry, InFill, disk, memory, seen
<1>8. CASE LoopDone
  BY <1>8, CleanTypes
  DEF LoopDone, Clean, Gapless, From, AllTidy, Tidy, Reached, Journaled, Entered, Ending,
     AbortLeavesRecord, CompleteWhenDone, Executing, Both, InComms, InJournal, Unparsable,
     InEntry, InFill, disk, memory, seen
<1>9. CASE SignalledBetween
  BY <1>9, CleanTypes
  DEF SignalledBetween, Clean, Gapless, From, AllTidy, Tidy, Reached, Journaled, Entered, Ending,
     AbortLeavesRecord, CompleteWhenDone, Executing, Both, InComms, InJournal, Unparsable,
     InEntry, InFill, disk, memory, seen
<1>10. CASE OpenJournal
  BY <1>10, CleanTypes
  DEF OpenJournal, Clean, Gapless, From, AllTidy, Tidy, Reached, Journaled, Entered, Ending,
     AbortLeavesRecord, CompleteWhenDone, Executing, Both, InComms, InJournal, Unparsable,
     InEntry, InFill, disk, memory, seen
<1>11. CASE OpenComms
  BY <1>11, CleanTypes
  DEF OpenComms, Clean, Gapless, From, AllTidy, Tidy, Reached, Journaled, Entered, Ending,
     AbortLeavesRecord, CompleteWhenDone, Executing, Both, InComms, InJournal, Unparsable,
     InEntry, InFill, disk, memory, seen
<1>12. CASE FailAfter
  BY <1>12, CleanTypes
  DEF FailAfter, Clean, Gapless, From, AllTidy, Tidy, Reached, Journaled, Entered, Ending,
     AbortLeavesRecord, CompleteWhenDone, Executing, Both, InComms, InJournal, Unparsable,
     InEntry, InFill, disk, memory, seen
<1>13. CASE OverallTimeout
  BY <1>13, CleanTypes
  DEF OverallTimeout, Clean, Gapless, From, AllTidy, Tidy, Reached, Journaled, Entered, Ending,
     AbortLeavesRecord, CompleteWhenDone, Executing, Both, InComms, InJournal, Unparsable,
     InEntry, InFill, disk, memory, seen
<1>14. CASE AllExecuted
  BY <1>14, AllExecutedClean
<1>15. CASE ClearComms
  BY <1>15, ClearCommsClean
<1>16. CASE ClearDirectory
  BY <1>16, ClearDirectoryClean
<1>17. CASE Cleared
  BY <1>17, ClearedClean
<1>18. CASE ResumeRun
  BY <1>18, ResumeRunClean
<1>19. CASE Found
  BY <1>19, FoundClean
<1>20. CASE BootAbort
  BY <1>20, BootAbortClean
<1>21. CASE BootFine
  BY <1>21, BootFineClean
<1>22. CASE FillSkip
  BY <1>22, FillSkipClean
<1>23. CASE FillDirectory
  BY <1>23, FillDirectoryClean
<1>24. CASE FillWrite
  BY <1>24, FillWriteClean
<1>25. CASE MakeDirectory
  BY <1>25, MakeDirectoryClean
<1>26. CASE Fork
  BY <1>26, ForkClean
<1>27. CASE EntryFails
  BY <1>27, EntryFailsClean
<1>28. CASE NextEntry
  BY <1>28, NextEntryClean
<1>29. CASE ResumeAfterKill
  BY <1>29, ResumeAfterKillClean
<1>30. CASE WriteEndtime
  BY <1>30, WriteEndtimeClean
<1>31. CASE AbortAfter
  BY <1>31, AbortAfterClean
<1>32. CASE TestExits \/ TestKilled \/ TestStopped
  BY <1>32, TestClean
<1>33. CASE \E s \in Subtests : BeginSubtest(s)
  BY <1>33, BeginClean
<1>34. CASE Crash
  BY <1>34, CrashClean
<1>35. CASE UNCHANGED vars
  BY <1>35
  DEF vars, Clean, Gapless, From, AllTidy, Tidy, Reached, Journaled, Entered, Ending,
     AbortLeavesRecord, CompleteWhenDone, Executing, Both, InComms, InJournal, Unparsable,
     InEntry, InFill, disk, memory, seen
<1> QED
  BY <1>1, <1>2, <1>3, <1>4, <1>5, <1>6, <1>7, <1>8, <1>9, <1>10, <1>11, <1>12, <1>13, <1>14,
     <1>15, <1>16, <1>17, <1>18, <1>19, <1>20, <1>21, <1>22, <1>23, <1>24, <1>25, <1>26, <1>27,
     <1>28, <1>29, <1>30, <1>31, <1>32, <1>33, <1>34, <1>35
  DEF Next, RunnerStep, Clear, Search, Fill, Test, After

\* A clearing that was cut short stays so.
LEMMA CutStays == ASSUME TypeInv, [Next]_vars, cut PROVE cut'
<1>1. CASE StartRun \/ ResumeRun
  BY <1>1 DEF StartRun, ResumeRun, seen
<1>2. CASE Clear \/ Search
  BY <1>2 DEF Clear, RemoveTopLevel, ClearJournal, ClearComms, ClearDirectory, Cleared, Search,
              SearchDown, NothingFound, Found, seen
<1>3. CASE AllExecuted \/ BootAbort \/ BootFine \/ Fill
  BY <1>3 DEF AllExecuted, BootAbort, BootFine, Fill, FillSkip, FillDirectory, FillOpen, FillWrite,
              FillDone, seen
<1>4. CASE LoopDone \/ SignalledBetween \/ MakeDirectory \/ OpenJournal \/ OpenComms \/ Fork \/ EntryFails
  BY <1>4 DEF LoopDone, SignalledBetween, MakeDirectory, OpenJournal, OpenComms, Fork, EntryFails, seen
<1>5. CASE Test
  BY <1>5 DEF Test, TestExits, TestKilled, TestStopped, Report, BeginSubtest, seen
<1>6. CASE After \/ WriteEndtime
  BY <1>6 DEF After, AbortAfter, FailAfter, OverallTimeout, NextEntry, ResumeAfterKill, WriteEndtime, seen
<1>7. CASE Crash \/ UNCHANGED vars
  BY <1>7 DEF Crash, vars, seen
<1> QED
  BY <1>1, <1>2, <1>3, <1>4, <1>5, <1>6, <1>7 DEF Next, RunnerStep

\* An invariant of every run, as long as nobody leaves files of his own.
LEMMA CleanAlways == ASSUME Extra = {} PROVE Spec => []CleanInv
<1>1. Init => CleanInv
  <2> SUFFICES ASSUME Init PROVE CleanInv
    OBVIOUS
  <2>1. Clean
    BY DEF Init, Clean, Gapless, AllTidy, Tidy, InComms, InJournal, Reached, Executing, Journaled,
           Entered, Ending, AbortLeavesRecord, CompleteWhenDone
  <2> QED
    BY <2>1, InitType DEF CleanInv
<1>2. CleanInv /\ [Next]_vars => CleanInv'
  <2> SUFFICES ASSUME CleanInv, [Next]_vars PROVE CleanInv'
    OBVIOUS
  <2>1. TypeInv /\ (~cut => Clean)
    BY DEF CleanInv
  <2>2. TypeInv'
    BY <2>1, NextType
  <2>3. ~cut' => Clean'
    BY <2>1, NextClean, CutStays
  <2> QED
    BY <2>2, <2>3 DEF CleanInv
<1> QED
  BY <1>1, <1>2, PTL DEF Spec

\* As long as no clearing of old results was cut short and nobody left files of his
\* own, an abort is recorded where the result generator finds it, with the results
\* of the test it is blamed on: in every run, crash and resumption of execute().
THEOREM AbortIsRecorded == Extra = {} => (Spec => []AbortLeavesRecord)
<1> SUFFICES ASSUME Extra = {} PROVE Spec => []AbortLeavesRecord
  OBVIOUS
<1>1. CleanInv => AbortLeavesRecord
  BY DEF CleanInv, Clean, Ending, AbortLeavesRecord
<1>2. Spec => []CleanInv
  BY CleanAlways
<1> QED
  BY <1>1, <1>2, PTL

\* Under the same conditions execute() tells "all done" only when every entry of the
\* list has its directory and the journal in it.
THEOREM DoneIsComplete == Extra = {} => (Spec => []CompleteWhenDone)
<1> SUFFICES ASSUME Extra = {} PROVE Spec => []CompleteWhenDone
  OBVIOUS
<1>1. CleanInv => CompleteWhenDone
  BY DEF CleanInv, Clean, Ending, CompleteWhenDone
<1>2. Spec => []CleanInv
  BY CleanAlways
<1> QED
  BY <1>1, <1>2, PTL
=============================================================================
