--------------------------- MODULE MonitorProofs ----------------------------
(***************************************************************************)
(* Theorems about monitor_output() for every test, all settings of the     *)
(* timeouts and limits, and all values of the bounds of module Monitor: it *)
(* completes a test at most once, in one of its two files, never once the  *)
(* run is being aborted, its verdict "timeout" is due, and the loop        *)
(* implements module TestRun; an abort blames the subtest that caused it,  *)
(* and every subtest with a result is in the journal.                      *)
(***************************************************************************)
EXTENDS Monitor, SequenceTheorems, TLAPS

-----------------------------------------------------------------------------
(* Type correctness: one lemma per action that changes more than flags.    *)

Clocks == [{"activity", "subtest", "kill"} -> Nat]

\* disk_usage stays a number of bytes.
LEMMA UsageNat == \A n \in Nat : Usage(n) \in Nat
BY MonitorAssumption DEF Usage, MonitorAssumption

\* Activity and the start of a subtest reset clocks.
LEMMA ActiveType ==
  ASSUME TypeOK
  PROVE  clock \in Clocks /\ Active \in Clocks /\ [Active EXCEPT !.subtest = 0] \in Clocks
BY DEF TypeOK, Active, Clocks

\* What recv() returns is a packet of the test.
LEMMA ReceivedType ==
  ASSUME TypeOK, Receive PROVE Head(sockq) \in Packets /\ sockq' \in Seq(Packets)
BY HeadTailProperties DEF TypeOK, Receive

\* What the runner adds to the comms dump are records like those of the test.
LEMMA PacketRecords ==
  Packets \cup {"log", "warn", "abort", "notrun", "timeout", "exit"} \subseteq Records
BY DEF Packets, Records

LEMMA Extended == \A r \in Seq(Records) : comms \in Seq(Records) => comms \o r \in Seq(Records)
BY ConcatProperties

\* select() moves the clocks.
LEMMA SelectType == ASSUME TypeOK, Select PROVE TypeOK'
<1>1. clock' \in Clocks
  <2>1. clock \in Clocks
    BY ActiveType
  <2> QED BY <2>1 DEF Select, Tick, Clocks
<1>2. ready' \subseteq Fds /\ pc' = "stdout"
  BY DEF Select, Available
<1>3. UNCHANGED <<env, files, fds, kill, res, seen, line, disk_usage>>
  BY DEF Select
<1> QED BY <1>1, <1>2, <1>3 DEF TypeOK, Clocks, env, files, fds, kill, res, seen, line

\* The line loop journals names of subtests.
LEMMA ScanLineType == ASSUME TypeOK, ScanLine PROVE TypeOK'
<1> DEFINE kind == Head(buf)[1]
           s == Head(buf)[2]
<1>1. /\ Head(buf) \in Lines /\ Tail(buf) \in Seq(Lines) /\ journal \in Seq(JournalEntries)
      /\ disk_usage \in Nat /\ chunk \in Nat /\ current \in Subtests \cup {NoSubtest}
  BY HeadTailProperties DEF TypeOK, ScanLine
<1>2. kind \in {"start", "result"} => s \in Subtests /\ Append(journal, s) \in Seq(JournalEntries)
  <2>1. kind \in {"start", "result"} => s \in Subtests
    BY <1>1 DEF Lines
  <2>2. Subtests \subseteq JournalEntries
    BY DEF JournalEntries
  <2> QED BY <1>1, <2>1, <2>2, AppendProperties
<1>3. journal' \in Seq(JournalEntries) /\ current' \in Subtests \cup {NoSubtest}
  BY <1>1, <1>2 DEF ScanLine
<1>4. clock' \in Clocks /\ disk_usage' \in Nat
  <2>1. clock \in Clocks /\ [clock EXCEPT !.subtest = 0] \in Clocks
    BY DEF TypeOK, Clocks
  <2>2. Usage(chunk) \in Nat
    BY <1>1, UsageNat
  <2> QED BY <1>1, <2>1, <2>2 DEF ScanLine
<1>5. buf' \in Seq(Lines) /\ UNCHANGED <<env, comms, fds, kill, res, seen, chunk, pc, ready>>
  BY <1>1 DEF ScanLine
<1> QED BY <1>3, <1>4, <1>5 DEF TypeOK, Clocks, env, fds, kill, res, seen

\* SIGQUIT, then SIGKILL.
LEMMA KillTestType == ASSUME TypeOK, KillTest PROVE TypeOK'
<1>1. clock' \in Clocks
  BY ActiveType DEF KillTest, Clocks
<1>2. killed' \in {"none", "QUIT", "KILL"} /\ cause' \in {"none", "signal", "taint", "time", "disk"}
  BY DEF TypeOK, KillTest, NextKillSignal, TimeoutReason
<1>3. /\ signals' \subseteq {"HUP", "TERM", "CHLD"} /\ pc' \in {"select", "done"}
      /\ ret' \in {"none", "ok", "killed", "error", "dead"} 
  BY DEF TypeOK, KillTest
<1>4. taints' \in BOOLEAN /\ ready' = {}
  BY DEF TypeOK, KillTest
<1>5. UNCHANGED <<proto, running, begun, outq, errq, sockq, kmsg, process, exitcode, held,
                 tainted, noise, sent, files, fds, child, aborting, abortreason,
                 abort_already_written, socket_comms_used, results_received, line,
                 disk_usage>>
  BY DEF KillTest
<1> QED BY <1>1, <1>2, <1>3, <1>4, <1>5 DEF TypeOK, Clocks, files, fds, line

\* A report of the test itself adds a line or a packet.
LEMMA ReportType ==
  ASSUME TypeOK, NEW l \in Lines, NEW p \in Packets
  PROVE  Append(outq, l) \in Seq(Lines) /\ Append(sockq, p) \in Seq(Packets)
BY AppendProperties DEF TypeOK

\* The test reports a subtest.
LEMMA TestStepType ==
  ASSUME TypeOK, NEW s \in Subtests, StartSubtest(s) \/ SkipSubtest(s) \/ EndSubtest PROVE TypeOK'
<1>1. \A t \in Subtests : <<"start", t>> \in Lines /\ <<"result", t>> \in Lines
  BY DEF Lines
<1>2. {"start", "result"} \subseteq Packets
  BY DEF Packets
<1>0. outq \in Seq(Lines) /\ sockq \in Seq(Packets) /\ running \in Subtests \cup {NoSubtest} /\ begun \subseteq Subtests
  BY DEF TypeOK
<1>3. outq' \in Seq(Lines) /\ sockq' \in Seq(Packets) 
  BY <1>0, <1>1, <1>2, ReportType DEF StartSubtest, SkipSubtest, EndSubtest, Report
<1>4. running' \in Subtests \cup {NoSubtest} /\ begun' \subseteq Subtests
  BY <1>0 DEF StartSubtest, SkipSubtest, EndSubtest
<1>5. UNCHANGED <<World, proto, errq, kmsg, process, exitcode, held, tainted, signals, noise, sent>>
  BY DEF StartSubtest, SkipSubtest, EndSubtest
<1> QED BY <1>3, <1>4, <1>5 DEF TypeOK, World, files, fds, kill, res, seen, line

\* Whatever else is written.
LEMMA NoiseType == ASSUME TypeOK, Noise PROVE TypeOK'
<1>1. <<"text", NoSubtest>> \in Lines /\ <<"dynstart", NoSubtest>> \in Lines
  BY DEF Lines
<1>2. {"dynstart", "log", "bad"} \subseteq Packets
  BY DEF Packets
<1>0. /\ outq \in Seq(Lines) /\ sockq \in Seq(Packets) /\ errq \in Nat /\ noise \in Nat
      /\ kmsg \in BOOLEAN
  BY DEF TypeOK
<1>3. outq' \in Seq(Lines)
  <2>1. Append(outq, <<"text", NoSubtest>>) \in Seq(Lines) /\ Append(outq, <<"dynstart", NoSubtest>>) \in Seq(Lines)
    BY <1>1, ReportType, <1>2
  <2> QED BY <1>0, <2>1 DEF Noise, Report
<1>4. sockq' \in Seq(Packets) 
  <2>1. \A p \in {"dynstart", "log", "bad"} : Append(sockq, p) \in Seq(Packets)
    BY <1>1, <1>2, ReportType
  <2> QED BY <1>0, <2>1 DEF Noise, Report
<1>5. errq' \in Nat /\ noise' \in Nat
  BY <1>0 DEF Noise
<1>6. kmsg' \in BOOLEAN
  BY <1>0 DEF Noise
<1>7. UNCHANGED <<World, proto, running, begun, process, exitcode, held, tainted, signals, sent>>
  BY DEF Noise
<1> QED BY <1>3, <1>4, <1>5, <1>6, <1>7 DEF TypeOK, World, files, fds, kill, res, seen, line

\* The pipes are closed.
LEMMA DescendantEndsType == ASSUME TypeOK, DescendantEnds PROVE TypeOK'
<1>1. held' \in BOOLEAN /\ UNCHANGED <<World, proto, running, begun, outq, errq, sockq, kmsg, process,
                                 exitcode, tainted, signals, noise, sent>>
  BY DEF DescendantEnds
<1> QED BY <1>1 DEF TypeOK, World, files, fds, kill, res, seen, line

\* The stderr handler.
LEMMA ReadStderrType == ASSUME TypeOK, ReadStderr PROVE TypeOK'
<1>0. errq \in Nat /\ disk_usage \in Nat /\ errfd \in BOOLEAN
  BY DEF TypeOK
<1>1. clock' \in Clocks /\ disk_usage' \in Nat /\ errq' \in Nat
  BY <1>0, ActiveType, UsageNat DEF ReadStderr
<1>2. errfd' \in BOOLEAN
  BY <1>0 DEF ReadStderr
<1> QED BY <1>1, <1>2 DEF TypeOK, ReadStderr, Clocks, files, kill, res, seen, line

\* The stdout handler.
LEMMA ReadStdoutType == ASSUME TypeOK, ReadStdout PROVE TypeOK'
<1>0. outq \in Seq(Lines) /\ buf \in Seq(Lines) /\ chunk \in Nat /\ disk_usage \in Nat /\ outfd \in BOOLEAN /\ Len(outq) \in Nat
  BY LenProperties DEF TypeOK
<1>1. clock' \in Clocks 
  BY <1>0, ActiveType DEF ReadStdout
<1>2. disk_usage' \in Nat /\ chunk' \in Nat 
  <2>1. Usage(disk_usage + Len(outq)) \in Nat
    BY <1>0, UsageNat
  <2> QED BY <1>0, <2>1 DEF ReadStdout
<1>3. buf' \in Seq(Lines) /\ outq' \in Seq(Lines)
  BY <1>0, EmptySeq DEF ReadStdout
<1>6. outfd' \in BOOLEAN
  BY <1>0 DEF ReadStdout
<1>4. pc' \in {"stderr", "lines"}
  BY DEF ReadStdout
<1>5. UNCHANGED <<proto, running, begun, errq, sockq, kmsg, process, exitcode, held, tainted,
                 signals, noise, sent, files, errfd, sigfd, kill, res, seen, current, ready>>
  BY DEF ReadStdout
<1> QED BY <1>1, <1>2, <1>3, <1>4, <1>5, <1>6 DEF TypeOK, Clocks, files, kill, res, seen

\* The kernel log handler.
LEMMA ReadKmsgType == ASSUME TypeOK, ReadKmsg PROVE TypeOK'
<1>0. kmsg \in BOOLEAN /\ disk_usage \in Nat
  BY DEF TypeOK
<1>1. clock' \in Clocks /\ disk_usage' \in Nat
  BY <1>0, ActiveType, UsageNat DEF ReadKmsg
<1>2. kmsg' \in BOOLEAN
  BY <1>0 DEF ReadKmsg
<1> QED BY <1>1, <1>2 DEF TypeOK, ReadKmsg, Clocks, files, fds, kill, res, seen, line

\* The socket is drained.
LEMMA NoSocketDataType == ASSUME TypeOK, NoSocketData PROVE TypeOK'
<1>1. clock' \in Clocks
  BY ActiveType DEF NoSocketData
<1> QED BY <1>1 DEF TypeOK, NoSocketData, Clocks, env, files, fds, kill, res, seen, line

\* A packet of the wrong size.
LEMMA BadPacketType == ASSUME TypeOK, BadPacket PROVE TypeOK'
<1>0. comms \in Seq(Records)
  BY DEF TypeOK
<1>1. comms' \in Seq(Records)
  BY <1>0, PacketRecords DEF BadPacket
<1>2. sockq' \in Seq(Packets) /\ clock' \in Clocks
  BY ReceivedType, ActiveType DEF BadPacket
<1>3. pc' = "kmsg" /\ UNCHANGED <<aborting, abortreason, abort_already_written, socket_comms_used,
                 results_received, disk_usage>>
   /\ UNCHANGED <<proto, running, begun, outq, errq, kmsg, process, exitcode, held, tainted,
                 signals, noise, sent, journal, fds, kill, ret, taints, line, ready>>
   BY DEF BadPacket, Receive
<1> QED BY <1>1, <1>2, <1>3 DEF TypeOK, Clocks, fds, kill, line

\* A start packet, perhaps with an abort.
LEMMA StartPacketType == ASSUME TypeOK, StartPacket PROVE TypeOK'
<1>0. /\ Head(sockq) \in Records /\ sockq' \in Seq(Packets) /\ comms \in Seq(Records)
      /\ abortreason \in {"none", "condition", "exitcode", "refuses"}
      /\ aborting \in BOOLEAN /\ abort_already_written \in BOOLEAN
  BY ReceivedType, PacketRecords DEF StartPacket, TypeOK
<1>1. comms' \in Seq(Records)
  <2>1. /\ comms \o <<"log", "log", "abort", Head(sockq)>> \in Seq(Records)
        /\ Append(comms, Head(sockq)) \in Seq(Records)
    BY <1>0, PacketRecords, ConcatProperties, AppendProperties
  <2> QED BY <2>1 DEF StartPacket
<1>2. abortreason' \in {"none", "condition", "exitcode", "refuses"}
      /\ aborting' \in BOOLEAN /\ abort_already_written' \in BOOLEAN
  BY <1>0 DEF StartPacket
<1>3. clock' \in Clocks /\ disk_usage' \in Nat
  BY ActiveType, UsageNat DEF StartPacket
<1>4. socket_comms_used' = TRUE /\ UNCHANGED <<results_received, pc>>
   /\ UNCHANGED <<proto, running, begun, outq, errq, kmsg, process, exitcode, held, tainted,
                 signals, noise, sent, journal, fds, kill, ret, taints, line, ready>>
   BY DEF StartPacket, Receive
<1> QED BY <1>0, <1>1, <1>2, <1>3, <1>4 DEF TypeOK, Clocks, fds, kill, line

\* Any other packet.
LEMMA OtherPacketType == ASSUME TypeOK, OtherPacket PROVE TypeOK'
<1>0. /\ Head(sockq) \in Records /\ sockq' \in Seq(Packets) /\ comms \in Seq(Records)
      /\ disk_usage \in Nat
  BY ReceivedType, PacketRecords DEF OtherPacket, TypeOK
<1>1. comms' \in Seq(Records)
  BY <1>0 DEF OtherPacket
<1>2. socket_comms_used' \in BOOLEAN /\ results_received' \in BOOLEAN
  BY DEF OtherPacket, TypeOK
<1>3. clock' \in Clocks /\ disk_usage' \in Nat
  BY <1>0, ActiveType, UsageNat DEF OtherPacket
<1>4. UNCHANGED <<aborting, abortreason, abort_already_written, pc>>
   /\ UNCHANGED <<proto, running, begun, outq, errq, kmsg, process, exitcode, held, tainted,
                 signals, noise, sent, journal, fds, kill, ret, taints, line, ready>>
   BY DEF OtherPacket, Receive
<1> QED BY <1>0, <1>1, <1>2, <1>3, <1>4 DEF TypeOK, Clocks, fds, kill, line

\* A signal to the runner.
LEMMA InterruptedType == ASSUME TypeOK, Interrupted PROVE TypeOK'
<1>0. comms \in Seq(Records) /\ journal \in Seq(JournalEntries) /\ signals \subseteq {"HUP", "TERM", "CHLD"}
  BY DEF TypeOK
<1>1. comms' \in Seq(Records)
  <2>1. <<"log", "notrun">> \in Seq(Records)
    BY PacketRecords
  <2> QED BY <1>0, <2>1, Extended DEF Interrupted, files
<1>2. journal' \in Seq(JournalEntries)
  <2>1. "graceful" \in JournalEntries
    BY DEF JournalEntries
  <2>2. Append(journal, "graceful") \in Seq(JournalEntries)
    BY <1>0, <2>1, AppendProperties
  <2>3. journal' = journal \/ journal' = Append(journal, "graceful")
    BY DEF Interrupted, files
  <2> QED BY <1>0, <2>2, <2>3
<1>3. clock' \in Clocks
  BY ActiveType DEF Interrupted, Clocks
<1>4. signals' \subseteq {"HUP", "TERM", "CHLD"}
  BY <1>0 DEF Interrupted
<1>5. aborting' = TRUE /\ killed' = "QUIT" /\ cause' = "signal" /\ pc' = "select" /\ ready' = {}
  /\ UNCHANGED <<proto, running, begun, outq, errq, sockq, kmsg, process, exitcode, held,
                 tainted, noise, sent, fds, child, abortreason, abort_already_written, ret,
                 seen, line, disk_usage>>
  BY DEF Interrupted
<1> QED BY <1>1, <1>2, <1>3, <1>4, <1>5 DEF TypeOK, Clocks, fds, seen, line

\* SIGCHLD: the completion is written.
LEMMA ReapChildType == ASSUME TypeOK, ReapChild PROVE TypeOK'
<1>0. comms \in Seq(Records) /\ journal \in Seq(JournalEntries) /\ aborting \in BOOLEAN
   /\ abortreason \in {"none", "condition", "exitcode", "refuses"}
  BY DEF TypeOK
<1>1. Completion \in Seq(Records) /\ Verdict \in {"exit", "timeout"}
  BY PacketRecords DEF Completion, Verdict
<1>2. comms' \in Seq(Records)
  BY <1>0, <1>1, Extended DEF ReapChild, files
<1>3. journal' \in Seq(JournalEntries)
  <2>1. Verdict \in JournalEntries
    BY <1>1 DEF JournalEntries
  <2> QED BY <2>1, <1>0 DEF ReapChild, files
<1>4. aborting' \in BOOLEAN
  BY <1>0 DEF ReapChild
<1>5. abortreason' \in {"none", "condition", "exitcode", "refuses"}
  BY <1>0 DEF ReapChild
<1>6. /\ process' \in {"running", "zombie", "reaped"} /\ signals' \subseteq {"HUP", "TERM", "CHLD"}
      /\ child' \in BOOLEAN /\ sigfd' \in BOOLEAN /\ pc' = "timeout"
      /\ UNCHANGED <<proto, running, begun, outq, errq, sockq, kmsg, exitcode, held, tainted,
                 noise, sent, outfd, errfd, killed, cause, abort_already_written, ret,
                 seen, line, ready, clock, disk_usage>>
  BY DEF ReapChild, TypeOK
<1> QED BY <1>2, <1>3, <1>4, <1>5, <1>6 DEF TypeOK, seen, line

\* No step of the monitor, the test or the world leaves the types.
LEMMA NextType == ASSUME TypeOK, [Next]_vars PROVE TypeOK'
<1>1. CASE Select
  BY <1>1, SelectType
<1>2. CASE ReadStdout
  BY <1>2, ReadStdoutType
<1>3. CASE ScanLine
  BY <1>3, ScanLineType
<1>4. CASE ScanDone
  BY <1>4 DEF ScanDone, TypeOK, env, files, fds, kill, res, seen
<1>5. CASE ReadStderr
  BY <1>5, ReadStderrType
<1>6. CASE ReadSocket
  BY <1>6, NoSocketDataType, BadPacketType, StartPacketType, OtherPacketType DEF ReadSocket
<1>7. CASE ReadKmsg
  BY <1>7, ReadKmsgType
<1>8. CASE HandleSignal
  <2>1. CASE NoSignal
    BY <2>1 DEF NoSignal, TypeOK, env, files, fds, kill, res, seen, line
  <2> QED
    BY <1>8, <2>1, InterruptedType, ReapChildType DEF HandleSignal
<1>9. CASE CheckTimeout
  <2>1. CASE NotYet
    BY <2>1 DEF NotYet, TypeOK, env, files, fds, kill, res, line
  <2>2. CASE RefusesToDie
    BY <2>2 DEF RefusesToDie, TypeOK, env, files, fds, kill, line
  <2> QED
    BY <1>9, <2>1, <2>2, KillTestType DEF CheckTimeout
<1>10. CASE Return
  BY <1>10 DEF Return, ReturnValue, TypeOK, env, files, fds, kill, seen, line
<1>11. CASE WorldStep
  <2>1. CASE \E s \in Subtests : StartSubtest(s) \/ SkipSubtest(s)
    BY <2>1, TestStepType
  <2>2. CASE EndSubtest
    <3>1. running \in Subtests
      BY <2>2 DEF EndSubtest, TypeOK
    <3> QED
      BY <2>2, <3>1, TestStepType
  <2>3. CASE Noise
    BY <2>3, NoiseType
  <2>4. CASE Exits
    BY <2>4 DEF Exits, TypeOK, World, files, fds, kill, res, seen, line
  <2>5. CASE Stops
    BY <2>5 DEF Stops, TypeOK, World, files, fds, kill, res, seen, line
  <2>6. CASE Forks
    <3>1. /\ held' \in BOOLEAN /\ noise' \in Nat
          /\ UNCHANGED <<World, proto, running, begun, outq, errq, sockq, kmsg, process, exitcode,
                         tainted, signals, sent>>
      BY <2>6 DEF Forks, TypeOK
    <3> QED
      BY <3>1 DEF TypeOK, World, files, fds, kill, res, seen, line
  <2>7. CASE DescendantEnds
    BY <2>7, DescendantEndsType
  <2>8. CASE Taint
    BY <2>8 DEF Taint, TypeOK, World, files, fds, kill, res, seen, line
  <2>9. CASE \E sig \in {"HUP", "TERM"} : SignalRunner(sig)
    BY <2>9 DEF SignalRunner, TypeOK, World, files, fds, kill, res, seen, line
  <2> QED
    BY <1>11, <2>1, <2>2, <2>3, <2>4, <2>5, <2>6, <2>7, <2>8, <2>9 DEF WorldStep
<1>12. CASE UNCHANGED vars
  BY <1>12 DEF vars, TypeOK, env, files, fds, kill, res, seen, line
<1> QED
  BY <1>1, <1>2, <1>3, <1>4, <1>5, <1>6, <1>7, <1>8, <1>9, <1>10, <1>11, <1>12
     DEF Next, MonitorStep, Returned

\* The loop starts well-typed.
LEMMA InitType == ASSUME Init PROVE TypeOK
<1>1. /\ sockq \in Seq(Packets) /\ outq \in Seq(Lines) /\ buf \in Seq(Lines)
      /\ journal \in Seq(JournalEntries) /\ comms \in Seq(Records)
  BY EmptySeq DEF Init, Packets
<1>2. clock \in Clocks
  BY DEF Init, Clocks
<1>3. /\ running \in Subtests \cup {NoSubtest} /\ current \in Subtests \cup {NoSubtest}
      /\ begun \subseteq Subtests /\ ready \subseteq Fds /\ signals \subseteq {"HUP", "TERM", "CHLD"}
      /\ {errq, noise, sent, chunk, disk_usage} \subseteq Nat
  BY DEF Init
<1>4. /\ kmsg \in BOOLEAN /\ held \in BOOLEAN /\ tainted \in BOOLEAN
      /\ outfd \in BOOLEAN /\ errfd \in BOOLEAN /\ sigfd \in BOOLEAN /\ child \in BOOLEAN
      /\ taints \in BOOLEAN /\ aborting \in BOOLEAN /\ socket_comms_used \in BOOLEAN
      /\ results_received \in BOOLEAN /\ abort_already_written \in BOOLEAN
  BY DEF Init
<1>5. /\ proto \in {"journal", "comms"} /\ process = "running" /\ exitcode = "ok"
      /\ pc = "select" /\ killed = "none" /\ cause = "none" /\ abortreason = "none" /\ ret = "none"
  BY DEF Init
<1> QED
  BY <1>1, <1>2, <1>3, <1>4, <1>5 DEF TypeOK, Clocks

\* Every state of monitor_output() is well-typed, whatever arrives in whatever order.
THEOREM TypeCorrect == Spec => []TypeOK
<1>1. Init => TypeOK
  BY InitType
<1>2. TypeOK /\ [Next]_vars => TypeOK'
  BY NextType
<1> QED
  BY <1>1, <1>2, PTL DEF Spec

-----------------------------------------------------------------------------
(* The places of a sequence that hold one of the values M.                 *)

Places(q, M) == {i \in DOMAIN q : q[i] \in M}

\* Append adds at most the new last place.
LEMMA AppendPlaces ==
  ASSUME NEW S, NEW q \in Seq(S), NEW x \in S, NEW M
  PROVE  Places(Append(q, x), M) = Places(q, M) \cup (IF x \in M THEN {Len(q) + 1} ELSE {})
BY AppendProperties, LenProperties DEF Places

\* The places of the second part are behind those of the first.
LEMMA ConcatPlaces ==
  ASSUME NEW S, NEW q \in Seq(S), NEW r \in Seq(S), NEW M
  PROVE  Places(q \o r, M) = Places(q, M) \cup {Len(q) + i : i \in Places(r, M)}
<1>1. /\ Len(q) \in Nat /\ Len(r) \in Nat /\ DOMAIN q = 1..Len(q) /\ DOMAIN r = 1..Len(r)
      /\ DOMAIN (q \o r) = 1..Len(q) + Len(r)
  BY LenProperties, ConcatProperties
<1>2. \A i \in 1..Len(q) : (q \o r)[i] = q[i]
  BY <1>1, ConcatProperties
<1>3. \A i \in 1..Len(r) : (q \o r)[Len(q) + i] = r[i] /\ Len(q) + i \in 1..Len(q) + Len(r)
  BY <1>1, ConcatProperties
<1>4. ASSUME NEW k \in Places(q \o r, M) PROVE k \in Places(q, M) \cup {Len(q) + i : i \in Places(r, M)}
  <2>1. CASE k <= Len(q)
    BY <1>1, <1>2, <2>1 DEF Places
  <2>2. CASE k > Len(q)
    <3>1. k - Len(q) \in 1..Len(r) /\ k = Len(q) + (k - Len(q))
      BY <1>1, <2>2 DEF Places
    <3>2. r[k - Len(q)] \in M
      BY <1>3, <3>1 DEF Places
    <3> QED
      BY <1>1, <3>1, <3>2 DEF Places
  <2> QED
    BY <1>1, <2>1, <2>2 DEF Places
<1>5. ASSUME NEW k \in Places(q, M) PROVE k \in Places(q \o r, M)
  BY <1>1, <1>2 DEF Places
<1>6. ASSUME NEW i \in Places(r, M) PROVE Len(q) + i \in Places(q \o r, M)
  BY <1>1, <1>3 DEF Places
<1> QED
  BY <1>4, <1>5, <1>6

\* An element, or a sequence, without a marker adds no place.
LEMMA QuietAppend ==
  ASSUME NEW S, NEW q \in Seq(S), NEW x \in S, NEW M, x \notin M
  PROVE  Places(Append(q, x), M) = Places(q, M)
<1>1. Places(Append(q, x), M) = Places(q, M) \cup (IF x \in M THEN {Len(q) + 1} ELSE {})
  BY AppendPlaces
<1> QED
  BY <1>1

LEMMA QuietConcat ==
  ASSUME NEW S, NEW q \in Seq(S), NEW r \in Seq(S), NEW M, \A i \in DOMAIN r : r[i] \notin M
  PROVE  Places(q \o r, M) = Places(q, M)
<1>1. Places(q \o r, M) = Places(q, M) \cup {Len(q) + i : i \in Places(r, M)}
  BY ConcatPlaces
<1>2. Places(r, M) = {}
  BY DEF Places
<1> QED
  BY <1>1, <1>2

-----------------------------------------------------------------------------
(* What is marked in the two files, and who marks it.                      *)

JournalTimeouts == Places(journal, {"timeout"})
CommsTimeouts   == Places(comms, {"timeout"})
Marked == <<JournalMarks, CommsMarks, JournalTimeouts, CommsTimeouts>>

\* Nothing is completed as long as both files hold none of the markers.
Unmarked ==
  /\ JournalMarks = {} /\ CommsMarks = {} /\ JournalTimeouts = {} /\ CommsTimeouts = {}

\* The marks of module Monitor are such places, before and after a step.
LEMMA MarksArePlaces ==
  /\ JournalMarks = Places(journal, {"exit", "timeout"})
  /\ CommsMarks = Places(comms, {"exit"})
  /\ JournalMarks' = Places(journal', {"exit", "timeout"})
  /\ CommsMarks' = Places(comms', {"exit"})
BY DEF JournalMarks, CommsMarks, Places

\* A step that writes to neither file marks nothing.
LEMMA SameFilesSameMarks == ASSUME UNCHANGED <<journal, comms>> PROVE UNCHANGED Marked
BY DEF Marked, JournalMarks, CommsMarks, JournalTimeouts, CommsTimeouts, Places

\* A journal line that is no marker, and packets that are none.
LEMMA QuietJournal ==
  ASSUME TypeOK, NEW x \in JournalEntries, x \notin {"exit", "timeout"},
         journal' = Append(journal, x), UNCHANGED comms
  PROVE  UNCHANGED Marked
<1>1. journal \in Seq(JournalEntries)
  BY DEF TypeOK
<1>2. Places(journal', {"exit", "timeout"}) = Places(journal, {"exit", "timeout"})
  BY <1>1, QuietAppend
<1>3. Places(journal', {"timeout"}) = Places(journal, {"timeout"})
  BY <1>1, QuietAppend
<1> QED
  BY <1>2, <1>3, MarksArePlaces DEF Marked, JournalTimeouts, CommsTimeouts

LEMMA QuietComms ==
  ASSUME TypeOK, NEW r \in Seq(Records), \A i \in DOMAIN r : r[i] \notin {"exit", "timeout"},
         comms' = comms \o r, UNCHANGED journal
  PROVE  UNCHANGED Marked
<1>1. comms \in Seq(Records)
  BY DEF TypeOK
<1>2. Places(comms', {"exit"}) = Places(comms, {"exit"})
  BY <1>1, QuietConcat
<1>3. Places(comms', {"timeout"}) = Places(comms, {"timeout"})
  BY <1>1, QuietConcat
<1> QED
  BY <1>2, <1>3, MarksArePlaces DEF Marked, JournalTimeouts, CommsTimeouts

\* The verdict on disk is a matter of what is marked.
VerdictOf(jm, cm, jt, ct) ==
  IF jt # {} \/ ct # {} THEN "timeout" ELSE IF jm # {} \/ cm # {} THEN "exit" ELSE "none"

LEMMA VerdictOfMarks ==
  /\ DiskVerdict = VerdictOf(JournalMarks, CommsMarks, JournalTimeouts, CommsTimeouts)
  /\ DiskVerdict' = VerdictOf(JournalMarks', CommsMarks', JournalTimeouts', CommsTimeouts')
BY DEF VerdictOf, DiskVerdict, JournalTimeouts, CommsTimeouts, JournalMarks, CommsMarks, Places

LEMMA SameMarksSameVerdict ==
  ASSUME UNCHANGED Marked PROVE DiskVerdict' = DiskVerdict
BY VerdictOfMarks DEF Marked

-----------------------------------------------------------------------------
(* Only the handler of SIGCHLD marks anything.                             *)

Completes == ReapChild /\ WritesCompletion

\* Neither a line of output nor a packet, a signal to the runner or a timeout
\* completes a test: the SIGCHLD handler does, while the run is not being aborted.
LEMMA OnlyReapingMarks == ASSUME TypeOK, [Next]_vars, ~Completes PROVE UNCHANGED Marked
<1>1. CASE ScanLine
  <2>1. Head(buf) \in Lines
    BY <1>1, HeadTailProperties DEF TypeOK, ScanLine
  <2>2. Head(buf)[1] \in {"start", "result"} => Head(buf)[2] \in Subtests
    BY <2>1 DEF Lines
  <2>3. Subtests \subseteq JournalEntries /\ Subtests \cap {"exit", "timeout"} = {}
    BY MonitorAssumption DEF MonitorAssumption, JournalEntries
  <2>4. UNCHANGED comms
    BY <1>1 DEF ScanLine
  <2>5. \/ UNCHANGED journal
        \/ \E x \in Subtests : journal' = Append(journal, x)
    BY <1>1, <2>2 DEF ScanLine
  <2> QED
    BY <2>3, <2>4, <2>5, QuietJournal, SameFilesSameMarks
<1>2. CASE BadPacket
  <2>1. /\ <<"log", "warn">> \in Seq(Records)
        /\ \A i \in DOMAIN <<"log", "warn">> : <<"log", "warn">>[i] \notin {"exit", "timeout"}
    BY PacketRecords
  <2>2. comms' = comms \o <<"log", "warn">> /\ UNCHANGED journal
    BY <1>2 DEF BadPacket, Receive
  <2> QED
    BY <2>1, <2>2, QuietComms
<1>3. CASE StartPacket
  <2> DEFINE p == Head(sockq)
  <2>1. p \in Records /\ p \in {"start", "dynstart"} /\ comms \in Seq(Records)
    BY <1>3, ReceivedType, PacketRecords DEF StartPacket, TypeOK
  <2>2. UNCHANGED journal
    BY <1>3 DEF StartPacket, Receive
  <2>3. CASE comms' = comms \o <<"log", "log", "abort", p>>
    <3> DEFINE r == <<"log", "log", "abort", p>>
    <3>1. r \in Seq(Records) /\ \A i \in DOMAIN r : r[i] \notin {"exit", "timeout"}
      BY <2>1, PacketRecords
    <3> QED
      BY <2>1, <2>2, <2>3, <3>1, QuietComms
  <2>4. CASE comms' = Append(comms, p)
    <3>1. <<p>> \in Seq(Records) /\ comms' = comms \o <<p>>
      BY <2>1, <2>4, AppendIsConcat
    <3>2. \A i \in DOMAIN <<p>> : <<p>>[i] \notin {"exit", "timeout"}
      BY <2>1
    <3> QED
      BY <2>1, <2>2, <3>1, <3>2, QuietComms
  <2> QED
    BY <1>3, <2>3, <2>4 DEF StartPacket
<1>4. CASE OtherPacket
  <2> DEFINE p == Head(sockq)
  <2>1. p \in Records /\ p \in {"exec", "result", "log"} /\ comms \in Seq(Records)
    BY <1>4, ReceivedType, PacketRecords DEF OtherPacket, TypeOK
  <2>2. UNCHANGED journal /\ comms' = Append(comms, p)
    BY <1>4 DEF OtherPacket, Receive
  <2>3. <<p>> \in Seq(Records) /\ comms' = comms \o <<p>>
    BY <2>1, <2>2, AppendIsConcat
  <2>4. \A i \in DOMAIN <<p>> : <<p>>[i] \notin {"exit", "timeout"}
    BY <2>1
  <2> QED
    BY <2>1, <2>2, <2>3, <2>4, QuietComms
<1>5. CASE Interrupted
  <2>1. CASE Siginfo = "HUP" /\ socket_comms_used
    <3>1. comms' = comms \o <<"log", "notrun">> /\ UNCHANGED journal
      BY <1>5, <2>1 DEF Interrupted
    <3>2. /\ <<"log", "notrun">> \in Seq(Records)
          /\ \A i \in DOMAIN <<"log", "notrun">> : <<"log", "notrun">>[i] \notin {"exit", "timeout"}
      BY PacketRecords
    <3> QED
      BY <3>1, <3>2, QuietComms
  <2>2. CASE Siginfo = "HUP" /\ ~socket_comms_used
    <3>1. journal' = Append(journal, "graceful") /\ UNCHANGED comms
      BY <1>5, <2>2 DEF Interrupted
    <3>2. "graceful" \in JournalEntries
      BY DEF JournalEntries
    <3> QED
      BY <3>1, <3>2, QuietJournal
  <2>3. CASE Siginfo # "HUP"
    BY <1>5, <2>3, SameFilesSameMarks DEF Interrupted, files
  <2> QED
    BY <2>1, <2>2, <2>3
<1>6. CASE ReapChild
  BY <1>6, SameFilesSameMarks DEF Completes, ReapChild, files
<1>7. CASE WorldStep
  BY <1>7, SameFilesSameMarks
     DEF WorldStep, StartSubtest, SkipSubtest, EndSubtest, Noise, Exits, Stops, Forks,
         DescendantEnds, Taint, SignalRunner, World, files
<1>8. CASE Select \/ ReadStdout \/ ScanDone \/ ReadStderr \/ NoSocketData \/ ReadKmsg \/ NoSignal
  BY <1>8, SameFilesSameMarks
     DEF Select, ReadStdout, ScanDone, ReadStderr, NoSocketData, ReadKmsg, NoSignal, files
<1>9. CASE CheckTimeout \/ Return
  BY <1>9, SameFilesSameMarks DEF CheckTimeout, NotYet, KillTest, RefusesToDie, Return, files
<1>10. CASE UNCHANGED vars
  BY <1>10, SameFilesSameMarks DEF vars, files
<1> QED
  BY <1>1, <1>2, <1>3, <1>4, <1>5, <1>6, <1>7, <1>8, <1>9, <1>10
     DEF Next, MonitorStep, ReadSocket, HandleSignal, Returned

\* "Note that since we set 'aborting' to true we're going to skip all other journal
\* writes later": an aborted run completes no test any more.
THEOREM AbortingIsFinal == Spec => AbortingCompletesNothing
<1>1. TypeOK /\ [Next]_vars => [aborting => JournalMarks' = JournalMarks /\ CommsMarks' = CommsMarks]_vars
  <2> SUFFICES ASSUME TypeOK, [Next]_vars, aborting
               PROVE  JournalMarks' = JournalMarks /\ CommsMarks' = CommsMarks
    OBVIOUS
  <2>1. ~Completes
    BY DEF Completes, WritesCompletion
  <2> QED
    BY <2>1, OnlyReapingMarks DEF Marked
<1> QED
  BY <1>1, TypeCorrect, PTL DEF Spec, AbortingCompletesNothing

-----------------------------------------------------------------------------
(* Completed at most once.                                                 *)

\* The packets that complete a test: one exit packet, and a timeout override
\* before it when that is the verdict.
LEMMA CompletionForm ==
  /\ Completion \in Seq(Records)
  /\ Verdict \in {"exit", "timeout"}
  /\ \E n \in Nat : Places(Completion, {"exit"}) = {n}
  /\ Places(Completion, {"timeout"}) # {} <=> Verdict = "timeout"
<1> DEFINE logs == (IF TaintKill THEN <<"log">> ELSE <<>>) \o (IF DiskKill THEN <<"log">> ELSE <<>>)
           last == IF Verdict = "timeout" THEN <<"timeout", "exit">> ELSE <<"exit">>
<1>1. Verdict \in {"exit", "timeout"}
  BY DEF Verdict
<1>2. <<"log">> \in Seq(Records) /\ <<>> \in Seq(Records) /\ last \in Seq(Records)
  BY PacketRecords
<1>3. logs \in Seq(Records) /\ \A i \in DOMAIN logs : logs[i] = "log"
  BY <1>2, ConcatProperties, LenProperties
<1>4. Completion = logs \o last
  BY DEF Completion
<1>5. Completion \in Seq(Records)
  BY <1>2, <1>3, <1>4, ConcatProperties
<1>6. Places(logs, {"exit"}) = {} /\ Places(logs, {"timeout"}) = {}
  BY <1>3 DEF Places
<1>7. Places(last, {"exit"}) = {IF Verdict = "timeout" THEN 2 ELSE 1}
  BY DEF Places
<1>8. Places(last, {"timeout"}) = IF Verdict = "timeout" THEN {1} ELSE {}
  BY DEF Places
<1>9. Len(logs) \in Nat
  BY <1>3, LenProperties
<1> HIDE DEF logs, last
<1>10. \E n \in Nat : Places(Completion, {"exit"}) = {n}
  <2>1. Places(logs \o last, {"exit"})
          = Places(logs, {"exit"}) \cup {Len(logs) + i : i \in Places(last, {"exit"})}
    BY <1>2, <1>3, ConcatPlaces
  <2>2. Places(Completion, {"exit"}) = {Len(logs) + (IF Verdict = "timeout" THEN 2 ELSE 1)}
    BY <1>4, <1>6, <1>7, <2>1
  <2> QED
    BY <1>9, <2>2
<1>11. Places(Completion, {"timeout"}) # {} <=> Verdict = "timeout"
  <2>1. Places(logs \o last, {"timeout"})
          = Places(logs, {"timeout"}) \cup {Len(logs) + i : i \in Places(last, {"timeout"})}
    BY <1>2, <1>3, ConcatPlaces
  <2> QED
    BY <1>4, <1>6, <1>8, <2>1
<1> QED
  BY <1>1, <1>5, <1>10, <1>11

\* While the handlers of an iteration run, "there is a signal" is only reported
\* of a signalfd that is still being read: a second SIGCHLD is not handled.
SigfdPolled == "sig" \in ready /\ pc \notin {"select", "timeout", "done"} => sigfd

\* What all other handlers leave alone.
LEMMA OtherSteps ==
  ASSUME TypeOK, [Next]_vars, ~ReapChild, SigfdPolled, pc = "done" <=> ret # "none"
  PROVE  /\ sigfd' = sigfd 
         /\ aborting => aborting'
         /\ killed # "none" => killed' # "none"
         /\ SigfdPolled'
         /\ pc' = "done" <=> ret' # "none"
<1> USE DEF SigfdPolled, env, files, fds, kill, res, seen, line
<1>1. CASE Select
  BY <1>1 DEF Select, Available
<1>2. CASE ReadStdout
  BY <1>2 DEF ReadStdout
<1>10. CASE ScanLine \/ ScanDone
  BY <1>10 DEF ScanLine, ScanDone
<1>11. CASE ReadStderr
  <2>1. /\ pc = "stderr" /\ pc' = "socket"
        /\ UNCHANGED <<ready, sigfd, aborting, killed, ret>>
    BY <1>11 DEF ReadStderr
  <2> QED
    BY <1>11, <2>1
<1>12. CASE ReadKmsg \/ NoSignal
  BY <1>12 DEF ReadKmsg, NoSignal
<1>3. CASE NoSocketData \/ BadPacket \/ OtherPacket
  <2>1. UNCHANGED <<ready, sigfd, aborting, killed, ret>> /\ pc = "socket" /\ pc' \in {"socket", "kmsg"}
    BY <1>3 DEF NoSocketData, BadPacket, OtherPacket, Receive
  <2> QED
    BY <2>1
<1>4. CASE StartPacket
  BY <1>4 DEF StartPacket, Receive, ChecksAbort
<1>5. CASE Interrupted
  BY <1>5 DEF Interrupted
<1>6. CASE CheckTimeout
  BY <1>6 DEF CheckTimeout, NotYet, KillTest, RefusesToDie, NextKillSignal
<1>7. CASE Return
  BY <1>7 DEF Return, ReturnValue
<1>8. CASE WorldStep
  BY <1>8 DEF WorldStep, StartSubtest, SkipSubtest, EndSubtest, Noise, Exits, Stops, Forks,
         DescendantEnds, Taint, SignalRunner, World
<1>9. CASE UNCHANGED vars
  BY <1>9 DEF vars
<1> QED
  BY <1>1, <1>2, <1>10, <1>11, <1>12, <1>3, <1>4, <1>5, <1>6, <1>7, <1>8, <1>9
     DEF Next, MonitorStep, ReadSocket, HandleSignal, Returned

\* The inductive invariant: while the signalfd is read nothing is marked; once it is
\* not, the test was completed, unless the run was being aborted.
CompletionInv ==
  /\ TypeOK
  /\ SigfdPolled
  /\ sigfd => Unmarked
  /\ CompletedOnce
  /\ pc = "done" <=> ret # "none"
  /\ ~sigfd /\ ~aborting => DiskVerdict # "none"
  /\ DiskVerdict = "timeout" => killed # "none"

\* The SIGCHLD handler leaves one marker, the verdict, in one of the files.
LEMMA ReapingCompletes ==
  ASSUME TypeOK, Unmarked, Completes
  PROVE  CompletedOnce' /\ DiskVerdict' = Verdict
<1>0. /\ journal \in Seq(JournalEntries) /\ comms \in Seq(Records)
      /\ Verdict \in {"exit", "timeout"} /\ Verdict \in JournalEntries
  BY CompletionForm DEF TypeOK, JournalEntries
<1>1. CASE socket_comms_used
  <2>1. comms' = comms \o Completion /\ UNCHANGED journal
    BY <1>1 DEF Completes, ReapChild
  <2>2. JournalMarks' = {} /\ JournalTimeouts' = {}
    BY <2>1, MarksArePlaces DEF Unmarked, JournalTimeouts
  <2>3. PICK n \in Nat : Places(Completion, {"exit"}) = {n}
    BY CompletionForm
  <2>4. CommsMarks' = {Len(comms) + n}
    <3>1. Places(comms \o Completion, {"exit"})
            = Places(comms, {"exit"}) \cup {Len(comms) + i : i \in Places(Completion, {"exit"})}
      BY <1>0, CompletionForm, ConcatPlaces
    <3> QED
      BY <2>1, <2>3, <3>1, MarksArePlaces DEF Unmarked
  <2>5. CommsTimeouts' # {} <=> Verdict = "timeout"
    <3>1. Places(comms \o Completion, {"timeout"})
            = Places(comms, {"timeout"}) \cup {Len(comms) + i : i \in Places(Completion, {"timeout"})}
      BY <1>0, CompletionForm, ConcatPlaces
    <3>2. CommsTimeouts' = {Len(comms) + i : i \in Places(Completion, {"timeout"})}
      BY <2>1, <3>1 DEF Unmarked, CommsTimeouts
    <3> QED
      BY <3>2, CompletionForm
  <2> QED
    BY <1>0, <2>2, <2>4, <2>5, VerdictOfMarks DEF CompletedOnce, VerdictOf
<1>2. CASE ~socket_comms_used
  <2>1. journal' = Append(journal, Verdict) /\ UNCHANGED comms
    BY <1>2 DEF Completes, ReapChild
  <2>2. CommsMarks' = {} /\ CommsTimeouts' = {}
    BY <2>1, MarksArePlaces DEF Unmarked, CommsTimeouts
  <2>3. JournalMarks' = {Len(journal) + 1}
    <3>1. Places(Append(journal, Verdict), {"exit", "timeout"})
            = Places(journal, {"exit", "timeout"}) \cup {Len(journal) + 1}
      BY <1>0, AppendPlaces
    <3> QED
      BY <2>1, <3>1, MarksArePlaces DEF Unmarked
  <2>4. JournalTimeouts' # {} <=> Verdict = "timeout"
    <3>1. Places(Append(journal, Verdict), {"timeout"})
            = Places(journal, {"timeout"}) \cup (IF Verdict \in {"timeout"} THEN {Len(journal) + 1} ELSE {})
      BY <1>0, AppendPlaces
    <3> QED
      BY <2>1, <3>1 DEF Unmarked, JournalTimeouts
  <2> QED
    BY <1>0, <2>2, <2>3, <2>4, VerdictOfMarks DEF CompletedOnce, VerdictOf
<1> QED
  BY <1>1, <1>2

\* No step breaks the invariant.
LEMMA CompletionInductive == ASSUME CompletionInv, [Next]_vars PROVE CompletionInv'
<1>0. TypeOK' /\ TypeOK
  BY NextType DEF CompletionInv
<1>1. CASE ~ReapChild
  <2>1. UNCHANGED Marked
    BY <1>1, OnlyReapingMarks DEF CompletionInv, Completes
  <2>2. DiskVerdict' = DiskVerdict
    BY <2>1, SameMarksSameVerdict
  <2>3. Unmarked' <=> Unmarked
    BY <2>1 DEF Unmarked, Marked
  <2>4. CompletedOnce'
    BY <2>1 DEF CompletionInv, CompletedOnce, Marked
  <2>5. /\ sigfd' = sigfd
        /\ aborting => aborting'
        /\ killed # "none" => killed' # "none"
        /\ SigfdPolled'
        /\ pc' = "done" <=> ret' # "none"
    BY <1>1, OtherSteps DEF CompletionInv
  <2> QED
    BY <1>0, <2>2, <2>3, <2>4, <2>5 DEF CompletionInv
<1>2. CASE ReapChild
  <2>1. /\ pc = "signal" /\ "sig" \in ready /\ pc' = "timeout" /\ sigfd' = FALSE
        /\ UNCHANGED <<ret, killed>>
    BY <1>2 DEF ReapChild
  <2>2. Unmarked
    BY <2>1 DEF CompletionInv, SigfdPolled
  <2>3. SigfdPolled' /\ (pc' = "done" <=> ret' # "none")
    BY <2>1 DEF CompletionInv, SigfdPolled
  <2>4. CASE WritesCompletion
    <3>1. CompletedOnce' /\ DiskVerdict' = Verdict
      BY <1>0, <1>2, <2>2, <2>4, ReapingCompletes DEF Completes
    <3>2. Verdict \in {"exit", "timeout"} /\ (Verdict = "timeout" => killed # "none")
      BY DEF Verdict
    <3> QED
      BY <1>0, <2>1, <2>3, <3>1, <3>2 DEF CompletionInv
  <2>5. CASE ~WritesCompletion
    <3>1. UNCHANGED Marked
      BY <1>0, <2>5, OnlyReapingMarks DEF Completes
    <3>2. aborting' = TRUE
      BY <1>2, <2>5 DEF ReapChild, WritesCompletion, CompletionInv, TypeOK
    <3>3. CompletedOnce' /\ DiskVerdict' = DiskVerdict
      BY <3>1, SameMarksSameVerdict DEF CompletionInv, CompletedOnce, Marked
    <3> QED
      BY <1>0, <2>1, <2>3, <3>2, <3>3 DEF CompletionInv
  <2> QED
    BY <2>4, <2>5
<1> QED
  BY <1>1, <1>2

\* It holds in every state of the loop.
LEMMA CompletionInvariant == Spec => []CompletionInv
<1>1. Init => CompletionInv
  <2> SUFFICES ASSUME Init PROVE CompletionInv
    OBVIOUS
  <2>1. TypeOK
    BY InitType
  <2>2. journal = <<>> /\ comms = <<>> /\ ready = {} /\ sigfd = TRUE /\ pc = "select" /\ ret = "none"
    BY DEF Init
  <2>3. Unmarked
    BY <2>2, MarksArePlaces DEF Unmarked, JournalTimeouts, CommsTimeouts, Places
  <2>4. CompletedOnce /\ DiskVerdict = "none"
    BY <2>3, VerdictOfMarks DEF Unmarked, CompletedOnce, VerdictOf
  <2> QED
    BY <2>1, <2>2, <2>3, <2>4 DEF CompletionInv, SigfdPolled
<1>2. CompletionInv /\ [Next]_vars => CompletionInv'
  BY CompletionInductive
<1> QED
  BY <1>1, <1>2, PTL DEF Spec

\* A test is completed at most once and in one file, whatever it, its descendants,
\* the kernel and the signals do.
THEOREM CompletesOnce == Spec => []CompletedOnce
<1>1. CompletionInv => CompletedOnce
  BY DEF CompletionInv
<1> QED
  BY <1>1, CompletionInvariant, PTL

-----------------------------------------------------------------------------
(* Why a test was killed.                                                  *)

\* A test killed while the run goes on was killed for a timeout or a taint, and the
\* runner does not forget a taint.
CauseInv ==
  /\ sigfd /\ ~aborting /\ killed # "none" => cause \in {"time", "taint"}
  /\ cause = "taint" => taints
  /\ taints => tainted
  /\ DiskVerdict = "timeout" => cause = "time"

\* No step breaks that, when there is no disk usage limit.
LEMMA CauseInductive ==
  ASSUME DiskUsageLimit = 0, CompletionInv, CauseInv, [Next]_vars PROVE CauseInv'
<1> USE DEF env, files, fds, kill, res, seen, line
<1>0. TypeOK /\ TypeOK'
  BY NextType DEF CompletionInv
<1>1. CASE KillTest
  <2>1. UNCHANGED <<sigfd, aborting, tainted>> /\ killed' # "none"
        /\ taints' = tainted /\ TimeoutReason(tainted) # "none"
        /\ cause' = IF killed = "none" THEN TimeoutReason(tainted) ELSE cause
    BY <1>1 DEF KillTest, NextKillSignal
  <2>2. killed = "none" => TimeoutReason(tainted) \in {"time", "taint"}
                             /\ (TimeoutReason(tainted) = "taint" => tainted)
    BY <2>1 DEF TimeoutReason, DiskExceeded
  <2>3. DiskVerdict' = DiskVerdict
    BY <1>0, <1>1, OnlyReapingMarks, SameMarksSameVerdict DEF KillTest, Completes, ReapChild
  <2> QED
    BY <2>1, <2>2, <2>3 DEF CauseInv, CompletionInv
<1>2. CASE Interrupted
  <2>1. aborting' = TRUE /\ cause' = "signal" /\ UNCHANGED <<taints, tainted>>
    BY <1>2 DEF Interrupted
  <2>2. DiskVerdict = "none"
    BY <1>2, VerdictOfMarks DEF Interrupted, CompletionInv, SigfdPolled, Unmarked, VerdictOf
  <2>3. DiskVerdict' = DiskVerdict
    BY <1>0, <1>2, OnlyReapingMarks, SameMarksSameVerdict DEF Interrupted, Completes, ReapChild
  <2> QED
    BY <2>1, <2>2, <2>3 DEF CauseInv
<1>3. CASE ReapChild
  <2>1. UNCHANGED <<cause, killed, taints, tainted>> /\ sigfd' = FALSE
    BY <1>3 DEF ReapChild
  <2>2. CASE Completes
    <3>1. Unmarked /\ sigfd /\ ~aborting
      BY <1>3, <2>2 DEF ReapChild, CompletionInv, SigfdPolled, Completes, WritesCompletion
    <3>2. DiskVerdict' = Verdict
      BY <1>0, <2>2, <3>1, ReapingCompletes
    <3>3. Verdict = "timeout" => killed # "none" /\ ~taints
      BY DEF Verdict, TaintKill
    <3> QED
      BY <2>1, <3>1, <3>2, <3>3 DEF CauseInv
  <2>3. CASE ~Completes
    <3>1. DiskVerdict' = DiskVerdict
      BY <1>0, <2>3, OnlyReapingMarks, SameMarksSameVerdict
    <3> QED
      BY <2>1, <3>1 DEF CauseInv
  <2> QED
    BY <2>2, <2>3
<1>4. CASE ~KillTest /\ ~Interrupted /\ ~ReapChild
  <2>1. DiskVerdict' = DiskVerdict
    BY <1>0, <1>4, OnlyReapingMarks, SameMarksSameVerdict DEF Completes
  <2>2. sigfd' = sigfd /\ (aborting => aborting')
    BY <1>4, OtherSteps DEF CompletionInv
  <2>3. /\ UNCHANGED <<killed, cause>>
        /\ UNCHANGED <<taints, tainted>> \/ (taints' = tainted /\ UNCHANGED tainted)
             \/ (UNCHANGED taints /\ tainted' = TRUE)
    <3>1. CASE Select
      BY <3>1 DEF Select
    <3>2. CASE ReadStdout
      BY <3>2 DEF ReadStdout
    <3>3. CASE ScanLine \/ ScanDone
      BY <3>3 DEF ScanLine, ScanDone
    <3>4. CASE ReadStderr
      BY <3>4 DEF ReadStderr
    <3>5. CASE ReadSocket
      BY <3>5 DEF ReadSocket, NoSocketData, BadPacket, StartPacket, OtherPacket, Receive
    <3>6. CASE ReadKmsg \/ NoSignal
      BY <3>6 DEF ReadKmsg, NoSignal
    <3>7. CASE NotYet \/ RefusesToDie \/ Return
      BY <3>7 DEF NotYet, RefusesToDie, Return
    <3>8. CASE WorldStep
      BY <3>8 DEF WorldStep, StartSubtest, SkipSubtest, EndSubtest, Noise, Exits, Stops, Forks,
                  DescendantEnds, Taint, SignalRunner, World
    <3>9. CASE UNCHANGED vars
      BY <3>9 DEF vars
    <3> QED
      BY <1>4, <3>1, <3>2, <3>3, <3>4, <3>5, <3>6, <3>7, <3>8, <3>9
         DEF Next, MonitorStep, HandleSignal, CheckTimeout, Returned
  <2> QED
    BY <2>1, <2>2, <2>3 DEF CauseInv
<1> QED
  BY <1>1, <1>2, <1>3, <1>4

\* Without a disk usage limit a timeout verdict is only given to a test that was
\* killed for a timeout (with one, a late start of a subtest resets disk_usage and
\* a disk kill looks like a timeout).
THEOREM TimeoutIsDue == DiskUsageLimit = 0 => (Spec => []TimeoutVerdictIsDue)
<1> SUFFICES ASSUME DiskUsageLimit = 0 PROVE Spec => []TimeoutVerdictIsDue
  OBVIOUS
<1>1. Init /\ CompletionInv => CauseInv
  <2> SUFFICES ASSUME Init, CompletionInv PROVE CauseInv
    OBVIOUS
  <2>1. killed = "none" /\ cause = "none" /\ taints = FALSE
    BY DEF Init
  <2> QED
    BY <2>1 DEF CauseInv, CompletionInv
<1>2. CompletionInv /\ CauseInv /\ [Next]_vars => CauseInv'
  BY CauseInductive
<1>3. CauseInv => TimeoutVerdictIsDue
  BY DEF CauseInv, TimeoutVerdictIsDue
<1> QED
  BY <1>1, <1>2, <1>3, CompletionInvariant, PTL DEF Spec

-----------------------------------------------------------------------------
(* monitor_output() implements TestRun.                                    *)

\* There are three verdicts.
LEMMA VerdictType == DiskVerdict \in {"none", "exit", "timeout"}
BY DEF DiskVerdict

\* Every step of the loop is one of TestRun, or changes nothing TestRun knows of.
LEMMA PromiseStep ==
  ASSUME CompletionInv, [Next]_vars PROVE [Promise!Next]_(Promise!vars)
<1> USE DEF Promise!Next, Promise!vars
<1>0. TypeOK /\ TypeOK'
  BY NextType DEF CompletionInv
<1>1. CASE Completes
  <2>1. sigfd /\ Unmarked /\ aborting = FALSE /\ ret = "none" /\ UNCHANGED ret
    BY <1>1, <1>0 DEF Completes, ReapChild, CompletionInv, SigfdPolled, WritesCompletion, TypeOK
  <2>2. DiskVerdict = "none"
    BY <2>1, VerdictOfMarks DEF Unmarked, VerdictOf
  <2>3. DiskVerdict' \in {"exit", "timeout"}
    BY <1>0, <1>1, <2>1, ReapingCompletes, CompletionForm
  <2>4. aborting' \in BOOLEAN
    BY <1>0 DEF TypeOK
  <2> QED
    BY <2>1, <2>2, <2>3, <2>4 DEF Promise!Complete
<1>2. CASE ~Completes
  <2>0. DiskVerdict' = DiskVerdict
    BY <1>0, <1>2, OnlyReapingMarks, SameMarksSameVerdict
  <2>1. CASE Interrupted \/ StartPacket
    <3>1. ret = "none" /\ UNCHANGED ret
      BY <2>1 DEF Interrupted, StartPacket, Receive, CompletionInv
    <3>2. aborting' = TRUE \/ UNCHANGED aborting
      BY <2>1 DEF Interrupted, StartPacket
    <3>3. aborting \in BOOLEAN
      BY <1>0 DEF TypeOK
    <3> QED
      BY <2>0, <3>1, <3>2, <3>3 DEF Promise!Stop
  <2>2. CASE KillTest \/ RefusesToDie
    <3>1. ret = "none" /\ UNCHANGED aborting /\ ret' \in {ret, "dead", "error"}
      BY <2>2 DEF KillTest, RefusesToDie, CompletionInv
    <3> QED
      BY <2>0, <3>1 DEF Promise!Tell, Promise!Fail
  <2>3. CASE Return
    <3>1. /\ ret = "none" /\ ~sigfd /\ ret' = ReturnValue /\ UNCHANGED aborting
      BY <2>3 DEF Return, CompletionInv
    <3>2. ~aborting => DiskVerdict # "none" /\ (killed = "none" => DiskVerdict = "exit")
      BY <3>1, VerdictType DEF CompletionInv
    <3> QED
      BY <2>0, <3>1, <3>2
         DEF ReturnValue, Promise!Tell, Promise!Fail, Promise!Succeed, Promise!Resume
  <2>4. CASE ReapChild
    BY <1>2, <2>0, <2>4 DEF Completes, ReapChild
  <2>5. CASE Select \/ ScanLine \/ ScanDone \/ NoSocketData \/ BadPacket \/ OtherPacket \/ NoSignal
    <3>1. UNCHANGED <<aborting, ret>>
      BY <2>5 DEF Select, ScanLine, ScanDone, NoSocketData, BadPacket, OtherPacket, Receive, NoSignal, res
    <3> QED
      BY <2>0, <3>1
  <2>6. CASE ReadStdout \/ ReadStderr \/ ReadKmsg \/ NotYet
    <3>1. UNCHANGED <<aborting, ret>>
      BY <2>6 DEF ReadStdout, ReadStderr, ReadKmsg, NotYet, res
    <3> QED
      BY <2>0, <3>1
  <2>7. CASE WorldStep
    <3>1. UNCHANGED <<aborting, ret>>
      BY <2>7 DEF WorldStep, StartSubtest, SkipSubtest, EndSubtest, Noise, Exits, Stops, Forks,
                  DescendantEnds, Taint, SignalRunner, World, res
    <3> QED
      BY <2>0, <3>1
  <2>8. CASE UNCHANGED vars
    BY <2>0, <2>8 DEF vars, res
  <2> QED
    BY <2>1, <2>2, <2>3, <2>4, <2>5, <2>6, <2>7, <2>8
       DEF Next, MonitorStep, ReadSocket, HandleSignal, CheckTimeout, Returned
<1> QED
  BY <1>1, <1>2

\* monitor_output() keeps the promises execute() builds on.
THEOREM PromiseKept == Spec => KeepsPromise
<1>1. Init /\ CompletionInv => Promise!Init
  <2> SUFFICES ASSUME Init PROVE Promise!Init
    OBVIOUS
  <2>1. journal = <<>> /\ comms = <<>> /\ aborting = FALSE /\ ret = "none"
    BY DEF Init
  <2>2. DiskVerdict = "none"
    BY <2>1 DEF DiskVerdict, JournalMarks, CommsMarks
  <2> QED
    BY <2>1, <2>2 DEF Promise!Init
<1>2. CompletionInv /\ [Next]_vars => [Promise!Next]_(Promise!vars)
  BY PromiseStep
<1> QED
  BY <1>1, <1>2, CompletionInvariant, PTL DEF Spec, KeepsPromise, Promise!Spec
-----------------------------------------------------------------------------
(* An abort blames the subtest that caused it: its override stands behind  *)
(* that subtest's result.  For that the test has to start its subtests one *)
(* after the other, and what of it is still in the socket counts.          *)

\* The test is between two subtests at place i of the socket's packets: what it
\* started before is followed by a result, in the socket or in the comms dump c.
Closed(c) ==
  \/ \A k \in DOMAIN c : c[k] # "start"
  \/ \E j \in DOMAIN c : c[j] = "result" /\ \A k \in j..Len(c) : c[k] # "start"
ClosedAt(q, c, i) ==
  \/ \E j \in 1..i-1 : q[j] = "result" /\ \A k \in j..i-1 : q[k] # "start"
  \/ Closed(c) /\ \A k \in 1..i-1 : q[k] # "start"

\* Subtests start one after the other, and the test does not write to a socket
\* it does not have.
OneByOne ==
  /\ \A i \in DOMAIN sockq : sockq[i] = "start" => ClosedAt(sockq, comms, i)
  /\ running = NoSubtest \/ proto = "journal" => ClosedAt(sockq, comms, Len(sockq) + 1)

\* results_received: the dump holds a result.
Received == results_received => \E j \in DOMAIN comms : comms[j] = "result"

\* An abort override is never the last packet, and behind a result when a
\* subtest starts after it.
Blames(c) ==
  \A i \in DOMAIN c : c[i] = "abort" =>
    /\ i < Len(c)
    /\ c[i+1] = "start" => \E j \in 1..i-1 : c[j] = "result" /\ \A k \in j..i : c[k] # "start"

\* Whoever wrote one is aborting, and says so.
Tells ==
  (\E i \in DOMAIN comms : comms[i] = "abort") =>
    aborting /\ abort_already_written /\ abortreason # "none" /\ ret \notin {"ok", "killed"}

BlameInv == TypeOK /\ OneByOne /\ Received /\ Blames(comms) /\ Tells

\* What is added to the dump leaves it closed, unless it is a start; a result closes it.
LEMMA ClosedExtended ==
  ASSUME NEW c \in Seq(Records), NEW m \in Seq(Records), \A k \in DOMAIN m : m[k] # "start", Closed(c)
  PROVE  Closed(c \o m)
<1>1. /\ Len(c) \in Nat /\ Len(m) \in Nat /\ DOMAIN c = 1..Len(c) /\ DOMAIN m = 1..Len(m)
      /\ DOMAIN (c \o m) = 1..Len(c) + Len(m) /\ Len(c \o m) = Len(c) + Len(m)
      /\ \A k \in 1..Len(c) : (c \o m)[k] = c[k]
      /\ \A k \in Len(c)+1 .. Len(c) + Len(m) : (c \o m)[k] = m[k - Len(c)]
  BY LenProperties, ConcatProperties
<1>2. \A k \in Len(c)+1 .. Len(c) + Len(m) : (c \o m)[k] # "start"
  BY <1>1
<1>3. CASE \A k \in DOMAIN c : c[k] # "start"
  BY <1>1, <1>2, <1>3 DEF Closed
<1>4. CASE \E j \in DOMAIN c : c[j] = "result" /\ \A k \in j..Len(c) : c[k] # "start"
  <2>1. PICK j \in DOMAIN c : c[j] = "result" /\ \A k \in j..Len(c) : c[k] # "start"
    BY <1>4
  <2>2. j \in DOMAIN (c \o m) /\ (c \o m)[j] = "result"
    BY <1>1, <2>1
  <2>3. \A k \in j..Len(c \o m) : (c \o m)[k] # "start"
    BY <1>1, <1>2, <2>1
  <2> QED BY <2>2, <2>3 DEF Closed
<1> QED BY <1>3, <1>4 DEF Closed

LEMMA ClosedAppended ==
  ASSUME NEW c \in Seq(Records), NEW x \in Records
  PROVE  /\ x # "start" /\ Closed(c) => Closed(Append(c, x))
         /\ x = "result" => Closed(Append(c, x))
<1> DEFINE d == Append(c, x)
<1>1. /\ Len(c) \in Nat /\ DOMAIN c = 1..Len(c) /\ DOMAIN d = 1..Len(c)+1 /\ Len(d) = Len(c) + 1
      /\ d[Len(c)+1] = x /\ \A k \in 1..Len(c) : d[k] = c[k]
  BY LenProperties, AppendProperties
<1> HIDE DEF d
<1>2. ASSUME x = "result" PROVE Closed(d)
  <2>1. Len(c)+1 \in DOMAIN d /\ d[Len(c)+1] = "result" /\ \A k \in Len(c)+1..Len(d) : d[k] # "start"
    BY <1>1, <1>2
  <2> QED BY <2>1 DEF Closed
<1>3. ASSUME x # "start", Closed(c) PROVE Closed(d)
  <2>1. CASE \A k \in DOMAIN c : c[k] # "start"
    BY <1>1, <1>3, <2>1 DEF Closed
  <2>2. CASE \E j \in DOMAIN c : c[j] = "result" /\ \A k \in j..Len(c) : c[k] # "start"
    <3>1. PICK j \in DOMAIN c : c[j] = "result" /\ \A k \in j..Len(c) : c[k] # "start"
      BY <2>2
    <3>2. j \in DOMAIN d /\ d[j] = "result" /\ \A k \in j..Len(d) : d[k] # "start"
      BY <1>1, <1>3, <3>1
    <3> QED BY <3>2 DEF Closed
  <2> QED BY <1>3, <2>1, <2>2 DEF Closed
<1> QED BY <1>2, <1>3 DEF d

\* A new packet does not change what came before it, and closes when it is a result.
LEMMA AppendClosedAt ==
  ASSUME NEW q \in Seq(Packets), NEW c, NEW x \in Packets
  PROVE  /\ \A i \in 1..Len(q)+1 : ClosedAt(q, c, i) => ClosedAt(Append(q, x), c, i)
         /\ x # "start" /\ ClosedAt(q, c, Len(q) + 1) => ClosedAt(Append(q, x), c, Len(q) + 2)
         /\ x = "result" => ClosedAt(Append(q, x), c, Len(q) + 2)
<1> DEFINE r == Append(q, x)
<1>1. Len(q) \in Nat /\ r[Len(q)+1] = x /\ \A k \in 1..Len(q) : r[k] = q[k]
  BY LenProperties, AppendProperties
<1> HIDE DEF r
<1>2. ASSUME NEW i \in 1..Len(q)+1, ClosedAt(q, c, i) PROVE ClosedAt(r, c, i)
  <2>1. \A k \in 1..i-1 : k \in 1..Len(q) /\ r[k] = q[k]
    BY <1>1
  <2>2. CASE \E j \in 1..i-1 : q[j] = "result" /\ \A k \in j..i-1 : q[k] # "start"
    <3>1. PICK j \in 1..i-1 : q[j] = "result" /\ \A k \in j..i-1 : q[k] # "start"
      BY <2>2
    <3>2. r[j] = "result" /\ \A k \in j..i-1 : r[k] # "start"
      BY <1>1, <2>1, <3>1
    <3> QED BY <3>1, <3>2 DEF ClosedAt
  <2>3. CASE Closed(c) /\ \A k \in 1..i-1 : q[k] # "start"
    BY <2>1, <2>3 DEF ClosedAt
  <2> QED BY <1>2, <2>2, <2>3 DEF ClosedAt
<1>3. ASSUME x # "start", ClosedAt(q, c, Len(q) + 1) PROVE ClosedAt(r, c, Len(q) + 2)
  <2>0. Len(q)+1-1 = Len(q) /\ Len(q)+2-1 = Len(q)+1
    BY <1>1
  <2>1. CASE \E j \in 1..Len(q) : q[j] = "result" /\ \A k \in j..Len(q) : q[k] # "start"
    <3>1. PICK j \in 1..Len(q) : q[j] = "result" /\ \A k \in j..Len(q) : q[k] # "start"
      BY <2>1
    <3>2. j \in 1..Len(q)+1 /\ r[j] = "result" /\ \A k \in j..Len(q)+1 : r[k] # "start"
      BY <1>1, <1>3, <3>1
    <3> QED BY <2>0, <3>2 DEF ClosedAt
  <2>2. CASE Closed(c) /\ \A k \in 1..Len(q) : q[k] # "start"
    <3>1. \A k \in 1..Len(q)+1 : r[k] # "start"
      BY <1>1, <1>3, <2>2
    <3> QED BY <2>0, <2>2, <3>1 DEF ClosedAt
  <2> QED BY <1>3, <2>0, <2>1, <2>2 DEF ClosedAt
<1>4. ASSUME x = "result" PROVE ClosedAt(r, c, Len(q) + 2)
  <2>1. Len(q)+2-1 = Len(q)+1 /\ Len(q)+1 \in 1..Len(q)+1
    BY <1>1
  <2>2. r[Len(q)+1] = "result" /\ \A k \in Len(q)+1..Len(q)+1 : r[k] # "start"
    BY <1>1, <1>4
  <2> QED BY <2>1, <2>2 DEF ClosedAt
<1> QED BY <1>2, <1>3, <1>4 DEF r

\* The first packet goes to the dump, which turns from c to d.
LEMMA TailClosedAt ==
  ASSUME NEW q \in Seq(Packets), q # <<>>, NEW c, NEW d,
         Closed(c) /\ Head(q) # "start" => Closed(d), Head(q) = "result" => Closed(d),
         NEW i \in 1..Len(q), ClosedAt(q, c, i + 1)
  PROVE  ClosedAt(Tail(q), d, i)
<1> DEFINE r == Tail(q)
<1>1. /\ Len(q) \in Nat \ {0} /\ Head(q) = q[1] /\ Len(r) = Len(q) - 1
      /\ \A k \in 1..Len(q)-1 : r[k] = q[k+1]
  BY LenProperties, HeadTailProperties, EmptySeq
<1> HIDE DEF r
<1>2. \A k \in 1..i-1 : r[k] = q[k+1] /\ k+1 \in 1..i
  BY <1>1
<1>3. CASE \E j \in 1..i : q[j] = "result" /\ \A k \in j..i : q[k] # "start"
  <2>1. PICK j \in 1..i : q[j] = "result" /\ \A k \in j..i : q[k] # "start"
    BY <1>3
  <2>2. CASE j = 1
    <3>1. Closed(d)
      BY <1>1, <2>1, <2>2
    <3>2. \A k \in 1..i-1 : r[k] # "start"
      BY <1>2, <2>1, <2>2
    <3> QED BY <3>1, <3>2 DEF ClosedAt, r
  <2>3. CASE j # 1
    <3>1. j-1 \in 1..i-1 /\ j-1+1 = j
      BY <1>1, <2>1, <2>3
    <3>2. r[j-1] = "result"
      BY <1>2, <2>1, <3>1
    <3>3. \A k \in j-1..i-1 : r[k] # "start"
      <4> SUFFICES ASSUME NEW k \in j-1..i-1 PROVE r[k] # "start"
        OBVIOUS
      <4>1. k \in 1..i-1 /\ k+1 \in j..i
        BY <2>1, <2>3, <3>1, <1>1
      <4> QED BY <1>2, <2>1, <4>1
    <3> QED BY <3>1, <3>2, <3>3 DEF ClosedAt, r
  <2> QED BY <2>2, <2>3
<1>4. CASE Closed(c) /\ \A k \in 1..i : q[k] # "start"
  <2>1. Closed(d)
    BY <1>1, <1>4
  <2>2. \A k \in 1..i-1 : r[k] # "start"
    BY <1>2, <1>4
  <2> QED BY <2>1, <2>2 DEF ClosedAt, r
<1>5. i+1-1 = i
  BY <1>1
<1> QED BY <1>3, <1>4, <1>5 DEF ClosedAt

\* What follows an override does not change whom it blames.
LEMMA BlamesExtended ==
  ASSUME NEW c \in Seq(Records), NEW m \in Seq(Records), \A k \in DOMAIN m : m[k] # "abort", Blames(c)
  PROVE  Blames(c \o m)
<1> DEFINE d == c \o m
<1>1. /\ Len(c) \in Nat /\ Len(m) \in Nat /\ DOMAIN c = 1..Len(c) /\ DOMAIN m = 1..Len(m)
      /\ DOMAIN d = 1..Len(c) + Len(m) /\ Len(d) = Len(c) + Len(m)
      /\ \A k \in 1..Len(c) : d[k] = c[k]
      /\ \A k \in Len(c)+1 .. Len(c) + Len(m) : d[k] = m[k - Len(c)]
  BY LenProperties, ConcatProperties
<1> HIDE DEF d
<1>2. ASSUME NEW i \in DOMAIN d, d[i] = "abort"
      PROVE  i < Len(d) /\ (d[i+1] = "start" => \E j \in 1..i-1 : d[j] = "result" /\ \A k \in j..i : d[k] # "start")
  <2>1. i \in 1..Len(c)
    <3>1. CASE i > Len(c)
      <4>1. i \in Len(c)+1 .. Len(c) + Len(m) /\ i - Len(c) \in DOMAIN m
        BY <1>1, <3>1
      <4> QED BY <1>1, <1>2, <4>1
    <3> QED BY <1>1, <3>1
  <2>2. c[i] = "abort" /\ i < Len(c) /\ c[i+1] = d[i+1]
    BY <1>1, <1>2, <2>1 DEF Blames
  <2>3. ASSUME d[i+1] = "start" PROVE \E j \in 1..i-1 : d[j] = "result" /\ \A k \in j..i : d[k] # "start"
    <3>1. PICK j \in 1..i-1 : c[j] = "result" /\ \A k \in j..i : c[k] # "start"
      BY <1>1, <2>1, <2>2, <2>3 DEF Blames
    <3>2. d[j] = "result" /\ \A k \in j..i : d[k] # "start"
      BY <1>1, <2>1, <3>1
    <3> QED BY <3>1, <3>2
  <2> QED BY <1>1, <2>1, <2>2, <2>3
<1> QED BY <1>2 DEF Blames, d

\* The override itself, before the start of the next.
LEMMA BlamesAbort ==
  ASSUME NEW c \in Seq(Records), Blames(c), NEW x \in {"start", "dynstart"},
         \E j \in DOMAIN c : c[j] = "result", x = "start" => Closed(c)
  PROVE  Blames(c \o <<"log", "log", "abort", x>>)
<1> DEFINE m == <<"log", "log", "abort", x>>
           d == c \o m
<1>0. m \in Seq(Records) /\ Len(m) = 4
  BY DEF Records, Packets
<1>1. /\ Len(c) \in Nat /\ DOMAIN c = 1..Len(c)
      /\ DOMAIN d = 1..Len(c) + 4 /\ Len(d) = Len(c) + 4
      /\ \A k \in 1..Len(c) : d[k] = c[k]
      /\ d[Len(c)+1] = m[1] /\ d[Len(c)+2] = m[2] /\ d[Len(c)+3] = m[3] /\ d[Len(c)+4] = m[4]
  <2>1. /\ DOMAIN d = 1..Len(c) + Len(m) /\ Len(d) = Len(c) + Len(m)
        /\ \A k \in 1..Len(c) : d[k] = c[k]
        /\ \A k \in 1..Len(m) : d[Len(c)+k] = m[k]
    BY <1>0, ConcatProperties
  <2>2. Len(c) \in Nat /\ DOMAIN c = 1..Len(c)
    BY LenProperties
  <2>3. 1 \in 1..4 /\ 2 \in 1..4 /\ 3 \in 1..4 /\ 4 \in 1..4
    OBVIOUS
  <2> HIDE DEF d, m
  <2> QED BY <1>0, <2>1, <2>2, <2>3
<1>2. m[1] = "log" /\ m[2] = "log" /\ m[3] = "abort" /\ m[4] = x
  OBVIOUS
<1> HIDE DEF d, m
<1>3. ASSUME NEW i \in DOMAIN d, d[i] = "abort"
      PROVE  i < Len(d) /\ (d[i+1] = "start" => \E j \in 1..i-1 : d[j] = "result" /\ \A k \in j..i : d[k] # "start")
  <2>1. CASE i \in 1..Len(c)
    <3>1. c[i] = "abort" /\ i < Len(c) /\ c[i+1] = d[i+1]
      BY <1>1, <1>3, <2>1 DEF Blames
    <3>2. ASSUME d[i+1] = "start" PROVE \E j \in 1..i-1 : d[j] = "result" /\ \A k \in j..i : d[k] # "start"
      <4>1. PICK j \in 1..i-1 : c[j] = "result" /\ \A k \in j..i : c[k] # "start"
        BY <1>1, <2>1, <3>1, <3>2 DEF Blames
      <4>2. d[j] = "result" /\ \A k \in j..i : d[k] # "start"
        BY <1>1, <2>1, <4>1
      <4> QED BY <4>1, <4>2
    <3> QED BY <1>1, <2>1, <3>1, <3>2
  <2>2. CASE i \notin 1..Len(c)
    <3>1. i = Len(c)+3
      <4>1. i \in {Len(c)+1, Len(c)+2, Len(c)+3, Len(c)+4}
        BY <1>1, <2>2
      <4>2. d[Len(c)+1] # "abort" /\ d[Len(c)+2] # "abort" /\ d[Len(c)+4] # "abort"
        BY <1>1, <1>2
      <4> QED BY <1>3, <4>1, <4>2
    <3>2. d[i+1] = x /\ i+1 = Len(c)+4
      BY <1>1, <1>2, <3>1
    <3>3. ASSUME x = "start" PROVE \E j \in 1..i-1 : d[j] = "result" /\ \A k \in j..i : d[k] # "start"
      <4>1. PICK j \in DOMAIN c : c[j] = "result" /\ \A k \in j..Len(c) : c[k] # "start"
        <5>1. PICK j \in DOMAIN c : c[j] = "result"
          OBVIOUS
        <5> QED BY <1>1, <3>3, <5>1 DEF Closed
      <4>2. j \in 1..i-1 /\ d[j] = "result"
        BY <1>1, <3>1, <4>1
      <4>3. \A k \in j..i : d[k] # "start"
        <5> SUFFICES ASSUME NEW k \in j..i PROVE d[k] # "start"
          OBVIOUS
        <5>1. k \in j..Len(c) \/ k \in {Len(c)+1, Len(c)+2, Len(c)+3}
          BY <1>1, <3>1, <4>1
        <5> QED BY <1>1, <1>2, <4>1, <5>1
      <4> QED BY <4>2, <4>3
    <3> QED BY <1>1, <3>1, <3>2, <3>3
  <2> QED BY <2>1, <2>2
<1> QED BY <1>3 DEF Blames, d, m

\* What the loop takes from the socket is what the test wrote first.
LEMMA SocketInOrder ==
  ASSUME TypeOK, OneByOne, Receive,
         Closed(comms) /\ Head(sockq) # "start" => Closed(comms'),
         Head(sockq) = "result" => Closed(comms')
  PROVE  OneByOne'
<1>1. /\ sockq \in Seq(Packets) /\ sockq # <<>> /\ sockq' = Tail(sockq) /\ UNCHANGED <<running, proto>>
  BY DEF TypeOK, Receive
<1>2. /\ Len(sockq) \in Nat \ {0} /\ Len(sockq') = Len(sockq) - 1 /\ DOMAIN sockq = 1..Len(sockq)
      /\ DOMAIN sockq' = 1..Len(sockq)-1 /\ \A k \in 1..Len(sockq)-1 : sockq'[k] = sockq[k+1]
  BY <1>1, HeadTailProperties, LenProperties, EmptySeq
<1>3. ASSUME NEW i \in 1..Len(sockq), ClosedAt(sockq, comms, i + 1)
      PROVE  ClosedAt(sockq', comms', i)
  BY <1>1, <1>3, TailClosedAt
<1>4. ASSUME NEW i \in DOMAIN sockq', sockq'[i] = "start" PROVE ClosedAt(sockq', comms', i)
  <2>1. i \in 1..Len(sockq) /\ i+1 \in DOMAIN sockq /\ sockq[i+1] = "start"
    BY <1>2, <1>4
  <2> QED BY <1>3, <2>1 DEF OneByOne
<1>5. ASSUME running' = NoSubtest \/ proto' = "journal"
      PROVE  ClosedAt(sockq', comms', Len(sockq') + 1)
  <2>1. ClosedAt(sockq, comms, Len(sockq) + 1) /\ Len(sockq') + 1 = Len(sockq) /\ Len(sockq) \in 1..Len(sockq)
    BY <1>1, <1>2, <1>5 DEF OneByOne
  <2> QED BY <1>3, <2>1
<1> QED BY <1>4, <1>5 DEF OneByOne

\* A dump that is still closed when it was closed.
LEMMA DumpClosed ==
  ASSUME OneByOne, UNCHANGED <<sockq, running, proto>>, Closed(comms) => Closed(comms')
  PROVE  OneByOne'
<1>1. \A i : ClosedAt(sockq, comms, i) => ClosedAt(sockq, comms', i)
  BY DEF ClosedAt
<1> QED BY <1>1 DEF OneByOne

\* The test writes: a start only between subtests, and a result at the end of each.
LEMMA TestInOrder ==
  ASSUME TypeOK, OneByOne, UNCHANGED <<comms, proto>>, NEW x \in Packets, proto = "comms",
         sockq' = Append(sockq, x),
         x = "start" => running = NoSubtest /\ running' # NoSubtest,
         running' = NoSubtest => x = "result" \/ (running = NoSubtest /\ x # "start")
  PROVE  OneByOne'
<1>1. /\ sockq \in Seq(Packets) /\ Len(sockq) \in Nat /\ DOMAIN sockq = 1..Len(sockq)
      /\ DOMAIN sockq' = 1..Len(sockq)+1 /\ Len(sockq') = Len(sockq)+1 /\ Len(sockq')+1 = Len(sockq)+2
      /\ sockq'[Len(sockq)+1] = x /\ \A k \in 1..Len(sockq) : sockq'[k] = sockq[k]
  BY AppendProperties, LenProperties DEF TypeOK
<1>2. /\ \A i \in 1..Len(sockq)+1 : ClosedAt(sockq, comms, i) => ClosedAt(sockq', comms, i)
      /\ x # "start" /\ ClosedAt(sockq, comms, Len(sockq)+1) => ClosedAt(sockq', comms, Len(sockq)+2)
      /\ x = "result" => ClosedAt(sockq', comms, Len(sockq)+2)
  BY <1>1, AppendClosedAt
<1>3. ASSUME NEW i \in DOMAIN sockq', sockq'[i] = "start" PROVE ClosedAt(sockq', comms', i)
  <2>1. CASE i \in 1..Len(sockq)
    BY <1>1, <1>2, <1>3, <2>1 DEF OneByOne
  <2>2. CASE i = Len(sockq)+1
    <3>1. running = NoSubtest
      BY <1>1, <1>3, <2>2
    <3>2. ClosedAt(sockq, comms, i) /\ i \in 1..Len(sockq)+1
      BY <1>1, <2>2, <3>1 DEF OneByOne
    <3> QED BY <1>2, <3>2
  <2> QED BY <1>1, <2>1, <2>2
<1>4. ASSUME running' = NoSubtest PROVE ClosedAt(sockq', comms', Len(sockq')+1)
  BY <1>1, <1>2, <1>4 DEF OneByOne
<1>5. proto' # "journal"
  OBVIOUS
<1> QED BY <1>3, <1>4, <1>5 DEF OneByOne

\* Records that are neither start nor override leave the dump as it is for all this.
LEMMA RecordsOrdered ==
  ASSUME TypeOK, Blames(comms),
         NEW m \in Seq(Records), \A k \in DOMAIN m : m[k] \notin {"start", "abort"}, comms' = comms \o m
  PROVE  /\ Closed(comms) => Closed(comms')
         /\ Blames(comms')
         /\ \A x : (\E i \in DOMAIN comms : comms[i] = x) => (\E i \in DOMAIN comms' : comms'[i] = x)
         /\ (\E i \in DOMAIN comms' : comms'[i] = "abort") => (\E i \in DOMAIN comms : comms[i] = "abort")
<1>1. comms \in Seq(Records) /\ Len(comms) \in Nat /\ Len(m) \in Nat /\ DOMAIN comms = 1..Len(comms) /\ DOMAIN m = 1..Len(m)
  BY LenProperties DEF TypeOK
<1>2. /\ DOMAIN comms' = 1..Len(comms) + Len(m)
      /\ \A k \in 1..Len(comms) : comms'[k] = comms[k]
      /\ \A k \in Len(comms)+1 .. Len(comms) + Len(m) : comms'[k] = m[k - Len(comms)]
  BY <1>1, ConcatProperties
<1>3. Closed(comms) => Closed(comms')
  BY <1>1, ClosedExtended
<1>4. Blames(comms')
  BY <1>1, BlamesExtended
<1>5. \A i \in DOMAIN comms : i \in DOMAIN comms' /\ comms'[i] = comms[i]
  BY <1>1, <1>2
<1>6. ASSUME NEW i \in DOMAIN comms', comms'[i] = "abort" PROVE i \in DOMAIN comms /\ comms[i] = "abort"
  <2>1. CASE i > Len(comms)
    <3>1. i \in Len(comms)+1 .. Len(comms) + Len(m) /\ i - Len(comms) \in DOMAIN m
      BY <1>1, <1>2, <2>1
    <3> QED BY <1>2, <1>6, <3>1
  <2> QED BY <1>1, <1>2, <1>6, <2>1
<1> QED BY <1>3, <1>4, <1>5, <1>6

\* Draining the socket keeps it all: a start is where an override may come in.
LEMMA ReadSocketBlames ==
  ASSUME BlameInv, pc # "done" => ret = "none", ReadSocket PROVE OneByOne' /\ Received' /\ Blames(comms)' /\ Tells'
<1>0. TypeOK /\ OneByOne /\ Received /\ Blames(comms) /\ Tells /\ comms \in Seq(Records)
  BY DEF BlameInv, TypeOK
<1>1. CASE NoSocketData
  <2>1. UNCHANGED <<sockq, comms, running, proto, results_received, aborting, abort_already_written, abortreason, ret>>
    BY <1>1 DEF NoSocketData, env, files, res, seen
  <2> QED BY <1>0, <2>1 DEF OneByOne, Received, Tells
<1>2. CASE BadPacket
  <2>1. /\ Receive /\ Head(sockq) = "bad" /\ comms' = comms \o <<"log", "warn">>
        /\ UNCHANGED <<results_received, aborting, abort_already_written, abortreason, ret>>
    BY <1>2 DEF BadPacket, Receive
  <2>2. <<"log", "warn">> \in Seq(Records) /\ \A k \in DOMAIN <<"log", "warn">> : <<"log", "warn">>[k] \notin {"start", "abort"}
    BY PacketRecords
  <2>3. /\ Closed(comms) => Closed(comms')
        /\ Blames(comms')
        /\ \A x : (\E i \in DOMAIN comms : comms[i] = x) => (\E i \in DOMAIN comms' : comms'[i] = x)
        /\ (\E i \in DOMAIN comms' : comms'[i] = "abort") => (\E i \in DOMAIN comms : comms[i] = "abort")
    BY <1>0, <2>1, <2>2, RecordsOrdered
  <2>4. OneByOne'
    BY <1>0, <2>1, <2>3, SocketInOrder
  <2> QED BY <1>0, <2>1, <2>3, <2>4 DEF Received, Tells
<1>3. CASE OtherPacket
  <2>1. /\ Receive /\ Head(sockq) \in {"exec", "result", "log"} /\ comms' = Append(comms, Head(sockq))
        /\ results_received' = IF Head(sockq) = "result" THEN TRUE ELSE results_received
        /\ UNCHANGED <<aborting, abort_already_written, abortreason, ret>>
    BY <1>3 DEF OtherPacket, Receive
  <2> DEFINE m == <<Head(sockq)>>
  <2>2. Head(sockq) \in Records /\ comms' = comms \o m
    BY <1>0, <2>1, PacketRecords, ReceivedType, AppendIsConcat
  <2>3. m \in Seq(Records) /\ \A k \in DOMAIN m : m[k] \notin {"start", "abort"}
    BY <2>1, <2>2
  <2> HIDE DEF m
  <2>4. /\ Blames(comms')
        /\ \A x : (\E i \in DOMAIN comms : comms[i] = x) => (\E i \in DOMAIN comms' : comms'[i] = x)
        /\ (\E i \in DOMAIN comms' : comms'[i] = "abort") => (\E i \in DOMAIN comms : comms[i] = "abort")
    BY <1>0, <2>2, <2>3, RecordsOrdered
  <2>5. /\ Closed(comms) /\ Head(sockq) # "start" => Closed(comms')
        /\ Head(sockq) = "result" => Closed(comms')
    BY <1>0, <2>1, <2>2, ClosedAppended
  <2>6. OneByOne'
    BY <1>0, <2>1, <2>5, SocketInOrder
  <2>7. Received'
    <3>1. CASE Head(sockq) = "result"
      <4>1. Len(comms)+1 \in DOMAIN comms' /\ comms'[Len(comms)+1] = "result"
        BY <1>0, <2>1, <2>2, <3>1, AppendProperties, LenProperties
      <4> QED BY <4>1 DEF Received
    <3>2. CASE Head(sockq) # "result"
      BY <1>0, <2>1, <2>4, <3>2 DEF Received
    <3> QED BY <3>1, <3>2
  <2> QED BY <1>0, <2>1, <2>4, <2>6, <2>7 DEF Tells
<1>4. CASE StartPacket
  <2>1. Receive /\ Head(sockq) \in {"start", "dynstart"} /\ UNCHANGED <<results_received, ret>>
    BY <1>4 DEF StartPacket, Receive
  <2>2. Head(sockq) \in Records
    BY <1>0, <2>1, PacketRecords, ReceivedType
  <2>3. CASE ChecksAbort /\ NeedToAbort
    <3> DEFINE m == <<"log", "log", "abort", Head(sockq)>>
    <3>1. comms' = comms \o m /\ abortreason' = "condition" /\ aborting' = TRUE /\ abort_already_written' = TRUE
      BY <1>4, <2>3 DEF StartPacket
    <3>2. results_received /\ ~aborting
      BY <2>3 DEF ChecksAbort
    <3>3. Head(sockq) = "start" => Closed(comms)
      <4> SUFFICES ASSUME Head(sockq) = "start" PROVE Closed(comms)
        OBVIOUS
      <4>1. sockq \in Seq(Packets) /\ sockq # <<>> /\ 1 \in DOMAIN sockq /\ sockq[1] = "start"
        BY <1>0, <2>1, HeadTailProperties, LenProperties, EmptySeq DEF TypeOK, Receive
      <4>2. ClosedAt(sockq, comms, 1)
        BY <1>0, <4>1 DEF OneByOne
      <4> QED BY <4>2 DEF ClosedAt
    <3>4. Blames(comms')
      BY <1>0, <2>1, <3>1, <3>2, <3>3, BlamesAbort DEF Received
    <3>5. ret' = "none"
      BY <2>1 DEF Receive
    <3>6. Head(sockq) # "start" => /\ Closed(comms) => Closed(comms')
      <4> SUFFICES ASSUME Head(sockq) # "start", Closed(comms) PROVE Closed(comms')
        OBVIOUS
      <4>1. m \in Seq(Records) /\ \A k \in DOMAIN m : m[k] # "start"
        BY <2>2, PacketRecords
      <4> HIDE DEF m
      <4> QED BY <1>0, <3>1, <4>1, ClosedExtended
    <3>7. OneByOne'
      BY <1>0, <2>1, <3>6, SocketInOrder
    <3>8. Received'
      <4>1. PICK j \in DOMAIN comms : comms[j] = "result"
        BY <1>0, <3>2 DEF Received
      <4>2. m \in Seq(Records)
        BY <2>2, PacketRecords
      <4> HIDE DEF m
      <4>3. j \in DOMAIN comms' /\ comms'[j] = "result"
        BY <1>0, <3>1, <4>1, <4>2, ConcatProperties, LenProperties
      <4> QED BY <4>3 DEF Received
    <3>9. Tells'
      BY <3>1, <3>5 DEF Tells
    <3> QED BY <3>4, <3>7, <3>8, <3>9
  <2>4. CASE ~(ChecksAbort /\ NeedToAbort)
    <3>1. /\ comms' = Append(comms, Head(sockq)) /\ UNCHANGED <<aborting, abort_already_written>>
          /\ abortreason' = IF ChecksAbort THEN "none" ELSE abortreason
      BY <1>4, <2>4 DEF StartPacket
    <3>2. /\ Len(comms) \in Nat /\ DOMAIN comms = 1..Len(comms) /\ DOMAIN comms' = 1..Len(comms)+1
          /\ comms'[Len(comms)+1] = Head(sockq) /\ \A k \in 1..Len(comms) : comms'[k] = comms[k]
      BY <1>0, <2>2, <3>1, AppendProperties, LenProperties
    <3>3. Head(sockq) # "start" /\ Closed(comms) => Closed(comms')
      BY <1>0, <2>2, <3>1, ClosedAppended
    <3>4. OneByOne'
      BY <1>0, <2>1, <3>3, SocketInOrder
    <3>5. Received'
      BY <1>0, <2>1, <3>2 DEF Received
    <3>6. Blames(comms')
      <4> DEFINE m == <<Head(sockq)>>
      <4>1. comms' = comms \o m
        BY <1>0, <2>2, <3>1, AppendIsConcat
      <4>2. m \in Seq(Records) /\ \A k \in DOMAIN m : m[k] # "abort"
        BY <2>1, <2>2
      <4> HIDE DEF m
      <4> QED BY <1>0, <4>1, <4>2, BlamesExtended
    <3>7. Tells'
      <4>1. (\E i \in DOMAIN comms' : comms'[i] = "abort") => \E i \in DOMAIN comms : comms[i] = "abort"
        BY <2>1, <3>2
      <4> QED BY <1>0, <2>1, <3>1, <4>1 DEF Tells, ChecksAbort
    <3> QED BY <3>4, <3>5, <3>6, <3>7
  <2> QED BY <2>3, <2>4
<1> QED BY <1>1, <1>2, <1>3, <1>4 DEF ReadSocket

\* What the runner itself adds to the dump is neither a start nor an override.
LEMMA CommsWrittenBlames ==
  ASSUME BlameInv, Interrupted \/ ReapChild PROVE OneByOne' /\ Received' /\ Blames(comms)' /\ Tells'
<1>0. TypeOK /\ OneByOne /\ Received /\ Blames(comms) /\ Tells /\ comms \in Seq(Records)
  BY DEF BlameInv, TypeOK
<1>1. /\ UNCHANGED <<sockq, running, proto, results_received, abort_already_written, ret>>
      /\ aborting => aborting' /\ abortreason' = abortreason
  BY DEF Interrupted, ReapChild, WritesCompletion, seen
<1>2. PICK m \in Seq(Records) : comms' = comms \o m /\ \A k \in DOMAIN m : m[k] \notin {"start", "abort"}
  <2>1. CASE UNCHANGED comms
    <3>1. <<>> \in Seq(Records) /\ comms' = comms \o <<>> /\ DOMAIN <<>> = {}
      BY <1>0, <2>1, EmptySeq
    <3> QED BY <3>1
  <2>2. CASE comms' = comms \o <<"log", "notrun">>
    <3>1. <<"log", "notrun">> \in Seq(Records) /\ \A k \in DOMAIN <<"log", "notrun">> : <<"log", "notrun">>[k] \notin {"start", "abort"}
      BY PacketRecords
    <3> QED BY <2>2, <3>1
  <2>3. CASE comms' = comms \o Completion
    <3>1. Completion \in Seq(Records) /\ \A k \in DOMAIN Completion : Completion[k] \notin {"start", "abort"}
      BY PacketRecords DEF Completion, Verdict
    <3> QED BY <2>3, <3>1
  <2> QED BY <2>1, <2>2, <2>3 DEF Interrupted, ReapChild, files
<1>3. /\ Closed(comms) => Closed(comms')
      /\ Blames(comms')
      /\ \A x : (\E i \in DOMAIN comms : comms[i] = x) => (\E i \in DOMAIN comms' : comms'[i] = x)
      /\ (\E i \in DOMAIN comms' : comms'[i] = "abort") => (\E i \in DOMAIN comms : comms[i] = "abort")
  BY <1>0, <1>2, RecordsOrdered
<1>4. OneByOne'
  BY <1>0, <1>1, <1>3, DumpClosed
<1> QED BY <1>0, <1>1, <1>3, <1>4 DEF Received, Tells

\* The test and the world around it.
LEMMA WorldBlames ==
  ASSUME BlameInv, WorldStep PROVE OneByOne' /\ Received' /\ Blames(comms)' /\ Tells'
<1>0. TypeOK /\ OneByOne /\ Received /\ Blames(comms) /\ Tells
  BY DEF BlameInv
<1>1. UNCHANGED <<comms, proto, results_received, aborting, abort_already_written, abortreason, ret>>
  BY DEF WorldStep, StartSubtest, SkipSubtest, EndSubtest, Noise, Exits, Stops, Forks,
         DescendantEnds, Taint, SignalRunner, World, files, res, seen
<1>2. OneByOne'
  <2>1. CASE UNCHANGED <<sockq, running>>
    BY <1>0, <1>1, <2>1 DEF OneByOne
  <2>2. CASE \E s \in Subtests : StartSubtest(s)
    <3>1. PICK s \in Subtests : StartSubtest(s)
      BY <2>2
    <3>2. running = NoSubtest /\ running' = s /\ s # NoSubtest /\ Report("start", s)
      BY <3>1, MonitorAssumption DEF StartSubtest, MonitorAssumption
    <3>3. CASE sockq' = sockq
      BY <1>0, <1>1, <3>2, <3>3 DEF OneByOne
    <3>4. CASE proto = "comms" /\ sockq' = Append(sockq, "start")
      BY <1>0, <1>1, <3>2, <3>4, TestInOrder DEF Packets
    <3> QED BY <3>2, <3>3, <3>4 DEF Report
  <2>3. CASE EndSubtest
    <3>1. running' = NoSubtest /\ Report("result", running)
      BY <2>3 DEF EndSubtest
    <3>2. CASE proto = "journal" /\ sockq' = sockq
      BY <1>0, <1>1, <3>2 DEF OneByOne
    <3>3. CASE proto = "comms" /\ sockq' = Append(sockq, "result")
      BY <1>0, <1>1, <3>3, TestInOrder DEF Packets
    <3> QED BY <3>1, <3>2, <3>3 DEF Report
  <2>4. CASE \E s \in Subtests : SkipSubtest(s)
    <3>1. PICK s \in Subtests : SkipSubtest(s)
      BY <2>4
    <3>2. UNCHANGED running /\ Report("result", s)
      BY <3>1 DEF SkipSubtest
    <3>3. CASE proto = "comms" /\ sockq' = Append(sockq, "result")
      BY <1>0, <1>1, <3>3, TestInOrder DEF Packets
    <3> QED BY <2>1, <3>2, <3>3 DEF Report
  <2>5. CASE Noise
    <3>1. UNCHANGED running
      BY <2>5 DEF Noise
    <3>2. UNCHANGED sockq \/ \E p \in {"dynstart", "log", "bad"} : proto = "comms" /\ sockq' = Append(sockq, p)
      BY <2>5 DEF Noise, Report
    <3>3. ASSUME NEW p \in {"dynstart", "log", "bad"}, proto = "comms", sockq' = Append(sockq, p) PROVE OneByOne'
      BY <1>0, <1>1, <3>1, <3>3, TestInOrder DEF Packets
    <3> QED BY <2>1, <3>1, <3>2, <3>3
  <2>6. CASE \/ Exits \/ Stops \/ Forks \/ DescendantEnds \/ Taint
             \/ \E sig \in {"HUP", "TERM"} : SignalRunner(sig)
    BY <2>1, <2>6 DEF Exits, Stops, Forks, DescendantEnds, Taint, SignalRunner
  <2> QED BY <2>2, <2>3, <2>4, <2>5, <2>6 DEF WorldStep
<1> QED BY <1>0, <1>1, <1>2 DEF Received, Tells

\* No step breaks any of it.
LEMMA BlameInductive ==
  ASSUME CompletionInv, BlameInv, [Next]_vars PROVE BlameInv'
<1>0. TypeOK /\ OneByOne /\ Received /\ Blames(comms) /\ Tells /\ TypeOK'
  BY NextType DEF BlameInv
<1>1. CASE ReadSocket
  BY <1>0, <1>1, ReadSocketBlames DEF BlameInv, CompletionInv
<1>2. CASE Interrupted \/ ReapChild
  BY <1>0, <1>2, CommsWrittenBlames DEF BlameInv
<1>3. CASE WorldStep
  BY <1>0, <1>3, WorldBlames DEF BlameInv
<1>4. CASE UNCHANGED <<comms, sockq, running, proto, results_received, aborting, abort_already_written>>
           /\ (abortreason' = abortreason \/ abortreason' # "none")
           /\ (aborting => ret' \notin {"ok", "killed"} \/ ret' = ret)
  BY <1>0, <1>4 DEF BlameInv, OneByOne, Received, Tells
<1>5. CASE Select \/ ScanLine \/ ScanDone \/ NoSignal
  BY <1>4, <1>5 DEF Select, ScanLine, ScanDone, NoSignal, env, files, res, seen
<1>6. CASE ReadStdout \/ ReadStderr \/ ReadKmsg
  BY <1>4, <1>6 DEF ReadStdout, ReadStderr, ReadKmsg, files, res, seen
<1>7. CASE CheckTimeout
  <2>1. CASE NotYet
    BY <1>4, <2>1 DEF NotYet, env, files, res
  <2>2. CASE KillTest
    BY <1>4, <2>2 DEF KillTest, files
  <2>3. CASE RefusesToDie
    BY <1>4, <2>3 DEF RefusesToDie, env, files
  <2> QED BY <1>7, <2>1, <2>2, <2>3 DEF CheckTimeout
<1>8. CASE Return
  BY <1>4, <1>8 DEF Return, ReturnValue, env, files, seen
<1>9. CASE UNCHANGED vars
  BY <1>4, <1>9 DEF vars, env, files, res, seen
<1> QED
  BY <1>1, <1>2, <1>3, <1>5, <1>6, <1>7, <1>8, <1>9 DEF Next, MonitorStep, HandleSignal, Returned

\* An abort override stands behind the result of the subtest before the next start,
\* and the caller gets both the reason and a failure.
THEOREM AbortBlames == Spec => []AbortBlamesThePrevious
<1>1. Init => BlameInv
  <2> SUFFICES ASSUME Init PROVE BlameInv
    OBVIOUS
  <2>1. /\ sockq = <<"exec">> /\ comms = <<>> /\ results_received = FALSE /\ running = NoSubtest
        /\ DOMAIN sockq = {1} /\ Len(sockq) = 1 /\ sockq[1] = "exec" /\ DOMAIN comms = {}
    BY DEF Init
  <2>2. Closed(comms) /\ Blames(comms) /\ Received /\ Tells
    BY <2>1 DEF Closed, Blames, Received, Tells
  <2>3. ClosedAt(sockq, comms, Len(sockq) + 1)
    BY <2>1, <2>2 DEF ClosedAt
  <2>4. OneByOne
    BY <2>1, <2>3 DEF OneByOne
  <2> QED BY <2>2, <2>4, InitType DEF BlameInv
<1>2. CompletionInv /\ BlameInv /\ [Next]_vars => BlameInv'
  BY BlameInductive
<1>3. BlameInv => AbortBlamesThePrevious
  BY DEF BlameInv, Blames, Tells, AbortBlamesThePrevious
<1> QED
  BY <1>1, <1>2, <1>3, CompletionInvariant, PTL DEF Spec

-----------------------------------------------------------------------------
(* Every subtest with a result is in the journal: what the test said is in *)
(* the pipe, in the lines being scanned or in the journal, and the pipe is *)
(* closed when nobody is left to write to it.                              *)

InJournal(j, s) == \E i \in DOMAIN j : j[i] = s
Told(q, s)   == \E i \in DOMAIN q : q[i] \in {<<"start", s>>, <<"result", s>>}

NothingLost ==
  proto = "journal" => \A s \in begun : InJournal(journal, s) \/ Told(buf, s) \/ Told(outq, s)

\* current_subtest is the last one journaled; lines are scanned to the last.
LinesInv ==
  /\ current # NoSubtest => InJournal(journal, current)
  /\ buf # <<>> => pc = "lines"

\* stdout is closed at its end only, and nothing is read of it after that.
PipeInv ==
  /\ pc = "stdout" /\ "out" \in ready => outq # <<>> \/ Eof
  /\ ~outfd => Eof /\ outq = <<>>
  /\ ret = "ok" => ~outfd

JournalInv == TypeOK /\ NothingLost /\ LinesInv /\ PipeInv

\* The journal only grows, and lines go one by one.
LEMMA JournalAppended ==
  ASSUME NEW j \in Seq(JournalEntries), NEW x \in JournalEntries
  PROVE  InJournal(Append(j, x), x) /\ \A s : InJournal(j, s) => InJournal(Append(j, x), s)
BY AppendProperties, LenProperties DEF InJournal

LEMMA ToldAppended ==
  ASSUME NEW q \in Seq(Lines), NEW x \in Lines
  PROVE  /\ \A s : Told(q, s) => Told(Append(q, x), s)
         /\ \A s : x \in {<<"start", s>>, <<"result", s>>} => Told(Append(q, x), s)
<1>1. /\ Len(q) \in Nat /\ DOMAIN q = 1..Len(q) /\ DOMAIN Append(q, x) = 1..Len(q)+1
      /\ Append(q, x)[Len(q)+1] = x /\ \A k \in 1..Len(q) : Append(q, x)[k] = q[k]
  BY LenProperties, AppendProperties
<1>2. Len(q)+1 \in DOMAIN Append(q, x) /\ \A k \in DOMAIN q : k \in DOMAIN Append(q, x)
  BY <1>1
<1> QED BY <1>1, <1>2 DEF Told

LEMMA ToldInTail ==
  ASSUME NEW q \in Seq(Lines), q # <<>>, NEW s, Told(q, s)
  PROVE  Head(q) \in {<<"start", s>>, <<"result", s>>} \/ Told(Tail(q), s)
<1>1. /\ Len(q) \in Nat \ {0} /\ DOMAIN q = 1..Len(q) /\ Head(q) = q[1]
      /\ DOMAIN Tail(q) = 1..Len(q)-1 /\ \A k \in 1..Len(q)-1 : Tail(q)[k] = q[k+1]
  BY LenProperties, HeadTailProperties, EmptySeq
<1>2. PICK i \in DOMAIN q : q[i] \in {<<"start", s>>, <<"result", s>>}
  BY DEF Told
<1>3. CASE i = 1
  BY <1>1, <1>2, <1>3
<1>4. CASE i # 1
  <2>1. i-1 \in DOMAIN Tail(q) /\ Tail(q)[i-1] = q[i]
    BY <1>1, <1>2, <1>4
  <2> QED BY <1>2, <2>1 DEF Told
<1> QED BY <1>3, <1>4

\* A line of a subtest leaves its name in the journal.
LEMMA LineScanned ==
  ASSUME PrefixOf = {}, JournalInv, ScanLine PROVE NothingLost' /\ LinesInv' /\ PipeInv'
<1> DEFINE kind == Head(buf)[1]
           n == Head(buf)[2]
<1>0. TypeOK /\ NothingLost /\ LinesInv /\ PipeInv
  BY DEF JournalInv
<1>1. /\ buf \in Seq(Lines) /\ buf # <<>> /\ buf' = Tail(buf) /\ pc = "lines" /\ Head(buf) \in Lines
      /\ UNCHANGED <<env, fds, res, pc, ready>>
  BY <1>0, HeadTailProperties DEF ScanLine, TypeOK
<1>2. \A s : Head(buf) \in {<<"start", s>>, <<"result", s>>} => kind \in {"start", "result"} /\ n = s
  OBVIOUS
<1>3. /\ kind \in {"start", "result", "dynstart", "text"}
      /\ kind \in {"start", "result"} => n \in Subtests /\ n \in JournalEntries /\ n # NoSubtest
  BY <1>1, MonitorAssumption DEF Lines, JournalEntries, MonitorAssumption
<1>4. /\ kind \in {"start", "result"} => InJournal(journal', n)
      /\ \A s : InJournal(journal, s) => InJournal(journal', s)
      /\ current' # NoSubtest => InJournal(journal', current')
  <2>0. journal \in Seq(JournalEntries)
    BY <1>0 DEF TypeOK
  <2>1. CASE kind \in {"start", "result"} /\ journal' = Append(journal, n) /\ current' \in {n, NoSubtest}
    BY <2>0, <1>3, <2>1, JournalAppended
  <2>2. CASE kind \in {"dynstart", "text"} /\ UNCHANGED <<journal, current>>
    BY <1>0, <2>2 DEF InJournal, LinesInv
  <2>3. CASE kind = "result" /\ SameName(n) /\ UNCHANGED <<journal, current>>
    <3>1. n = current
      BY <2>3 DEF SameName
    <3> QED BY <1>0, <1>3, <2>3, <3>1 DEF InJournal, LinesInv
  <2>4. \/ kind = "start" /\ journal' = Append(journal, n) /\ current' = n
        \/ kind = "result" /\ journal' = Append(journal, n) /\ current' = NoSubtest
        \/ kind \in {"dynstart", "text"} /\ UNCHANGED <<journal, current>>
        \/ kind = "result" /\ SameName(n) /\ UNCHANGED <<journal, current>>
    BY DEF ScanLine
  <2> QED BY <2>1, <2>2, <2>3, <2>4
<1> HIDE DEF kind, n
<1>5. NothingLost'
  <2> SUFFICES ASSUME proto' = "journal", NEW s \in begun' PROVE InJournal(journal', s) \/ Told(buf', s) \/ Told(outq', s)
    BY DEF NothingLost
  <2>1. proto = "journal" /\ s \in begun /\ outq' = outq
    BY <1>1 DEF env
  <2>2. CASE InJournal(journal, s)
    BY <1>4, <2>2
  <2>3. CASE Told(buf, s)
    <3>1. Head(buf) \in {<<"start", s>>, <<"result", s>>} \/ Told(buf', s)
      BY <1>1, <2>3, ToldInTail
    <3>2. CASE Head(buf) \in {<<"start", s>>, <<"result", s>>}
      <4>1. kind \in {"start", "result"} /\ n = s
        BY <1>2, <3>2
      <4> QED BY <1>4, <4>1
    <3> QED BY <3>1, <3>2
  <2>4. CASE Told(outq, s)
    BY <2>1, <2>4
  <2> QED BY <1>0, <2>1, <2>2, <2>3, <2>4 DEF NothingLost
<1>6. LinesInv'
  BY <1>1, <1>4 DEF LinesInv
<1>7. PipeInv'
  BY <1>0, <1>1 DEF PipeInv, env, fds, res, Eof
<1> QED BY <1>5, <1>6, <1>7

\* The pipe is emptied into the buffer, or closed.
LEMMA StdoutRead ==
  ASSUME JournalInv, ReadStdout PROVE NothingLost' /\ LinesInv' /\ PipeInv'
<1>0. TypeOK /\ NothingLost /\ LinesInv /\ PipeInv /\ pc = "stdout" /\ buf = <<>>
  BY DEF JournalInv, LinesInv, ReadStdout
<1>1. UNCHANGED <<proto, begun, journal, current, process, held, ret, ready>>
  BY DEF ReadStdout, files, res
<1>2. CASE "out" \notin ready /\ UNCHANGED <<outq, outfd, buf>> /\ pc' = "stderr"
  BY <1>0, <1>1, <1>2 DEF NothingLost, LinesInv, PipeInv, InJournal, Eof
<1>3. CASE "out" \in ready /\ outq = <<>> /\ outfd' = FALSE /\ UNCHANGED <<outq, buf>> /\ pc' = "stderr"
  BY <1>0, <1>1, <1>3 DEF NothingLost, LinesInv, PipeInv, InJournal, Eof
<1>4. CASE outq # <<>> /\ buf' = outq /\ outq' = <<>> /\ UNCHANGED outfd /\ pc' = "lines"
  <2>1. \A s : ~Told(buf, s)
    BY <1>0 DEF Told
  <2> QED BY <1>0, <1>1, <1>4, <2>1 DEF NothingLost, LinesInv, PipeInv, InJournal, Eof
<1> QED BY <1>2, <1>3, <1>4 DEF ReadStdout

\* Who still writes keeps the pipe open.
LEMMA PipeWritten ==
  ASSUME JournalInv, WorldStep, pc # "done" PROVE NothingLost' /\ LinesInv' /\ PipeInv'
<1>0. TypeOK /\ NothingLost /\ LinesInv /\ PipeInv /\ outq \in Seq(Lines)
  BY DEF JournalInv, TypeOK
<1>1. UNCHANGED <<proto, journal, current, buf, pc, ready, outfd, ret>>
  BY DEF WorldStep, StartSubtest, SkipSubtest, EndSubtest, Noise, Exits, Stops, Forks,
         DescendantEnds, Taint, SignalRunner, World, files, res, line, fds
<1>2. LinesInv'
  BY <1>0, <1>1 DEF LinesInv, InJournal
<1>3. Eof => Eof' /\ outq' = outq
  BY DEF Eof, WorldStep, StartSubtest, SkipSubtest, EndSubtest, Noise, Exits, Stops, Forks,
         DescendantEnds, Taint, SignalRunner
<1>4. outq' = outq \/ \E x \in Lines : outq' = Append(outq, x)
  <2>1. \A s \in Subtests : <<"start", s>> \in Lines /\ <<"result", s>> \in Lines
    BY DEF Lines
  <2>2. <<"dynstart", NoSubtest>> \in Lines /\ <<"text", NoSubtest>> \in Lines
    BY DEF Lines
  <2>3. running # NoSubtest => running \in Subtests
    BY <1>0 DEF TypeOK
  <2>4. CASE \E s \in Subtests : StartSubtest(s) \/ SkipSubtest(s)
    BY <2>1, <2>4 DEF StartSubtest, SkipSubtest, Report
  <2>5. CASE EndSubtest
    BY <2>1, <2>3, <2>5 DEF EndSubtest, Report
  <2>6. CASE Noise
    BY <2>2, <2>6 DEF Noise, Report
  <2> QED BY <2>4, <2>5, <2>6 DEF WorldStep, Exits, Stops, Forks, DescendantEnds, Taint, SignalRunner
<1>5. PipeInv'
  <2>1. outq # <<>> => outq' # <<>>
    BY <1>0, <1>4, AppendProperties, EmptySeq
  <2> QED BY <1>0, <1>1, <1>3, <2>1 DEF PipeInv
<1>6. \A s : Told(outq, s) => Told(outq', s)
  BY <1>0, <1>4, ToldAppended
<1>7. ASSUME proto = "journal", NEW s \in begun', s \notin begun PROVE Told(outq', s)
  <2>1. s \in Subtests /\ (StartSubtest(s) \/ SkipSubtest(s))
    BY <1>7 DEF WorldStep, StartSubtest, SkipSubtest, EndSubtest, Noise, Exits, Stops, Forks,
                DescendantEnds, Taint, SignalRunner
  <2>2. \E x \in {<<"start", s>>, <<"result", s>>} : x \in Lines /\ outq' = Append(outq, x)
    BY <1>7, <2>1 DEF StartSubtest, SkipSubtest, Report, Lines
  <2> QED BY <1>0, <2>2, ToldAppended
<1>8. NothingLost'
  <2> SUFFICES ASSUME proto' = "journal", NEW s \in begun' PROVE InJournal(journal', s) \/ Told(buf', s) \/ Told(outq', s)
    BY DEF NothingLost
  <2>1. CASE s \in begun
    BY <1>0, <1>1, <1>6, <2>1 DEF NothingLost, InJournal
  <2>2. CASE s \notin begun
    BY <1>1, <1>7, <2>2
  <2> QED BY <2>1, <2>2
<1> QED BY <1>2, <1>5, <1>8

\* No step loses a line.
LEMMA JournalInductive ==
  ASSUME PrefixOf = {}, CompletionInv, JournalInv, [Next]_vars PROVE JournalInv'
<1>0. TypeOK /\ NothingLost /\ LinesInv /\ PipeInv /\ TypeOK' /\ journal \in Seq(JournalEntries)
  BY NextType DEF JournalInv, TypeOK
<1>1. CASE ScanLine
  BY <1>0, <1>1, LineScanned DEF JournalInv
<1>2. CASE ReadStdout
  BY <1>0, <1>2, StdoutRead DEF JournalInv
<1>3. CASE WorldStep
  BY <1>0, <1>3, PipeWritten DEF JournalInv, WorldStep
<1>4. CASE /\ UNCHANGED <<proto, begun, buf, outq, current, outfd>>
           /\ \A s : InJournal(journal, s) => InJournal(journal', s)
           /\ Eof => Eof'
           /\ buf # <<>> => pc' = "lines"
           /\ pc' = "stdout" /\ "out" \in ready' => outq # <<>> \/ Eof
           /\ ret' = "ok" => ~outfd
  <2>1. NothingLost'
    BY <1>0, <1>4 DEF NothingLost, Told
  <2>2. LinesInv'
    BY <1>0, <1>4 DEF LinesInv
  <2>3. PipeInv'
    BY <1>0, <1>4 DEF PipeInv
  <2> QED BY <1>0, <2>1, <2>2, <2>3 DEF JournalInv
<1>5. journal' = journal => \A s : InJournal(journal, s) => InJournal(journal', s)
  BY DEF InJournal
<1>6. buf # <<>> => pc = "lines"
  BY <1>0 DEF LinesInv
<1>7. ret = "ok" => ~outfd
  BY <1>0 DEF PipeInv
<1>8. UNCHANGED <<process, held>> => (Eof => Eof')
  BY DEF Eof
<1>9. CASE Select
  <2>1. "out" \in ready' => outq # <<>> \/ Eof
    BY <1>9 DEF Select, Available
  <2> QED BY <1>4, <1>5, <1>6, <1>7, <1>8, <1>9, <2>1 DEF Select, env, files, fds, line, res
<1>10. CASE ScanDone \/ NoSignal \/ NoSocketData
  BY <1>4, <1>5, <1>6, <1>7, <1>8, <1>10 DEF ScanDone, NoSignal, NoSocketData, env, files, fds, line, res
<1>11. CASE ReadStderr \/ ReadKmsg
  BY <1>4, <1>5, <1>6, <1>7, <1>8, <1>11 DEF ReadStderr, ReadKmsg, files, fds, line, res
<1>12. CASE BadPacket \/ StartPacket \/ OtherPacket
  <2>1. /\ pc = "socket" /\ pc' \in {"socket", "kmsg"}
        /\ UNCHANGED <<proto, begun, buf, outq, current, outfd, journal, process, held, ret>>
    BY <1>12 DEF BadPacket, StartPacket, OtherPacket, Receive, fds, line
  <2> QED BY <1>4, <1>5, <1>6, <1>7, <1>8, <2>1
<1>13. CASE Interrupted
  <2>1. \A s : InJournal(journal, s) => InJournal(journal', s)
    BY <1>0, <1>5, <1>13, JournalAppended DEF Interrupted, JournalEntries, files
  <2> QED BY <1>4, <1>6, <1>7, <1>8, <1>13, <2>1 DEF Interrupted, fds, line
<1>14. CASE ReapChild
  <2>1. \A s : InJournal(journal, s) => InJournal(journal', s)
    <3>1. Verdict \in JournalEntries
      BY DEF Verdict, JournalEntries
    <3> QED BY <1>0, <1>5, <1>14, <3>1, JournalAppended DEF ReapChild, files
  <2>2. Eof => Eof'
    BY <1>14 DEF ReapChild, Eof
  <2>3. /\ UNCHANGED <<proto, begun, buf, outq, current, outfd, ret>> /\ pc = "signal" /\ pc' = "timeout"
    BY <1>14 DEF ReapChild, line
  <2> QED BY <1>4, <1>6, <1>7, <2>1, <2>2, <2>3
<1>15. CASE NotYet \/ RefusesToDie
  BY <1>4, <1>5, <1>6, <1>7, <1>8, <1>15 DEF NotYet, RefusesToDie, env, files, fds, line, res
<1>16. CASE KillTest
  <2>1. /\ UNCHANGED <<proto, begun, buf, outq, current, outfd, journal, process, held>>
        /\ pc = "timeout" /\ pc' # "stdout" /\ (ret' = ret \/ ret' = "dead")
    BY <1>16 DEF KillTest, files, fds, line
  <2> QED BY <1>4, <1>5, <1>6, <1>7, <1>8, <2>1
<1>17. CASE Return
  BY <1>4, <1>5, <1>6, <1>7, <1>8, <1>17 DEF Return, env, files, fds, line
<1>18. CASE UNCHANGED vars
  BY <1>0, <1>18 DEF vars, env, files, fds, line, res, JournalInv, NothingLost, LinesInv, PipeInv, InJournal, Eof, TypeOK
<1> QED
  BY <1>1, <1>2, <1>3, <1>9, <1>10, <1>11, <1>12, <1>13, <1>14, <1>15, <1>16, <1>17, <1>18
     DEF Next, MonitorStep, ReadSocket, HandleSignal, CheckTimeout, Returned

\* Of names of which none begins another, every subtest of a test that ended by
\* itself is in the journal.
THEOREM ResultsAreJournaled == PrefixOf = {} => (Spec => []EveryResultJournaled)
<1> SUFFICES ASSUME PrefixOf = {} PROVE Spec => []EveryResultJournaled
  OBVIOUS
<1>1. Init => JournalInv
  BY InitType DEF Init, JournalInv, NothingLost, LinesInv, PipeInv
<1>2. CompletionInv /\ JournalInv /\ [Next]_vars => JournalInv'
  BY JournalInductive
<1>3. JournalInv => EveryResultJournaled
  <2> SUFFICES ASSUME JournalInv, proto = "journal", pc = "done", ret = "ok", NEW s \in begun
               PROVE  \E i \in DOMAIN journal : journal[i] = s
    BY DEF EveryResultJournaled
  <2>1. buf = <<>> /\ outq = <<>>
    BY DEF JournalInv, LinesInv, PipeInv
  <2>2. ~Told(buf, s) /\ ~Told(outq, s)
    BY <2>1 DEF Told
  <2> QED BY <2>2 DEF JournalInv, NothingLost, InJournal
<1> QED
  BY <1>1, <1>2, <1>3, CompletionInvariant, PTL DEF Spec
=============================================================================
