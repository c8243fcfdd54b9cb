------------------------------ MODULE Monitor ------------------------------
(***************************************************************************)
(* monitor_output() of runner/executor.c: the loop with which igt_runner   *)
(* watches one test process.  The loop waits in select() for the test's    *)
(* stdout and stderr pipes, the runner communication socket, /dev/kmsg and *)
(* the runner's signalfd, handles what is ready in a fixed order, and then *)
(* decides whether the test has to be killed.                              *)
(*                                                                         *)
(* The handlers of one loop iteration are separate actions, named by pc,   *)
(* and the test, its descendants, the kernel and whoever signals the       *)
(* runner may take steps between any two of them.                          *)
(*                                                                         *)
(* A definition marked "mutant" is a deliberately wrong variant of the one *)
(* below it and is used by no other definition: put in its place it breaks *)
(* the property PROJECT.json names, which shows what that property guards. *)
(***************************************************************************)
EXTENDS Naturals, Sequences

CONSTANTS
  Subtests,           \* the subtests of the test binary
  NoSubtest,          \* the empty string in current_subtest
  PrefixOf,           \* pairs <<a, b>>: the name a is a proper prefix of b
  PerTestTimeout,     \* settings->per_test_timeout, 0 when not configured
  InactivityTimeout,  \* settings->inactivity_timeout, 0 when not configured
  DiskUsageLimit,     \* settings->disk_usage_limit, 0 when not configured
  AbortTaint,         \* settings->abort_mask & ABORT_TAINT
  LogNormal,          \* settings->log_level >= LOG_LEVEL_NORMAL
  QuitGrace,          \* patience after SIGQUIT (120 s), in ticks
  KillGrace,          \* patience after SIGKILL (20 s), in ticks
  TaintDecrease,      \* divisor of the timeouts on a tainted kernel (10)
  MaxNoise,           \* bound: messages of the test that are not subtests
  MaxSignals,         \* bound: signals sent to the runner from outside
  MayStop             \* whether the test may be stopped (SIGSTOP) once

ASSUME MonitorAssumption ==
  /\ NoSubtest \notin Subtests
  /\ Subtests \cap {"exit", "timeout", "graceful"} = {}
  /\ PrefixOf \subseteq Subtests \X Subtests
  /\ {PerTestTimeout, InactivityTimeout, DiskUsageLimit,
      QuitGrace, KillGrace, MaxNoise, MaxSignals} \subseteq Nat
  /\ TaintDecrease \in Nat \ {0}
  /\ {AbortTaint, LogNormal, MayStop} \subseteq BOOLEAN

VARIABLES
  \* the test process and the world around it
  proto,       \* "journal" (results on stdout) or "comms" (on the socket)
  running,     \* the subtest the test is inside of, or NoSubtest
  begun,       \* the subtests it started or reported as skipped
  outq, errq,  \* lines in the stdout pipe, bytes in the stderr pipe
  sockq,       \* packets in the socket
  kmsg,        \* unread kernel messages
  process,     \* "running", "zombie" or "reaped"
  exitcode,    \* what the zombie exited with: "abort" is IGT_EXIT_ABORT
  held,        \* a descendant of the test holds the pipes open
  tainted,     \* the kernel is tainted
  signals,     \* signals pending for the runner
  noise, sent, \* counters of the bounds MaxNoise, MaxSignals
  \* the locals of monitor_output()
  pc, ready, buf, chunk, current, outfd, errfd, sigfd, child, killed,
  clock,       \* ticks since the last activity, subtest start, kill
  taints, disk_usage, aborting, socket_comms_used, results_received,
  cause,       \* why the test was told to go: the timeout_reason
  \* what the caller gets and what is on disk
  abortreason, abort_already_written, ret, journal, comms

env   == <<proto, running, begun, outq, errq, sockq, kmsg, process, exitcode,
           held, tainted, signals, noise, sent>>
files == <<journal, comms>>
fds   == <<outfd, errfd, sigfd>>
kill  == <<child, killed, cause>>
res   == <<aborting, abortreason, abort_already_written, ret>>
seen  == <<socket_comms_used, results_received, taints>>
line  == <<buf, chunk, current>>
vars  == <<env, files, fds, kill, res, seen, line, pc, ready, clock, disk_usage>>

Lines     == ({"start", "result"} \X Subtests) \cup ({"dynstart", "text"} \X {NoSubtest})
Packets   == {"exec", "start", "result", "dynstart", "log", "bad"}
Records   == Packets \cup {"warn", "abort", "notrun", "timeout", "exit"}
Fds       == {"out", "err", "sock", "kmsg", "sig"}

Init ==
  /\ proto \in {"journal", "comms"}
  /\ running = NoSubtest /\ begun = {}
  /\ outq = <<>> /\ errq = 0 /\ sockq = <<"exec">> /\ kmsg = FALSE
  /\ process = "running" /\ exitcode = "ok" /\ held = FALSE
  /\ tainted = FALSE /\ signals = {} /\ noise = 0 /\ sent = 0
  /\ pc = "select" /\ ready = {} /\ buf = <<>> /\ chunk = 0 /\ current = NoSubtest
  /\ outfd = TRUE /\ errfd = TRUE /\ sigfd = TRUE
  /\ child = TRUE /\ killed = "none" /\ cause = "none"
  /\ clock = [activity |-> 0, subtest |-> 0, kill |-> 0]
  /\ taints = FALSE /\ disk_usage = 0
  /\ aborting = FALSE /\ socket_comms_used = FALSE /\ results_received = FALSE
  /\ abortreason = "none" /\ abort_already_written = FALSE /\ ret = "none"
  /\ journal = <<>> /\ comms = <<>>

(***************************************************************************)
(* select(): a timeout of one second is one tick.  time_now is read once,  *)
(* after select(), so the clocks move here only.  The signalfd has the     *)
(* lowest number and is polled first: when it is reported, everything      *)
(* available at that moment is; it may be missed when something else is    *)
(* ready.                                                                  *)
(***************************************************************************)
Eof == process # "running" /\ ~held

Available ==
  {f \in Fds :
     \/ f = "out"  /\ outfd /\ (outq # <<>> \/ Eof)
     \/ f = "err"  /\ errfd /\ (errq > 0 \/ Eof)
     \/ f = "sock" /\ sockq # <<>>
     \/ f = "kmsg" /\ kmsg
     \/ f = "sig"  /\ sigfd /\ signals # {}}

\* Bound of the clocks: beyond its limit a clock says no more than "too long".
Patience == IF killed = "KILL" THEN KillGrace ELSE QuitGrace
Limit(c) ==
  CASE c = "activity" -> IF InactivityTimeout = 0 THEN 0 ELSE InactivityTimeout + 1
    [] c = "subtest"  -> IF PerTestTimeout = 0 THEN 0 ELSE PerTestTimeout + 1
    [] c = "kill"     -> IF killed = "none" THEN 0 ELSE Patience + 1

Tick(n) == [c \in DOMAIN clock |-> IF clock[c] < Limit(c) THEN clock[c] + n ELSE clock[c]]

Select ==
  /\ pc = "select"
  /\ outfd \/ errfd \/ sigfd
  /\ \E n \in {0, 1}, r \in {Available, Available \ {"sig"}} :
       /\ r = {} => n = 1 /\ Available = {}
       /\ ready' = r
       /\ clock' = Tick(n)
  /\ pc' = "stdout"
  /\ UNCHANGED <<env, files, fds, kill, res, seen, line, disk_usage>>

\* Bound of the disk usage: beyond the limit it says no more than "too much".
Usage(n) == IF n > DiskUsageLimit THEN DiskUsageLimit + 1 ELSE n

\* time_last_activity = time_now
Active == [clock EXCEPT !.activity = 0]

ReadStdout ==
  /\ pc = "stdout"
  /\ \/ /\ "out" \notin ready
        /\ pc' = "stderr"
        /\ UNCHANGED <<outq, outfd, buf, chunk, disk_usage, clock>>
     \/ /\ "out" \in ready /\ outq = <<>>
        /\ outfd' = FALSE /\ clock' = Active /\ pc' = "stderr"
        /\ UNCHANGED <<outq, buf, chunk, disk_usage>>
     \/ /\ "out" \in ready /\ outq # <<>>
        /\ buf' = outq /\ chunk' = Len(outq) /\ outq' = <<>>
        /\ disk_usage' = Usage(disk_usage + Len(outq))
        /\ clock' = Active /\ pc' = "lines"
        /\ UNCHANGED outfd
  /\ UNCHANGED <<proto, running, begun, errq, sockq, kmsg, process, exitcode, held, tainted,
                 signals, noise, sent, files, errfd, sigfd, kill, res, seen, current, ready>>

(***************************************************************************)
(* The line loop: "Starting subtest: s" is journaled and resets the        *)
(* per-test clock; "Subtest s: result" is journaled only when s is not     *)
(* what current_subtest begins with.                                       *)
(***************************************************************************)
SameNameOrNone(s) == s = current \/ current = NoSubtest  \* mutant
SameName(s) == s = current \/ <<s, current>> \in PrefixOf

ScanLine ==
  /\ pc = "lines"
  /\ buf # <<>>
  /\ buf' = Tail(buf)
  /\ LET kind == Head(buf)[1]
         s    == Head(buf)[2]
     IN \/ /\ kind = "start"
           /\ journal' = Append(journal, s)
           /\ current' = s
           /\ clock' = [clock EXCEPT !.subtest = 0]
           /\ disk_usage' = Usage(chunk)
        \/ /\ kind = "result" /\ ~SameName(s)
           /\ journal' = Append(journal, s)
           /\ current' = NoSubtest
           /\ UNCHANGED <<clock, disk_usage>>
        \/ /\ kind = "dynstart"
           /\ clock' = [clock EXCEPT !.subtest = 0]
           /\ disk_usage' = Usage(chunk)
           /\ UNCHANGED <<journal, current>>
        \/ /\ kind = "text" \/ (kind = "result" /\ SameName(s))
           /\ UNCHANGED <<journal, current, clock, disk_usage>>
  /\ UNCHANGED <<env, comms, fds, kill, res, seen, chunk, pc, ready>>

ScanDone ==
  /\ pc = "lines" /\ buf = <<>>
  /\ pc' = "stderr" /\ chunk' = 0
  /\ UNCHANGED <<env, files, fds, kill, res, seen, buf, current, ready, clock, disk_usage>>

ReadStderr ==
  /\ pc = "stderr"
  /\ pc' = "socket"
  /\ \/ /\ "err" \notin ready
        /\ UNCHANGED <<errq, errfd, disk_usage, clock>>
     \/ /\ "err" \in ready /\ errq = 0
        /\ errfd' = FALSE /\ clock' = Active
        /\ UNCHANGED <<errq, disk_usage>>
     \/ /\ "err" \in ready /\ errq > 0
        /\ errq' = 0 /\ disk_usage' = Usage(disk_usage + errq) /\ clock' = Active
        /\ UNCHANGED errfd
  /\ UNCHANGED <<proto, running, begun, outq, sockq, kmsg, process, exitcode, held, tainted,
                 signals, noise, sent, files, outfd, sigfd, kill, res, seen, line, ready>>

(***************************************************************************)
(* need_to_abort_time_sensitive(): lockdep and taint, without the ping.    *)
(* Both are conditions of the kernel; one of them stands for the two.      *)
(***************************************************************************)
NeedToAbort == AbortTaint /\ tainted

(***************************************************************************)
(* recv() in a loop until EAGAIN.  A packet of the wrong size is replaced  *)
(* by a message and a "warn" override and ends the draining.  When the     *)
(* next (dynamic) subtest starts and there are results already, the abort  *)
(* conditions are checked before the start is written to disk.             *)
(***************************************************************************)
NoSocketData ==
  /\ pc = "socket"
  /\ "sock" \notin ready \/ sockq = <<>>
  /\ clock' = IF "sock" \in ready THEN Active ELSE clock
  /\ pc' = "kmsg"
  /\ UNCHANGED <<env, files, fds, kill, res, seen, line, ready, disk_usage>>

ChecksAlways == ~aborting  \* mutant
ChecksAbort == results_received /\ ~aborting

Receive ==
  /\ pc = "socket" /\ "sock" \in ready /\ sockq # <<>>
  /\ sockq' = Tail(sockq)
  /\ UNCHANGED <<proto, running, begun, outq, errq, kmsg, process, exitcode, held, tainted,
                 signals, noise, sent, journal, fds, kill, ret, taints, line, ready>>

BadPacket ==
  /\ Receive
  /\ Head(sockq) = "bad"
  /\ comms' = comms \o <<"log", "warn">>
  /\ clock' = Active
  /\ pc' = "kmsg"
  /\ UNCHANGED <<aborting, abortreason, abort_already_written, socket_comms_used,
                 results_received, disk_usage>>

StartPacket ==
  /\ Receive
  /\ Head(sockq) \in {"start", "dynstart"}
  /\ socket_comms_used' = TRUE
  /\ clock' = [Active EXCEPT !.subtest = 0]
  /\ disk_usage' = Usage(1)
  /\ IF ChecksAbort /\ NeedToAbort
       THEN /\ comms' = comms \o <<"log", "log", "abort", Head(sockq)>>
            /\ abortreason' = "condition"
            /\ aborting' = TRUE /\ abort_already_written' = TRUE
       ELSE /\ comms' = Append(comms, Head(sockq))
            \* *abortreason is assigned the outcome of the check
            /\ abortreason' = IF ChecksAbort THEN "none" ELSE abortreason
            /\ UNCHANGED <<aborting, abort_already_written>>
  /\ UNCHANGED <<results_received, pc>>

OtherPacket ==
  /\ Receive
  /\ Head(sockq) \in {"exec", "result", "log"}
  /\ comms' = Append(comms, Head(sockq))
  /\ socket_comms_used' = IF Head(sockq) # "exec" THEN TRUE ELSE socket_comms_used
  /\ results_received' = IF Head(sockq) = "result" THEN TRUE ELSE results_received
  /\ clock' = Active
  /\ disk_usage' = Usage(disk_usage + 1)
  /\ UNCHANGED <<aborting, abortreason, abort_already_written, pc>>

ReadSocket == NoSocketData \/ BadPacket \/ StartPacket \/ OtherPacket

ReadKmsg ==
  /\ pc = "kmsg"
  /\ pc' = "signal"
  /\ \/ /\ "kmsg" \notin ready
        /\ UNCHANGED <<kmsg, clock, disk_usage>>
     \/ /\ "kmsg" \in ready
        /\ kmsg' = FALSE /\ clock' = Active /\ disk_usage' = Usage(disk_usage + 1)
  /\ UNCHANGED <<proto, running, begun, outq, errq, sockq, process, exitcode, held, tainted,
                 signals, noise, sent, files, fds, kill, res, seen, line, ready>>

-----------------------------------------------------------------------------
(* The signalfd: one siginfo is read, the lowest-numbered signal first.    *)

NoSignal ==
  /\ pc = "signal" /\ "sig" \notin ready
  /\ pc' = "timeout"
  /\ UNCHANGED <<env, files, fds, kill, res, seen, line, ready, clock, disk_usage>>

Siginfo == IF "HUP" \in signals THEN "HUP" ELSE IF "TERM" \in signals THEN "TERM" ELSE "CHLD"

(***************************************************************************)
(* The runner is told to go ("TERM" is any of SIGINT, SIGQUIT, SIGTERM).   *)
(* SIGHUP marks the current test notrun, where the test's results are      *)
(* going; then the test gets SIGQUIT, and the loop starts over.            *)
(***************************************************************************)
Interrupted ==
  /\ pc = "signal" /\ "sig" \in ready
  /\ Siginfo # "CHLD"
  /\ signals' = signals \ {Siginfo}
  /\ \/ /\ Siginfo = "HUP" /\ socket_comms_used
        /\ comms' = comms \o <<"log", "notrun">> /\ UNCHANGED journal
     \/ /\ Siginfo = "HUP" /\ ~socket_comms_used
        /\ journal' = Append(journal, "graceful") /\ UNCHANGED comms
     \/ /\ Siginfo = "TERM" /\ UNCHANGED files
  /\ aborting' = TRUE
  /\ killed' = "QUIT" /\ cause' = "signal"
  /\ clock' = [clock EXCEPT !.kill = 0]
  /\ pc' = "select" /\ ready' = {}
  /\ UNCHANGED <<proto, running, begun, outq, errq, sockq, kmsg, process, exitcode, held,
                 tainted, noise, sent, fds, child, abortreason, abort_already_written, ret,
                 seen, line, disk_usage>>

(***************************************************************************)
(* SIGCHLD: reap the test and write the completion marker, unless the run  *)
(* is being aborted.  A SIGCHLD of a stopped test reaps nothing; the code  *)
(* complains and goes on as if the test had ended.                         *)
(***************************************************************************)
DiskExceeded == DiskUsageLimit # 0 /\ disk_usage > DiskUsageLimit
TaintKill    == killed # "none" /\ taints
DiskKill     == killed # "none" /\ DiskExceeded

VerdictTainted == IF killed # "none" /\ ~DiskKill THEN "timeout" ELSE "exit"  \* mutant
Verdict == IF killed # "none" /\ ~TaintKill /\ ~DiskKill THEN "timeout" ELSE "exit"

CompletionTwice ==  \* mutant
  (IF TaintKill THEN <<"log", "exit">> ELSE <<>>)
    \o (IF Verdict = "timeout" THEN <<"timeout", "exit">> ELSE <<"exit">>)
Completion ==
  (IF TaintKill THEN <<"log">> ELSE <<>>)
    \o (IF DiskKill THEN <<"log">> ELSE <<>>)
    \o (IF Verdict = "timeout" THEN <<"timeout", "exit">> ELSE <<"exit">>)

WritesAlways == TRUE  \* mutant
WritesCompletion == ~aborting

ReapChild ==
  /\ pc = "signal" /\ "sig" \in ready
  /\ Siginfo = "CHLD"
  /\ signals' = signals \ {"CHLD"}
  /\ process' = IF process = "zombie" THEN "reaped" ELSE process
  /\ \/ /\ ~WritesCompletion
        /\ UNCHANGED <<files, aborting, abortreason>>
     \/ /\ WritesCompletion
        /\ \/ /\ socket_comms_used
              /\ comms' = comms \o Completion /\ UNCHANGED journal
           \/ /\ ~socket_comms_used
              /\ journal' = Append(journal, Verdict) /\ UNCHANGED comms
        /\ IF process = "zombie" /\ exitcode = "abort"
             THEN aborting' = TRUE /\ abortreason' = "exitcode"
             ELSE UNCHANGED <<aborting, abortreason>>
  /\ child' = FALSE
  /\ sigfd' = FALSE
  /\ pc' = "timeout"
  /\ UNCHANGED <<proto, running, begun, outq, errq, sockq, kmsg, exitcode, held, tainted,
                 noise, sent, outfd, errfd, killed, cause, abort_already_written, ret,
                 seen, line, ready, clock, disk_usage>>

HandleSignal == NoSignal \/ Interrupted \/ ReapChild

-----------------------------------------------------------------------------
(* need_to_timeout(), given that the kernel is (t) or is not tainted.      *)

Decrease(t) == IF AbortTaint /\ t THEN TaintDecrease ELSE 1

Overdue(t) ==
  \/ PerTestTimeout # 0 /\ clock.subtest > PerTestTimeout \div Decrease(t)
  \/ InactivityTimeout # 0 /\ clock.activity > InactivityTimeout \div Decrease(t)

TimeoutReason(t) ==
  IF killed # "none"
    THEN IF (killed = "KILL" /\ t) \/ clock.kill > Patience THEN "patience" ELSE "none"
    ELSE IF AbortTaint /\ t /\ PerTestTimeout = 0 /\ InactivityTimeout = 0 THEN "taint"
    ELSE IF Overdue(t) THEN IF AbortTaint /\ t THEN "taint" ELSE "time"
    ELSE IF DiskExceeded THEN "disk" ELSE "none"

NextKillSignalTerm == IF killed = "none" THEN "TERM" ELSE "KILL"  \* mutant
NextKillSignalSame == "QUIT"  \* mutant
NextKillSignal == IF killed = "none" THEN "QUIT" ELSE "KILL"

NotYet ==
  /\ pc = "timeout"
  /\ TimeoutReason(tainted) = "none"
  /\ taints' = tainted /\ ready' = {}
  /\ pc' = "select"
  /\ UNCHANGED <<env, files, fds, kill, res, socket_comms_used, results_received, line,
                 clock, disk_usage>>

(***************************************************************************)
(* kill_child(): the process group, then the process.  With child = 0,     *)
(* after the test was reaped, both calls are kill(0, sig): they address    *)
(* the runner's own process group.  SIGQUIT then waits in the runner's     *)
(* signalfd, which is no longer read; SIGKILL ends the runner.             *)
(***************************************************************************)
KillTest ==
  /\ pc = "timeout"
  /\ TimeoutReason(tainted) # "none" /\ killed # "KILL"
  /\ taints' = tainted /\ ready' = {}
  /\ killed' = NextKillSignal
  /\ cause' = IF killed = "none" THEN TimeoutReason(tainted) ELSE cause
  /\ clock' = [clock EXCEPT !.kill = 0]
  /\ \/ /\ child
        /\ pc' = "select" /\ UNCHANGED <<signals, ret>>
     \/ /\ ~child /\ killed' = "QUIT"
        /\ signals' = signals \cup {"TERM"} /\ pc' = "select" /\ UNCHANGED ret
     \/ /\ ~child /\ killed' = "KILL"
        /\ pc' = "done" /\ ret' = "dead" /\ UNCHANGED signals
  /\ UNCHANGED <<proto, running, begun, outq, errq, sockq, kmsg, process, exitcode, held,
                 tainted, noise, sent, files, fds, child, aborting, abortreason,
                 abort_already_written, socket_comms_used, results_received, line,
                 disk_usage>>

RefusesToDie ==
  /\ pc = "timeout"
  /\ TimeoutReason(tainted) # "none" /\ killed = "KILL"
  /\ taints' = tainted /\ ready' = {}
  /\ abortreason' = IF LogNormal THEN "refuses" ELSE abortreason
  /\ ret' = "error" /\ pc' = "done"
  /\ UNCHANGED <<env, files, fds, kill, aborting, abort_already_written, socket_comms_used,
                 results_received, line, clock, disk_usage>>

CheckTimeout == NotYet \/ KillTest \/ RefusesToDie

\* Everything is closed: "=0 - Success, <0 - Failure executing, >0 - Timeout"
ReturnIgnoresAbort == IF killed = "none" THEN "ok" ELSE "killed"  \* mutant
ReturnValue == IF aborting THEN "error" ELSE IF killed = "none" THEN "ok" ELSE "killed"

Return ==
  /\ pc = "select" /\ ~outfd /\ ~errfd /\ ~sigfd
  /\ ret' = ReturnValue
  /\ pc' = "done"
  /\ UNCHANGED <<env, files, fds, kill, aborting, abortreason, abort_already_written, seen,
                 line, ready, clock, disk_usage>>

MonitorStep ==
  \/ Select \/ ReadStdout \/ ScanLine \/ ScanDone \/ ReadStderr \/ ReadSocket \/ ReadKmsg
  \/ HandleSignal \/ CheckTimeout \/ Return

-----------------------------------------------------------------------------
(* The world: a test built on lib/igt_core.c, its descendants, the kernel. *)

World == <<files, fds, kill, res, seen, line, pc, ready, clock, disk_usage>>

\* A test reports on its stdout, or on the socket when it has one.
Report(kind, s) ==
  \/ /\ proto = "journal" /\ outq' = Append(outq, <<kind, s>>) /\ UNCHANGED sockq
  \/ /\ proto = "comms" /\ sockq' = Append(sockq, kind) /\ UNCHANGED outq

StartSubtest(s) ==
  /\ process = "running" /\ running = NoSubtest /\ s \notin begun
  /\ running' = s /\ begun' = begun \cup {s}
  /\ Report("start", s)
  /\ UNCHANGED <<World, proto, errq, kmsg, process, exitcode, held, tainted, signals, noise, sent>>

EndSubtest ==
  /\ process = "running" /\ running # NoSubtest
  /\ running' = NoSubtest
  /\ Report("result", running)
  /\ UNCHANGED <<World, proto, begun, errq, kmsg, process, exitcode, held, tainted, signals, noise, sent>>

\* A subtest that is skipped from a fixture has a result and no start.
SkipSubtest(s) ==
  /\ process = "running" /\ running = NoSubtest /\ s \notin begun
  /\ begun' = begun \cup {s}
  /\ Report("result", s)
  /\ UNCHANGED <<World, proto, running, errq, kmsg, process, exitcode, held, tainted, signals, noise, sent>>

\* Anything else that is written, by the test or by a descendant.
Noise ==
  /\ process = "running" \/ held
  /\ noise < MaxNoise /\ noise' = noise + 1
  /\ \/ /\ running # NoSubtest /\ Report("dynstart", NoSubtest) /\ UNCHANGED <<errq, kmsg>>
     \/ /\ outq' = Append(outq, <<"text", NoSubtest>>) /\ UNCHANGED <<errq, sockq, kmsg>>
     \/ /\ \E p \in {"log", "bad"} : proto = "comms" /\ sockq' = Append(sockq, p)
        /\ UNCHANGED <<outq, errq, kmsg>>
     \/ /\ errq' = errq + 1 /\ UNCHANGED <<outq, sockq, kmsg>>
     \/ /\ kmsg' = TRUE /\ UNCHANGED <<outq, errq, sockq>>
  /\ UNCHANGED <<World, proto, running, begun, process, exitcode, held, tainted, signals, sent>>

Exits ==
  /\ process = "running"
  /\ process' = "zombie" /\ signals' = signals \cup {"CHLD"}
  /\ exitcode' \in {"ok", "abort"}
  /\ UNCHANGED <<World, proto, running, begun, outq, errq, sockq, kmsg, held, tainted, noise, sent>>

\* The parent of a stopped process gets a SIGCHLD, too.
Stops ==
  /\ MayStop /\ process = "running" /\ sent < MaxSignals
  /\ signals' = signals \cup {"CHLD"} /\ sent' = sent + 1
  /\ UNCHANGED <<World, proto, running, begun, outq, errq, sockq, kmsg, process, exitcode, held, tainted, noise>>

Forks == /\ process = "running" /\ ~held /\ noise < MaxNoise
         /\ held' = TRUE /\ noise' = noise + 1
         /\ UNCHANGED <<World, proto, running, begun, outq, errq, sockq, kmsg, process, exitcode,
                        tainted, signals, sent>>

DescendantEnds == /\ held /\ held' = FALSE
                  /\ UNCHANGED <<World, proto, running, begun, outq, errq, sockq, kmsg, process,
                                 exitcode, tainted, signals, noise, sent>>

Taint == /\ ~tainted /\ tainted' = TRUE
         /\ UNCHANGED <<World, proto, running, begun, outq, errq, sockq, kmsg, process, exitcode,
                        held, signals, noise, sent>>

SignalRunner(sig) ==
  /\ sent < MaxSignals /\ sent' = sent + 1
  /\ signals' = signals \cup {sig}
  /\ UNCHANGED <<World, proto, running, begun, outq, errq, sockq, kmsg, process, exitcode, held,
                 tainted, noise>>

WorldStep ==
  /\ pc # "done"
  /\ \/ \E s \in Subtests : StartSubtest(s) \/ SkipSubtest(s)
     \/ EndSubtest \/ Noise \/ Exits \/ Stops \/ Forks \/ DescendantEnds \/ Taint
     \/ \E sig \in {"HUP", "TERM"} : SignalRunner(sig)

Returned == pc = "done" /\ UNCHANGED vars

Next == MonitorStep \/ WorldStep \/ Returned

(***************************************************************************)
(* The runner is a process like any other: while it can take a step it     *)
(* eventually does.  Nothing is assumed of the test, its descendants or    *)
(* the kernel: they may hang for ever, even after a SIGKILL.               *)
(***************************************************************************)
Spec == Init /\ [][Next]_vars /\ WF_vars(MonitorStep)

-----------------------------------------------------------------------------
(* Properties *)

JournalEntries == Subtests \cup {"exit", "timeout", "graceful"}

\* Every variable holds a value of its type.
TypeOK ==
  /\ proto \in {"journal", "comms"}
  /\ running \in Subtests \cup {NoSubtest} /\ begun \subseteq Subtests
  /\ outq \in Seq(Lines) /\ errq \in Nat /\ sockq \in Seq(Packets) /\ kmsg \in BOOLEAN
  /\ process \in {"running", "zombie", "reaped"} /\ exitcode \in {"ok", "abort"}
  /\ held \in BOOLEAN /\ tainted \in BOOLEAN /\ signals \subseteq {"HUP", "TERM", "CHLD"}
  /\ noise \in Nat /\ sent \in Nat
  /\ pc \in {"select", "stdout", "lines", "stderr", "socket", "kmsg", "signal", "timeout", "done"}
  /\ ready \subseteq Fds /\ buf \in Seq(Lines) /\ chunk \in Nat
  /\ current \in Subtests \cup {NoSubtest}
  /\ outfd \in BOOLEAN /\ errfd \in BOOLEAN /\ sigfd \in BOOLEAN /\ child \in BOOLEAN
  /\ killed \in {"none", "QUIT", "KILL"}
  /\ cause \in {"none", "signal", "taint", "time", "disk"}
  /\ clock \in [{"activity", "subtest", "kill"} -> Nat]
  /\ taints \in BOOLEAN /\ disk_usage \in Nat /\ aborting \in BOOLEAN
  /\ socket_comms_used \in BOOLEAN /\ results_received \in BOOLEAN
  /\ abortreason \in {"none", "condition", "exitcode", "refuses"}
  /\ abort_already_written \in BOOLEAN
  /\ ret \in {"none", "ok", "killed", "error", "dead"}
  /\ journal \in Seq(JournalEntries) /\ comms \in Seq(Records)

\* The places of the completion markers: an exit or timeout line of the
\* journal, an exit packet in the comms dump.
JournalMarks == {i \in DOMAIN journal : journal[i] \in {"exit", "timeout"}}
CommsMarks   == {i \in DOMAIN comms : comms[i] = "exit"}

(***************************************************************************)
(* The verdict on disk, as a resuming runner or the result generator would *)
(* find it.                                                                *)
(***************************************************************************)
DiskVerdict ==
  IF (\E i \in JournalMarks : journal[i] = "timeout") \/ (\E i \in DOMAIN comms : comms[i] = "timeout")
    THEN "timeout"
    ELSE IF JournalMarks \cup CommsMarks # {} THEN "exit" ELSE "none"

\* A test is completed at most once, in one of the two files, whatever its
\* process, its descendants and the signals do (monitor_output, SIGCHLD).
CompletedOnce ==
  /\ JournalMarks = {} \/ CommsMarks = {}
  /\ \A i, j \in JournalMarks : i = j
  /\ \A i, j \in CommsMarks : i = j

\* "Note that since we set 'aborting' to true we're going to skip all other
\* journal writes later": once the run is being aborted nothing completes a test.
AbortingCompletesNothing ==
  [][aborting => JournalMarks' = JournalMarks /\ CommsMarks' = CommsMarks]_vars

\* A timeout verdict is only given to a test that was killed because a timeout
\* expired: not when a signal ended the run, not because of a taint.
TimeoutVerdictIsDue == DiskVerdict = "timeout" => cause = "time"

\* "Before writing to disk that the next one starts, check whether it caused an
\* abort condition": the abort override stands behind the result of the subtest
\* before the next start, and the caller gets both the reason and a failure.
AbortBlamesThePrevious ==
  \A i \in DOMAIN comms : comms[i] = "abort" =>
    /\ abort_already_written /\ abortreason # "none" /\ ret \notin {"ok", "killed"}
    /\ i < Len(comms) /\ comms[i+1] = "start" =>
         \E j \in 1..i-1 : comms[j] = "result" /\ \A k \in j..i : comms[k] # "start"

\* "Result for a test that didn't ever start": every subtest with a result is in
\* the journal, the only list of subtests the results are later built from. It is
\* not so when one name begins another (PrefixOf): SameName takes them for the same.
EveryResultJournaled ==
  (proto = "journal" /\ pc = "done" /\ ret = "ok") =>
    \A s \in begun : \E i \in DOMAIN journal : journal[i] = s

\* With a timeout configured the runner gets rid of every test, also of one that
\* never ends, not even after a SIGKILL, or whose descendants keep its pipes open.
MonitorEnds == <>(pc = "done")

\* monitor_output() keeps the promises of TestRun.
Promise == INSTANCE TestRun WITH verdict <- DiskVerdict, stopped <- aborting, outcome <- ret
KeepsPromise == Promise!Spec
=============================================================================
