------------------------------ MODULE CommsParse ------------------------------
(***************************************************************************)
(* fill_from_comms(), runner/resultgen.c: how the packets of a dump become *)
(* the results of subtests and dynamic subtests.  comms_read_dump() calls  *)
(* one handler for each packet, in order; Handle is that call, and the     *)
(* record it works on is struct comms_context.                             *)
(*                                                                         *)
(* Kept of the logs: which subtest a line was logged in, and whether it is *)
(* one of the injected start and result lines.  The logs of dynamic        *)
(* subtests, times and the version string are left out.                    *)
(***************************************************************************)
EXTENDS Integers, Sequences

CONSTANTS
  Subtests,     \* the subtests of the test, in the order of the program
  MaxDynamics,  \* the number of dynamic subtests one subtest may enter
  Binary,       \* the name of results of a test without subtests
  EntryFirst,   \* the first subtest of the job list entry, or None
  None

Names    == {Subtests[i] : i \in DOMAIN Subtests}
Dynamics == Names \X (1..MaxDynamics)
Results  == {"pass", "skip", "fail", "crash", "abort", "notrun", "timeout", "incomplete"}

(***************************************************************************)
(* Packets, as the test, the monitor and execute() write them.             *)
(***************************************************************************)
Packet(type, name, value) == [type |-> type, name |-> name, value |-> value]
ExecPacket          == Packet("exec", None, None)
ExitPacket(code)    == Packet("exit", None, code)
LogPacket(stream, s) == Packet("log", stream, s)
OverridePacket(r)   == Packet("override", None, r)

(***************************************************************************)
(* The context.                                                            *)
(***************************************************************************)
NoText == [out |-> <<>>, err |-> <<>>]

NewContext ==
  [state |-> "initial", test |-> None, dynamic |-> None,
   result |-> None, dynamicresult |-> None,
   results |-> [n \in Names \cup Dynamics \cup {Binary} |-> None],
   out |-> <<>>, err |-> <<>>,
   outidx |-> 0, erridx |-> 0, nextoutidx |-> 0, nexterridx |-> 0,
   texts |-> [n \in Names \cup {Binary} |-> NoText]]

Line(kind, s) == [kind |-> kind, of |-> s]
Garbage       == Line("garbage", None)   \* what is read behind the end of a buffer

\* new_escaped_json_string(buf + from, length).
Text(buf, from, length) ==
  [i \in 1..length |-> IF from + i \in DOMAIN buf THEN buf[from + i] ELSE Garbage]

OrIncomplete(r) == IF r = None THEN "incomplete" ELSE r

FinishSubtest(c) ==
  [c EXCEPT !.results[c.test] = OrIncomplete(c.result),
            !.texts[c.test] =
              [out |-> Text(c.out, c.outidx, Len(c.out) - c.outidx),
               err |-> Text(c.err, c.outidx, Len(c.err) - c.erridx)],
            !.result = None, !.test = None,
            !.outidx = c.nextoutidx, !.erridx = c.nexterridx]

FinishDynamic(c) ==
  [c EXCEPT !.results[c.dynamic] = OrIncomplete(c.dynamicresult),
            !.dynamicresult = None, !.dynamic = None]

FinishAnyDynamic(c) == IF c.dynamic = None THEN c ELSE FinishDynamic(c)

AddSubtest(c, s)  == [c EXCEPT !.test = s]
AddDynamic(c, k)  == [c EXCEPT !.dynamic = <<c.test, k>>]

\* comms_inject_subtest_start_log(), comms_inject_subtest_end_log().
Inject(c, s) == [c EXCEPT !.out = Append(@, Line("mark", s)), !.err = Append(@, Line("mark", s))]

\* A message of the runner about a bug of the test goes to the error text.
Complain(c) == [c EXCEPT !.err = Append(@, Line("runner", None))]

\* A handler that returns false ends the reading, a failed assertion the program.
Error(c)  == [c EXCEPT !.state = "error"]
Failed(c) == [c EXCEPT !.state = "assertion"]

(***************************************************************************)
(* The handlers.                                                           *)
(***************************************************************************)
HandleLog(c, stream, s) ==
  IF stream = "out" THEN [c EXCEPT !.out = Append(@, Line("text", s))]
                    ELSE [c EXCEPT !.err = Append(@, Line("text", s))]

HandleExec(c) ==
  CASE c.state = "initial" -> [c EXCEPT !.state = "exec"]
    [] c.state = "exec" ->
         [c EXCEPT !.out = <<>>, !.err = <<>>, !.outidx = 0, !.erridx = 0,
                   !.nextoutidx = 0, !.nexterridx = 0]
    [] c.state \notin {"initial", "exec"} /\ c.test = None -> Failed(c)
    [] OTHER -> [FinishSubtest(c) EXCEPT !.state = "exec"]

ResultFromExitcode(code) ==
  CASE code \in {"skip", "invalid"} -> "skip"
    [] code = "success" -> "pass"
    [] code = "abort" -> "abort"
    [] OTHER -> "fail"

\* The exit code replaces the result of the last subtest.
HandleExitAsResult(c, code) ==
  CASE c.state = "exec" ->
         [c EXCEPT !.state = "exited",
                   !.test = IF EntryFirst = None THEN Binary ELSE EntryFirst,
                   !.result = IF c.result = None THEN ResultFromExitcode(code) ELSE c.result]
    [] c.state # "exec" /\ code = "abort" ->
         [c EXCEPT !.state = "exited", !.result = "abort", !.dynamicresult = "abort"]
    [] OTHER -> [c EXCEPT !.state = "exited", !.result = ResultFromExitcode(code)]

HandleExit(c, code) ==
  CASE c.state = "exec" ->
         [c EXCEPT !.state = "exited",
                   !.test = IF EntryFirst = None THEN Binary ELSE EntryFirst,
                   !.result = IF c.result = None THEN ResultFromExitcode(code) ELSE c.result]
    [] c.state # "exec" /\ code = "abort" ->
         [c EXCEPT !.state = "exited", !.result = "abort", !.dynamicresult = "abort"]
    [] OTHER -> [c EXCEPT !.state = "exited"]

HandleSubtestStart(c, s) ==
  LET start(d) == [Inject(AddSubtest(d, s), s) EXCEPT !.result = None, !.state = "subtest"]
  IN CASE c.state \in {"initial", "exited"} -> Error(c)
       [] c.state = "exec" -> start(c)
       [] c.state = "subtest" -> start(FinishSubtest(FinishAnyDynamic(Complain(c))))
       [] c.state \in {"dynamic", "between dynamics"} -> start(FinishSubtest(FinishDynamic(Complain(c))))
       [] OTHER -> start(FinishSubtest(FinishAnyDynamic(c)))

Mapped(r) ==
  CASE r = "SUCCESS" -> "pass" [] r = "SKIP" -> "skip" [] r = "FAIL" -> "fail" [] r = "CRASH" -> "crash"

\* A result without a start is refused.
HandleStartedResult(c, s, r) ==
  LET end(d) ==
        LET e == Inject(d, s)
        IN [e EXCEPT !.nextoutidx = Len(e.out), !.nexterridx = Len(e.err),
                     !.result = IF e.result = None THEN Mapped(r) ELSE e.result,
                     !.state = "between"]
  IN CASE c.state \in {"initial", "exited"} -> Error(c)
       [] c.state = "dynamic" -> end(FinishDynamic(Complain(c)))
       [] c.state = "between" -> end(AddSubtest(FinishSubtest(c), s))
       [] c.state = "exec" -> Error(c)
       [] OTHER -> end(c)

\* The logs of the next subtest begin before the result line.
HandleResultBeforeMark(c, s, r) ==
  LET end(d) ==
        LET e == Inject(d, s)
        IN [e EXCEPT !.nextoutidx = Len(d.out), !.nexterridx = Len(e.err),
                     !.result = IF e.result = None THEN Mapped(r) ELSE e.result,
                     !.state = "between"]
  IN CASE c.state \in {"initial", "exited"} -> Error(c)
       [] c.state = "dynamic" -> end(FinishDynamic(Complain(c)))
       [] c.state = "between" -> end(AddSubtest(FinishSubtest(c), s))
       [] c.state = "exec" -> end(AddSubtest(c, s))
       [] OTHER -> end(c)

\* "Only store the actual result from the packet if we don't already have one. If
\* we do, it's from an override."
HandleSubtestResult(c, s, r) ==
  LET end(d) ==
        LET e == Inject(d, s)
        IN [e EXCEPT !.nextoutidx = Len(e.out), !.nexterridx = Len(e.err),
                     !.result = IF e.result = None THEN Mapped(r) ELSE e.result,
                     !.state = "between"]
  IN CASE c.state \in {"initial", "exited"} -> Error(c)
       [] c.state = "dynamic" -> end(FinishDynamic(Complain(c)))
       [] c.state = "between" -> end(AddSubtest(FinishSubtest(c), s))
       [] c.state = "exec" -> end(AddSubtest(c, s))
       [] OTHER -> end(c)

HandleDynamicStart(c, k) ==
  LET start(d) == [AddDynamic(d, k) EXCEPT !.dynamicresult = None, !.state = "dynamic"]
  IN CASE c.state \in {"initial", "exited", "exec"} -> Error(c)
       [] c.state = "between" -> Complain(c)
       [] c.state = "subtest" -> start(c)
       [] c.state = "dynamic" -> start(FinishDynamic(Complain(c)))
       [] OTHER -> start(FinishDynamic(c))

HandleDynamicResult(c, k, r) ==
  LET end(d) == [d EXCEPT !.dynamicresult = IF @ = None THEN Mapped(r) ELSE @,
                          !.state = "between dynamics"]
  IN CASE c.state \in {"initial", "exited", "exec"} -> Error(c)
       [] c.state = "between" -> Complain(c)
       [] c.state = "between dynamics" -> end(AddDynamic(FinishDynamic(c), k))
       [] c.state = "subtest" -> end(AddDynamic(c, k))
       [] OTHER -> end(c)

HandleOverride(c, r) ==
  [c EXCEPT !.result = r,
            !.dynamicresult = IF c.dynamic = None THEN @ ELSE r]

Handle(c, p) ==
  CASE c.state \in {"error", "assertion"} -> c
    [] OTHER ->
       CASE p.type = "log"            -> HandleLog(c, p.name, p.value)
         [] p.type = "exec"           -> HandleExec(c)
         [] p.type = "exit"           -> HandleExit(c, p.value)
         [] p.type = "subtest start"  -> HandleSubtestStart(c, p.name)
         [] p.type = "subtest result" -> HandleSubtestResult(c, p.name, p.value)
         [] p.type = "dynamic start"  -> HandleDynamicStart(c, p.name)
         [] p.type = "dynamic result" -> HandleDynamicResult(c, p.name, p.value)
         [] p.type = "override"       -> HandleOverride(c, p.value)

\* The end of the dump: what is still open is finished.
Finished(c) ==
  LET d == FinishAnyDynamic(c)
  IN IF d.test = None THEN d ELSE FinishSubtest(d)

Report(c) == Finished(c).results
=============================================================================
