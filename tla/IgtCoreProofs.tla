----------------------------- MODULE IgtCoreProofs -----------------------------
(***************************************************************************)
(* What module IgtCore promises, for every program of subtests: the dump   *)
(* is read to its end, the report says what the test and the runner said,  *)
(* no failure of a dynamic subtest or a thread is lost, the exit code does *)
(* not contradict the report, and the text of a subtest is its own.        *)
(*                                                                         *)
(* The inductive invariant CoreInv relates what the parser takes for       *)
(* current (context.test, context.dynamic) to where the test is, and says  *)
(* of each name what the report would say of it if the dump ended here     *)
(* (Now).  A handler of the parser then either keeps Now of every name     *)
(* (Says), or makes one name current (Turns), or is a verdict of the       *)
(* runner about the current ones (Ruled).                                  *)
(*                                                                         *)
(* OutInv says whose lines the buffer has from outidx on, in each state of *)
(* the parser, and whose the texts have that were taken from it.           *)
(***************************************************************************)
EXTENDS IgtCore, FiniteSetTheorems, FunctionTheorems, TLAPS

-----------------------------------------------------------------------------
(* What the context says of a name so far: of the current ones, the result *)
(* they would get if the dump ended here.                                  *)

Now(c, n) ==
  IF n = c.test THEN OrIncomplete(c.result)
    ELSE IF n = c.dynamic THEN OrIncomplete(c.dynamicresult) ELSE c.results[n]

Fields == {"state", "test", "dynamic", "result", "dynamicresult", "results", "out", "err",
           "outidx", "erridx", "nextoutidx", "nexterridx", "texts"}

IsContext(c) ==
  /\ DOMAIN c = Fields
  /\ c.test \in Names \cup {Binary, None} /\ c.dynamic \in Dynamics \cup {None}
  /\ c.result \in Results \cup {None} /\ c.dynamicresult \in Results \cup {None}
  /\ c.results \in [Names \cup Dynamics \cup {Binary} -> Results \cup {None}]

\* What has a verdict of its own, and what may have one of the runner already.
Undecided == ByRunner \cup {None}

\* What the parser takes for current.
ContextInv ==
  /\ IsContext(context)
  /\ context.state \in {"initial", "exec", "subtest", "dynamic", "between", "between dynamics", "exited"}
  /\ context.test = None <=> context.state \in {"initial", "exec"}
  /\ context.state \in {"dynamic", "between dynamics"} => context.dynamic # None
  /\ context.state \in {"initial", "exec", "subtest", "dynamic", "between dynamics"} =>
       context.result \in Undecided
  /\ context.state = "between" => context.result # None
  /\ context.state = "dynamic" => context.dynamicresult \in Undecided
  /\ context.dynamic # None => context.results[context.dynamic] = None
  /\ resumes = 0 /\ context.state \in {"initial", "exec", "subtest"} => context.dynamic = None

\* It is where the test is, until that is over.
PlaceInv ==
  /\ pc = "off" <=> context.state = "initial"
  /\ pc = "off" => begun = {} /\ ~aborting /\ in_subtest = None /\ \A s \in Names : context.results[s] = None
  /\ reaped => pc = "exited"
  /\ ~reaped =>
       /\ context.state # "exited"
       /\ in_subtest = None => context.state \in {"initial", "exec", "between"}
       /\ in_subtest # None => context.test = in_subtest
       /\ in_subtest # None /\ in_dynamic_subtest = None => context.state \in {"subtest", "between dynamics"}
       /\ in_dynamic_subtest # None =>
            context.state = "dynamic" /\ context.dynamic = <<in_subtest, in_dynamic_subtest>>
  /\ in_subtest # None => (executed >= 0 <=> in_subtest \in Containers)

\* A name that may still be started was not heard of.
Unheard(d) ==
  said[d] = None /\ d \notin suspects /\ context.results[d] = None /\ context.dynamic # d

FreshInv ==
  /\ \A i \in todo : Subtests[i] \notin begun
  /\ \A s \in Names : s \notin begun => s \notin suspects /\ \A k \in 1..MaxDynamics : Unheard(<<s, k>>)
  /\ in_subtest # None =>
       /\ in_subtest \in begun /\ said[in_subtest] = None
       /\ \A k \in 1..MaxDynamics : k > entered => Unheard(<<in_subtest, k>>)
       /\ in_subtest \notin Containers => entered = 0
  /\ in_dynamic_subtest # None =>
       in_dynamic_subtest = entered /\ said[<<in_subtest, in_dynamic_subtest>>] = None

\* What the test said is what the report will say.
SaidInv ==
  \A n \in Names \cup Dynamics :
    said[n] # None /\ ~Replaced(n) =>
      Now(context, n) \in {said[n]} \cup ByRunner \cup (IF Dropped(n) THEN {None} ELSE {})

\* A test that was not resumed says something with its first packet.
FirstInv ==
  resumes = 0 /\ context.state \in {"initial", "exec"} => \A n \in Names \cup Dynamics : said[n] = None

\* Failures that the main thread knows of by its flags only.
ContainerInv ==
  /\ \A s \in Names : Now(context, s) = "pass" => \A k \in 1..MaxDynamics : Now(context, <<s, k>>) # "fail"
  /\ in_subtest # None /\ ~reaped =>
       \A k \in 1..MaxDynamics : Now(context, <<in_subtest, k>>) = "fail" => dynamic_failed_one

SuspectInv ==
  /\ \A n \in suspects : Now(context, n) # "pass"
  /\ in_subtest # None /\ Here \in suspects => thread_failed
  /\ suspects \cap Containers = {}

\* The exit code.
ExitInv ==
  /\ pc = "running" => exitcode \in {"success", "failure", "crash"} /\ (failed_one <=> exitcode # "success")
  /\ henceforth = "FAIL" \/ saved = "FAIL" => failed_one
  /\ pc = "running" /\ found /\ context.state = "exec" => todo # {}
  /\ pc = "exited" /\ context.state = "exec" => exitcode \in {"invalid", "signal", "abort"}

Agrees ==
  resumes = 0 =>
    /\ pc = "running" => \A s \in Names :
         /\ Now(context, s) \in {"fail", "crash"} => failed_one
         /\ Now(context, s) = "pass" => succeeded_one
         /\ Now(context, s) = "incomplete" => in_subtest = s
    /\ pc = "exited" => \A s \in Names :
         /\ exitcode = "success" => Now(context, s) \notin {"fail", "crash", "incomplete"}
         /\ exitcode = "skip" => Now(context, s) # "pass"
         /\ exitcode = "failure" => Now(context, s) # "incomplete"

\* Those whose result is the runner's, but for the current ones.
Others(c, set) == {n \in set \ {c.test, c.dynamic} : c.results[n] \in ByRunner}
One(r) == IF r \in ByRunner THEN 1 ELSE 0
Total(c, set, r) == Cardinality(Others(c, set)) + One(r)

Blame(set, r) ==
  /\ Total(context, set, r) <= resumes + 1
  /\ ~aborting => Cardinality(Others(context, set)) <= resumes
  /\ ~aborting /\ ~reaped => Total(context, set, r) <= resumes

BlameInv == Blame(Names, context.result) /\ Blame(Dynamics, context.dynamicresult)

CoreInv ==
  /\ TypeOK /\ ContextInv /\ PlaceInv /\ FreshInv /\ SaidInv /\ FirstInv /\ ContainerInv
  /\ SuspectInv /\ ExitInv /\ Agrees /\ BlameInv

-----------------------------------------------------------------------------
(* What the steps of the parser do to the fields of the context that count. *)

\* The fields of a context other than texts and indices.
Core(c, state, test, dynamic, result, dynamicresult, results) ==
  /\ IsContext(c) /\ c.state = state /\ c.test = test /\ c.dynamic = dynamic
  /\ c.result = result /\ c.dynamicresult = dynamicresult /\ c.results = results

LEMMA NamesApart ==
  /\ None \notin Names \cup Dynamics \cup {Binary} \cup Results \cup (1..MaxDynamics)
  /\ Binary \notin Names \cup Dynamics /\ Names \cap Dynamics = {}
BY IgtCoreAssumption DEF IgtCoreAssumption

LEMMA FinishSubtestCore ==
  ASSUME NEW c, IsContext(c), c.test # None
  PROVE  Core(FinishSubtest(c), c.state, None, c.dynamic, None, c.dynamicresult,
              [c.results EXCEPT ![c.test] = OrIncomplete(c.result)])
BY DEF FinishSubtest, IsContext, Core, Fields, OrIncomplete, Results

LEMMA FinishDynamicCore ==
  ASSUME NEW c, IsContext(c), c.dynamic # None
  PROVE  Core(FinishDynamic(c), c.state, c.test, None, c.result, None,
              [c.results EXCEPT ![c.dynamic] = OrIncomplete(c.dynamicresult)])
BY DEF FinishDynamic, IsContext, Core, Fields, OrIncomplete, Results

LEMMA AddSubtestCore ==
  ASSUME NEW c, IsContext(c), NEW s \in Names
  PROVE  Core(AddSubtest(c, s), c.state, s, c.dynamic, c.result, c.dynamicresult, c.results)
BY DEF AddSubtest, IsContext, Core, Fields

LEMMA AddDynamicCore ==
  ASSUME NEW c, IsContext(c), c.test \in Names, NEW k \in 1..MaxDynamics
  PROVE  Core(AddDynamic(c, k), c.state, c.test, <<c.test, k>>, c.result, c.dynamicresult, c.results)
BY DEF AddDynamic, IsContext, Core, Fields, Dynamics

LEMMA InjectCore ==
  ASSUME NEW c, IsContext(c), NEW s
  PROVE  Core(Inject(c, s), c.state, c.test, c.dynamic, c.result, c.dynamicresult, c.results)
BY DEF Inject, IsContext, Core, Fields

-----------------------------------------------------------------------------
(* Who has a verdict of the runner, and how many.                          *)

LEMMA FiniteNames == IsFiniteSet(Names) /\ IsFiniteSet(Dynamics)
<1>1. IsFiniteSet(DOMAIN Subtests)
  <2>1. Len(Subtests) \in Nat /\ DOMAIN Subtests = 1..Len(Subtests)
    BY IgtCoreAssumption DEF IgtCoreAssumption
  <2> QED BY <2>1, FS_Interval
<1>2. IsFiniteSet(Names)
  <2>1. Subtests \in [DOMAIN Subtests -> Names]
    BY IgtCoreAssumption DEF IgtCoreAssumption
  <2>2. \A n \in Names : \E i \in DOMAIN Subtests : Subtests[i] = n
    BY DEF Names
  <2>3. Subtests \in Surjection(DOMAIN Subtests, Names)
    BY <2>1, <2>2 DEF Surjection
  <2> QED BY <1>1, <2>3, FS_Surjection
<1>3. IsFiniteSet(1..MaxDynamics)
  BY IgtCoreAssumption, FS_Interval DEF IgtCoreAssumption
<1>4. IsFiniteSet(Names \X (1..MaxDynamics))
  BY <1>2, <1>3, FS_Product
<1> QED BY <1>2, <1>4 DEF Dynamics

LEMMA OthersFinite ==
  ASSUME NEW c, NEW set \in {Names, Dynamics}
  PROVE  IsFiniteSet(Others(c, set)) /\ Cardinality(Others(c, set)) \in Nat
<1>1. Others(c, set) \subseteq set
  BY DEF Others
<1> QED BY <1>1, FiniteNames, FS_Subset, FS_CardinalityType

\* A verdict that moves from a current name to its entry is counted once.
LEMMA TotalLess ==
  ASSUME NEW c, NEW d, NEW set \in {Names, Dynamics}, NEW r, NEW q, NEW x,
         Others(d, set) \subseteq Others(c, set) \cup (IF r \in ByRunner THEN {x} ELSE {}),
         q \in ByRunner => r \in ByRunner /\ Others(d, set) \subseteq Others(c, set)
  PROVE  Total(d, set, q) <= Total(c, set, r)
<1> DEFINE oc == Others(c, set)
           od == Others(d, set)
<1>1. IsFiniteSet(oc) /\ Cardinality(oc) \in Nat /\ IsFiniteSet(od) /\ Cardinality(od) \in Nat
  BY OthersFinite
<1> HIDE DEF oc, od
<1>2. od \subseteq oc => Cardinality(od) <= Cardinality(oc)
  BY <1>1, FS_Subset
<1>3. od \subseteq oc \cup {x} => Cardinality(od) <= Cardinality(oc) + 1
  <2>1. IsFiniteSet(oc \cup {x}) /\ Cardinality(oc \cup {x}) \in Nat /\ Cardinality(oc \cup {x}) <= Cardinality(oc) + 1
    BY <1>1, FS_AddElement
  <2>2. od \subseteq oc \cup {x} => Cardinality(od) <= Cardinality(oc \cup {x})
    BY <2>1, FS_Subset
  <2> QED BY <1>1, <2>1, <2>2
<1>4. CASE q \in ByRunner
  <2>1. od \subseteq oc /\ r \in ByRunner
    BY <1>4 DEF oc, od
  <2> QED BY <1>1, <1>2, <1>4, <2>1 DEF Total, One, oc, od
<1>5. CASE q \notin ByRunner /\ r \in ByRunner
  <2>1. od \subseteq oc \cup {x}
    BY <1>5 DEF oc, od
  <2> QED BY <1>1, <1>3, <1>5, <2>1 DEF Total, One, oc, od
<1>6. CASE q \notin ByRunner /\ r \notin ByRunner
  <2>1. od \subseteq oc
    BY <1>6 DEF oc, od
  <2> QED BY <1>1, <1>2, <1>6, <2>1 DEF Total, One, oc, od
<1> QED BY <1>4, <1>5, <1>6

\* No more verdicts in d than in c.
Counts(c, d) ==
  /\ Total(d, Names, d.result) <= Total(c, Names, c.result)
  /\ Total(d, Dynamics, d.dynamicresult) <= Total(c, Dynamics, c.dynamicresult)

LEMMA TotalInt ==
  ASSUME NEW c, NEW set \in {Names, Dynamics}, NEW r PROVE Total(c, set, r) \in Nat
BY OthersFinite DEF Total, One

LEMMA CountsTwice ==
  ASSUME NEW c, NEW d, NEW e, Counts(c, d), Counts(d, e) PROVE Counts(c, e)
<1>1. /\ {Total(c, Names, c.result), Total(d, Names, d.result), Total(e, Names, e.result)} \subseteq Nat
      /\ {Total(c, Dynamics, c.dynamicresult), Total(d, Dynamics, d.dynamicresult),
          Total(e, Dynamics, e.dynamicresult)} \subseteq Nat
  BY TotalInt
<1> QED BY <1>1 DEF Counts

LEMMA SameCounts ==
  ASSUME NEW c, NEW d, d.test = c.test, d.dynamic = c.dynamic, d.results = c.results,
         d.result \in ByRunner => c.result \in ByRunner,
         d.dynamicresult \in ByRunner => c.dynamicresult \in ByRunner
  PROVE  Counts(c, d)
<1>1. \A set : Others(d, set) = Others(c, set)
  BY DEF Others
<1>2. Total(d, Names, d.result) <= Total(c, Names, c.result)
  BY <1>1, TotalLess
<1>3. Total(d, Dynamics, d.dynamicresult) <= Total(c, Dynamics, c.dynamicresult)
  BY <1>1, TotalLess
<1> QED BY <1>2, <1>3 DEF Counts

\* What is finished keeps what it would have got.
Says(c, d) ==
  /\ \A n \in Names \cup Dynamics : Now(d, n) = Now(c, n)
  /\ \A n \in Dynamics : n # c.dynamic => d.results[n] = c.results[n]
  /\ Counts(c, d)

LEMMA FinishSubtestSays ==
  ASSUME NEW c, IsContext(c), c.test # None PROVE Says(c, FinishSubtest(c))
<1> DEFINE d == FinishSubtest(c)
<1>1. Core(d, c.state, None, c.dynamic, None, c.dynamicresult,
           [c.results EXCEPT ![c.test] = OrIncomplete(c.result)])
  BY FinishSubtestCore
<1> HIDE DEF d
<1>2. /\ d.test = None /\ d.dynamic = c.dynamic /\ d.result = None /\ d.dynamicresult = c.dynamicresult
      /\ d.results = [c.results EXCEPT ![c.test] = OrIncomplete(c.result)]
  BY <1>1 DEF Core
<1>3. /\ c.test \in Names \cup {Binary} /\ c.dynamic \in Dynamics \cup {None}
      /\ DOMAIN c.results = Names \cup Dynamics \cup {Binary}
  BY DEF IsContext
<1>4. ASSUME NEW n \in Names \cup Dynamics PROVE Now(d, n) = Now(c, n)
  <2>1. d.results[n] = IF n = c.test THEN OrIncomplete(c.result) ELSE c.results[n]
    BY <1>2, <1>3, <1>4
  <2>2. n # None /\ (n = c.test => n # c.dynamic)
    BY <1>3, <1>4, NamesApart
  <2> QED BY <1>2, <2>1, <2>2 DEF Now
<1>5. \A n \in Dynamics : d.results[n] = c.results[n]
  BY <1>2, <1>3, NamesApart
<1>6. OrIncomplete(c.result) \in ByRunner => c.result \in ByRunner
  BY DEF OrIncomplete, ByRunner
<1>7. Others(d, Names) \subseteq Others(c, Names) \cup (IF c.result \in ByRunner THEN {c.test} ELSE {})
  <2> SUFFICES ASSUME NEW n \in Others(d, Names), n \notin Others(c, Names)
               PROVE  c.result \in ByRunner /\ n = c.test
    OBVIOUS
  <2>1. n \in Names /\ n # d.dynamic /\ d.results[n] \in ByRunner
    BY DEF Others
  <2>2. n = c.test \/ c.results[n] \notin ByRunner
    BY <1>2, <2>1 DEF Others
  <2> QED BY <1>2, <1>3, <1>6, <2>1, <2>2
<1>8. None \notin ByRunner
  BY NamesApart DEF ByRunner, Results
<1>9. Total(d, Names, d.result) <= Total(c, Names, c.result)
  BY <1>2, <1>7, <1>8, TotalLess
<1>10. Others(d, Dynamics) \subseteq Others(c, Dynamics)
  BY <1>2, <1>3, <1>5, NamesApart DEF Others
<1>11. Total(d, Dynamics, d.dynamicresult) <= Total(c, Dynamics, c.dynamicresult)
  BY <1>2, <1>10, TotalLess
<1> QED BY <1>4, <1>5, <1>9, <1>11 DEF Says, Counts, d

LEMMA FinishDynamicSays ==
  ASSUME NEW c, IsContext(c), c.dynamic # None PROVE Says(c, FinishDynamic(c))
<1> DEFINE d == FinishDynamic(c)
<1>1. Core(d, c.state, c.test, None, c.result, None,
           [c.results EXCEPT ![c.dynamic] = OrIncomplete(c.dynamicresult)])
  BY FinishDynamicCore
<1> HIDE DEF d
<1>2. /\ d.test = c.test /\ d.dynamic = None /\ d.result = c.result /\ d.dynamicresult = None
      /\ d.results = [c.results EXCEPT ![c.dynamic] = OrIncomplete(c.dynamicresult)]
  BY <1>1 DEF Core
<1>3. /\ c.test \in Names \cup {Binary, None} /\ c.dynamic \in Dynamics
      /\ DOMAIN c.results = Names \cup Dynamics \cup {Binary}
  BY DEF IsContext
<1>4. ASSUME NEW n \in Names \cup Dynamics PROVE Now(d, n) = Now(c, n)
  <2>1. d.results[n] = IF n = c.dynamic THEN OrIncomplete(c.dynamicresult) ELSE c.results[n]
    BY <1>2, <1>3, <1>4
  <2>2. n # None /\ (n = c.test => n # c.dynamic)
    BY <1>3, <1>4, NamesApart
  <2> QED BY <1>2, <2>1, <2>2 DEF Now
<1>5. \A n \in Names \cup Dynamics : n # c.dynamic => d.results[n] = c.results[n]
  BY <1>2, <1>3
<1>6. OrIncomplete(c.dynamicresult) \in ByRunner => c.dynamicresult \in ByRunner
  BY DEF OrIncomplete, ByRunner
<1>7. Others(d, Dynamics) \subseteq Others(c, Dynamics) \cup (IF c.dynamicresult \in ByRunner THEN {c.dynamic} ELSE {})
  <2> SUFFICES ASSUME NEW n \in Others(d, Dynamics), n \notin Others(c, Dynamics)
               PROVE  c.dynamicresult \in ByRunner /\ n = c.dynamic
    OBVIOUS
  <2>1. n \in Dynamics /\ n # d.test /\ d.results[n] \in ByRunner
    BY DEF Others
  <2>2. n = c.dynamic \/ c.results[n] \notin ByRunner
    BY <1>2, <2>1 DEF Others
  <2> QED BY <1>2, <1>3, <1>6, <2>1, <2>2
<1>8. None \notin ByRunner
  BY NamesApart DEF ByRunner, Results
<1>9. Total(d, Dynamics, d.dynamicresult) <= Total(c, Dynamics, c.dynamicresult)
  BY <1>2, <1>7, <1>8, TotalLess
<1>10. Others(d, Names) \subseteq Others(c, Names)
  BY <1>2, <1>3, <1>5, NamesApart DEF Others
<1>11. Total(d, Names, d.result) <= Total(c, Names, c.result)
  BY <1>2, <1>10, TotalLess
<1> QED BY <1>4, <1>5, <1>9, <1>11 DEF Says, Counts, d

LEMMA SaysTwice == ASSUME NEW c, NEW d, NEW e, IsContext(c), IsContext(d), Says(c, d), Says(d, e),
                          d.dynamic \in {c.dynamic, None} PROVE Says(c, e)
<1>1. \A n \in Names \cup Dynamics : Now(e, n) = Now(c, n)
  BY DEF Says
<1>2. \A n \in Dynamics : n # c.dynamic => e.results[n] = c.results[n]
  BY NamesApart DEF Says
<1>3. Counts(c, e)
  BY CountsTwice DEF Says
<1> QED BY <1>1, <1>2, <1>3 DEF Says

LEMMA FinishAnyDynamicSays ==
  ASSUME NEW c, IsContext(c)
  PROVE  LET d == FinishAnyDynamic(c)
         IN /\ Says(c, d) /\ IsContext(d) /\ d.state = c.state /\ d.test = c.test
            /\ d.result = c.result /\ d.dynamic = None
<1>1. Says(c, c)
  <2>1. Counts(c, c)
    BY SameCounts
  <2> QED BY <2>1 DEF Says
<1>2. CASE c.dynamic = None
  BY <1>1, <1>2 DEF FinishAnyDynamic
<1>3. CASE c.dynamic # None
  BY <1>3, FinishDynamicSays, FinishDynamicCore DEF FinishAnyDynamic, Core
<1> QED BY <1>2, <1>3

\* The current subtest is s from now on, and nothing is said of it yet but r.
Turns(c, d, s, r) ==
  /\ IsContext(d) /\ d.test = s /\ d.result = r
  /\ Now(d, s) = OrIncomplete(r)
  /\ \A n \in Names \cup Dynamics : n # s => Now(d, n) = Now(c, n)
  /\ \A n \in Dynamics : n # c.dynamic => d.results[n] = c.results[n]
  /\ Counts(c, d)

LEMMA SubtestTurns ==
  ASSUME NEW c, IsContext(c), c.test = None, NEW s \in Names,
         NEW d, NEW state, NEW r \in Results \cup {None}, r \in ByRunner => c.result \in ByRunner,
         Core(d, state, s, c.dynamic, r, c.dynamicresult, c.results)
  PROVE  Turns(c, d, s, r)
<1>1. /\ IsContext(d) /\ d.test = s /\ d.dynamic = c.dynamic /\ d.result = r
      /\ d.dynamicresult = c.dynamicresult /\ d.results = c.results
  BY DEF Core
<1>2. Now(d, s) = OrIncomplete(r)
  BY <1>1 DEF Now
<1>3. \A n \in Names \cup Dynamics : n # s => Now(d, n) = Now(c, n)
  BY <1>1, NamesApart DEF Now
<1>4. Others(d, Names) \subseteq Others(c, Names) /\ Others(d, Dynamics) \subseteq Others(c, Dynamics)
  BY <1>1, NamesApart DEF Others
<1>5. Total(d, Names, d.result) <= Total(c, Names, c.result)
  BY <1>1, <1>4, TotalLess
<1>6. Total(d, Dynamics, d.dynamicresult) <= Total(c, Dynamics, c.dynamicresult)
  BY <1>1, <1>4, TotalLess
<1> QED BY <1>1, <1>2, <1>3, <1>5, <1>6 DEF Turns, Counts

LEMMA TurnsAfter ==
  ASSUME NEW c, NEW d, NEW e, NEW s, NEW r, IsContext(c), IsContext(d), Says(c, d), Turns(d, e, s, r),
         d.dynamic \in {c.dynamic, None}
  PROVE  Turns(c, e, s, r)
<1>1. \A n \in Names \cup Dynamics : n # s => Now(e, n) = Now(c, n)
  BY DEF Says, Turns
<1>2. \A n \in Dynamics : n # c.dynamic => e.results[n] = c.results[n]
  BY NamesApart DEF Says, Turns
<1>3. Counts(c, e)
  BY CountsTwice DEF Says, Turns
<1> QED BY <1>1, <1>2, <1>3 DEF Turns

LEMMA NewVerdict == None \notin ByRunner /\ ByRunner \subseteq Results /\ OrIncomplete(None) = "incomplete"
BY NamesApart DEF ByRunner, Results, OrIncomplete

\* "subtest start", where the test may send it.
LEMMA StartHandled ==
  ASSUME NEW c, IsContext(c), NEW s \in Names, c.test = None <=> c.state = "exec",
         c.state \in {"exec", "between"}
  PROVE  LET d == HandleSubtestStart(c, s)
         IN /\ Turns(c, d, s, None) /\ d.state = "subtest"
            /\ d.dynamic = IF c.state = "exec" THEN c.dynamic ELSE None
            /\ c.state = "exec" => d.results = c.results
<1> DEFINE start(d) == [Inject(AddSubtest(d, s), s) EXCEPT !.result = None, !.state = "subtest"]
<1>1. ASSUME NEW e, IsContext(e), e.test = None
      PROVE  Core(start(e), "subtest", s, e.dynamic, None, e.dynamicresult, e.results)
  <2> DEFINE f == Inject(AddSubtest(e, s), s)
  <2>1. Core(AddSubtest(e, s), e.state, s, e.dynamic, e.result, e.dynamicresult, e.results)
    BY <1>1, AddSubtestCore
  <2>2. Core(f, e.state, s, e.dynamic, e.result, e.dynamicresult, e.results)
    BY <2>1, InjectCore DEF Core
  <2> HIDE DEF f
  <2>3. start(e) = [f EXCEPT !.result = None, !.state = "subtest"]
    BY DEF f
  <2> HIDE DEF start
  <2> QED BY <2>2, <2>3 DEF Core, IsContext, Fields
<1>2. ASSUME NEW e, IsContext(e), e.test = None PROVE Turns(e, start(e), s, None)
  <2> HIDE DEF start
  <2> QED BY <1>1, <1>2, NewVerdict, SubtestTurns
<1>3. CASE c.state = "exec"
  <2>1. HandleSubtestStart(c, s) = start(c)
    BY <1>3 DEF HandleSubtestStart
  <2> HIDE DEF start
  <2> QED BY <1>1, <1>2, <1>3, <2>1 DEF Core
<1>4. CASE c.state = "between"
  <2> DEFINE d == FinishAnyDynamic(c)
             e == FinishSubtest(d)
  <2>1. HandleSubtestStart(c, s) = start(e)
    BY <1>4 DEF HandleSubtestStart
  <2>2. Says(c, d) /\ IsContext(d) /\ d.test # None /\ d.dynamic = None
    BY <1>4, FinishAnyDynamicSays
  <2> HIDE DEF d, start
  <2>3. Says(d, e) /\ IsContext(e) /\ e.test = None /\ e.dynamic = None
    BY <2>2, FinishSubtestSays, FinishSubtestCore DEF Core
  <2> HIDE DEF e
  <2>4. Says(c, e)
    BY <2>2, <2>3, SaysTwice
  <2>5. Turns(c, start(e), s, None)
    BY <1>2, <2>3, <2>4, TurnsAfter
  <2> QED BY <1>1, <1>4, <2>1, <2>3, <2>5 DEF Core
<1> QED BY <1>3, <1>4

LEMMA MappedResult ==
  ASSUME NEW r \in {"SUCCESS", "SKIP", "FAIL", "CRASH"}
  PROVE  /\ Mapped(r) \in {"pass", "skip", "fail", "crash"} /\ Mapped(r) \in Results /\ Mapped(r) \notin ByRunner
         /\ Mapped(r) = "pass" <=> r = "SUCCESS"
         /\ Mapped(r) = "fail" <=> r = "FAIL"
BY DEF Mapped, Results, ByRunner

\* The result the test sends, unless there is one of the runner.
Given(old, r) == IF old = None THEN Mapped(r) ELSE old

\* "subtest result" of a subtest that was not started.
LEMMA SkipHandled ==
  ASSUME NEW c, IsContext(c), NEW s \in Names, NEW r \in {"SUCCESS", "SKIP", "FAIL", "CRASH"},
         c.test = None <=> c.state = "exec", c.state \in {"exec", "between"},
         c.state = "exec" => c.result \in Undecided
  PROVE  LET d == HandleSubtestResult(c, s, r)
             q == IF c.state = "exec" THEN Given(c.result, r) ELSE Mapped(r)
         IN /\ Turns(c, d, s, q) /\ d.state = "between" /\ d.dynamic = c.dynamic
            /\ \A n \in Dynamics : d.results[n] = c.results[n]
<1> DEFINE end(d) == LET e == Inject(d, s)
                     IN [e EXCEPT !.nextoutidx = Len(e.out), !.nexterridx = Len(e.err),
                                  !.result = IF e.result = None THEN Mapped(r) ELSE e.result,
                                  !.state = "between"]
<1>1. ASSUME NEW e, IsContext(e), e.test = None, e.result \in Undecided
      PROVE  Core(end(AddSubtest(e, s)), "between", s, e.dynamic, Given(e.result, r), e.dynamicresult, e.results)
  <2> DEFINE f == Inject(AddSubtest(e, s), s)
  <2>1. Core(AddSubtest(e, s), e.state, s, e.dynamic, e.result, e.dynamicresult, e.results)
    BY <1>1, AddSubtestCore
  <2>2. Core(f, e.state, s, e.dynamic, e.result, e.dynamicresult, e.results)
    BY <2>1, InjectCore DEF Core
  <2>3. end(AddSubtest(e, s)) = [f EXCEPT !.nextoutidx = Len(f.out), !.nexterridx = Len(f.err),
                                  !.result = IF f.result = None THEN Mapped(r) ELSE f.result,
                                  !.state = "between"]
    OBVIOUS
  <2> HIDE DEF f, end
  <2>4. Given(e.result, r) \in Results
    BY <1>1, MappedResult, NewVerdict DEF Given, Undecided
  <2> QED BY <2>2, <2>3, <2>4 DEF Core, IsContext, Fields, Given
<1>2. ASSUME NEW e, IsContext(e), e.test = None, e.result \in Undecided
      PROVE  Turns(e, end(AddSubtest(e, s)), s, Given(e.result, r))
  <2>1. Given(e.result, r) \in Results /\ (Given(e.result, r) \in ByRunner => e.result \in ByRunner)
    BY <1>2, MappedResult, NewVerdict DEF Given, Undecided
  <2> HIDE DEF end
  <2> QED BY <1>1, <1>2, <2>1, SubtestTurns
<1>3. CASE c.state = "exec"
  <2>1. HandleSubtestResult(c, s, r) = end(AddSubtest(c, s))
    BY <1>3 DEF HandleSubtestResult
  <2> HIDE DEF end
  <2> QED BY <1>1, <1>2, <1>3, <2>1 DEF Core
<1>4. CASE c.state = "between"
  <2> DEFINE e == FinishSubtest(c)
  <2>1. HandleSubtestResult(c, s, r) = end(AddSubtest(e, s))
    BY <1>4 DEF HandleSubtestResult
  <2>2. Says(c, e) /\ IsContext(e) /\ e.test = None /\ e.result = None /\ e.dynamic = c.dynamic
    BY <1>4, FinishSubtestSays, FinishSubtestCore DEF Core
  <2>3. \A n \in Dynamics : e.results[n] = c.results[n]
    BY <1>4, FinishSubtestCore, NamesApart DEF Core, IsContext
  <2> HIDE DEF e, end
  <2>4. Turns(c, end(AddSubtest(e, s)), s, Given(None, r))
    BY <1>2, <2>2, TurnsAfter DEF Undecided
  <2>5. Given(None, r) = Mapped(r)
    BY DEF Given
  <2>6. Core(end(AddSubtest(e, s)), "between", s, e.dynamic, Given(e.result, r), e.dynamicresult, e.results)
    BY <1>1, <2>2 DEF Undecided
  <2> QED BY <1>4, <2>1, <2>2, <2>3, <2>4, <2>5, <2>6 DEF Core
<1> QED BY <1>3, <1>4

\* "subtest result" of the current subtest.
LEMMA EndHandled ==
  ASSUME NEW c, IsContext(c), NEW s \in Names,
         NEW r \in {"SUCCESS", "SKIP", "FAIL", "CRASH"},
         c.state \in {"subtest", "between dynamics"}, c.result \in Undecided
  PROVE  Core(HandleSubtestResult(c, s, r), "between", c.test, c.dynamic, Given(c.result, r),
              c.dynamicresult, c.results)
<1> DEFINE e == Inject(c, s)
           d == [e EXCEPT !.nextoutidx = Len(e.out), !.nexterridx = Len(e.err),
                          !.result = IF e.result = None THEN Mapped(r) ELSE e.result,
                          !.state = "between"]
<1>1. HandleSubtestResult(c, s, r) = d
  BY DEF HandleSubtestResult
<1>2. Core(e, c.state, c.test, c.dynamic, c.result, c.dynamicresult, c.results)
  BY InjectCore
<1>3. Given(c.result, r) \in Results
  BY MappedResult, NewVerdict DEF Given, Undecided
<1> HIDE DEF e
<1>4. d.result = Given(c.result, r) /\ d.state = "between" /\ DOMAIN d = Fields
  BY <1>2 DEF Core, Given, IsContext, Fields
<1>5. /\ d.test = c.test /\ d.dynamic = c.dynamic /\ d.dynamicresult = c.dynamicresult /\ d.results = c.results
  BY <1>2 DEF Core, IsContext, Fields
<1> HIDE DEF d
<1> QED BY <1>1, <1>3, <1>4, <1>5 DEF Core, IsContext

\* "dynamic result" of the current dynamic subtest.
LEMMA DynamicEndHandled ==
  ASSUME NEW c, IsContext(c), NEW k \in 1..MaxDynamics,
         NEW r \in {"SUCCESS", "SKIP", "FAIL", "CRASH"},
         c.state = "dynamic", c.dynamicresult \in Undecided
  PROVE  Core(HandleDynamicResult(c, k, r), "between dynamics", c.test, c.dynamic, c.result,
              Given(c.dynamicresult, r), c.results)
<1> DEFINE d == [c EXCEPT !.dynamicresult = IF @ = None THEN Mapped(r) ELSE @, !.state = "between dynamics"]
<1>1. HandleDynamicResult(c, k, r) = d
  BY DEF HandleDynamicResult
<1>2. Given(c.dynamicresult, r) \in Results
  BY MappedResult, NewVerdict DEF Given, Undecided
<1>3. d.dynamicresult = Given(c.dynamicresult, r) /\ d.state = "between dynamics" /\ DOMAIN d = Fields
  BY DEF Given, IsContext, Fields
<1>4. /\ d.test = c.test /\ d.dynamic = c.dynamic /\ d.result = c.result /\ d.results = c.results
  BY DEF IsContext, Fields
<1> HIDE DEF d
<1> QED BY <1>1, <1>2, <1>3, <1>4 DEF Core, IsContext

\* "dynamic start": one that was left current by an earlier execution is forgotten.
LEMMA DynamicStartHandled ==
  ASSUME NEW c, IsContext(c), c.test \in Names, NEW k \in 1..MaxDynamics,
         c.state \in {"subtest", "between dynamics"},
         c.state = "between dynamics" => c.dynamic # None
  PROVE  LET d == HandleDynamicStart(c, k)
             e == IF c.state = "subtest" THEN c ELSE FinishDynamic(c)
         IN /\ Core(d, "dynamic", c.test, <<c.test, k>>, c.result, None, e.results)
            /\ IsContext(e) /\ Says(c, e) /\ e.test = c.test /\ e.result = c.result
            /\ e.dynamic = IF c.state = "subtest" THEN c.dynamic ELSE None
            /\ e.dynamicresult = IF c.state = "subtest" THEN c.dynamicresult ELSE None
<1> DEFINE start(d) == [AddDynamic(d, k) EXCEPT !.dynamicresult = None, !.state = "dynamic"]
           e == IF c.state = "subtest" THEN c ELSE FinishDynamic(c)
<1>1. ASSUME NEW f, IsContext(f), f.test = c.test
      PROVE  Core(start(f), "dynamic", c.test, <<c.test, k>>, f.result, None, f.results)
  <2> DEFINE g == AddDynamic(f, k)
  <2>1. Core(g, f.state, c.test, <<c.test, k>>, f.result, f.dynamicresult, f.results)
    BY <1>1, AddDynamicCore
  <2> HIDE DEF g
  <2>2. start(f) = [g EXCEPT !.dynamicresult = None, !.state = "dynamic"]
    BY DEF g
  <2> HIDE DEF start
  <2> QED BY <2>1, <2>2 DEF Core, IsContext, Fields
<1>2. /\ IsContext(e) /\ Says(c, e) /\ e.test = c.test /\ e.result = c.result
      /\ e.dynamic = IF c.state = "subtest" THEN c.dynamic ELSE None
      /\ e.dynamicresult = IF c.state = "subtest" THEN c.dynamicresult ELSE None
  <2>1. CASE c.state = "subtest"
    <3>1. Says(c, c)
      BY SameCounts DEF Says
    <3> QED BY <2>1, <3>1
  <2>2. CASE c.state = "between dynamics"
    BY <2>2, FinishDynamicSays, FinishDynamicCore DEF Core
  <2> QED BY <2>1, <2>2
<1>3. HandleDynamicStart(c, k) = start(e)
  BY DEF HandleDynamicStart
<1> HIDE DEF e, start
<1>4. Core(start(e), "dynamic", c.test, <<c.test, k>>, c.result, None, e.results)
  BY <1>1, <1>2
<1> QED BY <1>2, <1>3, <1>4 DEF e

\* An override is about the current ones.
LEMMA OverrideHandled ==
  ASSUME NEW c, IsContext(c), NEW r \in ByRunner
  PROVE  Core(HandleOverride(c, r), c.state, c.test, c.dynamic, r,
              IF c.dynamic = None THEN c.dynamicresult ELSE r, c.results)
BY NewVerdict DEF HandleOverride, Core, IsContext, Fields

LEMMA LogHandled ==
  ASSUME NEW c, IsContext(c), NEW stream, NEW s
  PROVE  Core(HandleLog(c, stream, s), c.state, c.test, c.dynamic, c.result, c.dynamicresult, c.results)
BY DEF HandleLog, Core, IsContext, Fields

\* A new execution: what is current is finished, but for a dynamic subtest.
LEMMA ExecHandled ==
  ASSUME NEW c, IsContext(c), c.test = None <=> c.state \in {"initial", "exec"}
  PROVE  LET d == HandleExec(c)
         IN /\ IsContext(d) /\ d.state = "exec" /\ d.test = None /\ d.dynamic = c.dynamic
            /\ d.dynamicresult = c.dynamicresult /\ d.result \in {c.result, None}
            /\ c.test # None => d.result = None
            /\ Says(c, d) /\ \A n \in Dynamics : d.results[n] = c.results[n]
            /\ c.state = "initial" => d.results = c.results
<1> DEFINE d == HandleExec(c)
<1>1. CASE c.state \in {"initial", "exec"}
  <2>1. ASSUME c.state = "initial"
        PROVE  Core(d, "exec", c.test, c.dynamic, c.result, c.dynamicresult, c.results)
    <3>1. d = [c EXCEPT !.state = "exec"]
      BY <2>1 DEF HandleExec
    <3> HIDE DEF d
    <3> QED BY <2>1, <3>1 DEF IsContext, Fields, Core
  <2>2. ASSUME c.state = "exec"
        PROVE  Core(d, "exec", c.test, c.dynamic, c.result, c.dynamicresult, c.results)
    <3>1. d = [c EXCEPT !.out = <<>>, !.err = <<>>, !.outidx = 0, !.erridx = 0, !.nextoutidx = 0, !.nexterridx = 0]
      BY <2>2 DEF HandleExec
    <3> HIDE DEF d
    <3> QED BY <2>2, <3>1 DEF IsContext, Fields, Core
  <2> HIDE DEF d
  <2>3. /\ IsContext(d) /\ d.state = "exec" /\ d.test = c.test /\ d.dynamic = c.dynamic
        /\ d.result = c.result /\ d.dynamicresult = c.dynamicresult /\ d.results = c.results
    BY <1>1, <2>1, <2>2 DEF Core
  <2>4. Counts(c, d)
    BY <2>3, SameCounts
  <2>5. \A n : Now(d, n) = Now(c, n)
    BY <2>3 DEF Now
  <2>6. Says(c, d)
    BY <2>3, <2>4, <2>5 DEF Says
  <2> QED BY <1>1, <2>3, <2>6 DEF d
<1>2. CASE c.state \notin {"initial", "exec"}
  <2> DEFINE e == FinishSubtest(c)
  <2>1. d = [e EXCEPT !.state = "exec"] /\ c.test # None
    BY <1>2 DEF HandleExec
  <2>2. Core(e, c.state, None, c.dynamic, None, c.dynamicresult,
             [c.results EXCEPT ![c.test] = OrIncomplete(c.result)])
    BY <2>1, FinishSubtestCore
  <2>3. Says(c, e)
    BY <2>1, FinishSubtestSays
  <2>4. \A n \in Dynamics : [c.results EXCEPT ![c.test] = OrIncomplete(c.result)][n] = c.results[n]
    BY NamesApart DEF IsContext
  <2> HIDE DEF d, e
  <2>5. /\ IsContext(d) /\ d.state = "exec" /\ d.test = e.test /\ d.dynamic = e.dynamic
        /\ d.result = e.result /\ d.dynamicresult = e.dynamicresult /\ d.results = e.results
    BY <2>1, <2>2 DEF Core, IsContext, Fields
  <2>6. Counts(e, d)
    BY <2>5, SameCounts
  <2>7. Says(e, d)
    BY <2>5, <2>6 DEF Says, Now
  <2>8. IsContext(e) /\ e.dynamic = c.dynamic
    BY <2>2 DEF Core
  <2>9. Says(c, d)
    BY <2>3, <2>7, <2>8, SaysTwice
  <2>10. /\ e.test = None /\ e.result = None /\ e.dynamicresult = c.dynamicresult
         /\ \A n \in Dynamics : e.results[n] = c.results[n]
    BY <2>2, <2>4 DEF Core
  <2>11. /\ d.test = None /\ d.result = None /\ d.dynamic = c.dynamic /\ d.dynamicresult = c.dynamicresult
         /\ \A n \in Dynamics : d.results[n] = c.results[n]
    BY <2>5, <2>8, <2>10
  <2> QED BY <1>2, <2>5, <2>9, <2>11 DEF d
<1> QED BY <1>1, <1>2

\* "exit": of a test that said nothing, the exit code is the result.
LEMMA ExitHandled ==
  ASSUME NEW c, IsContext(c), NEW code, c.test = None <=> c.state = "exec"
  PROVE  LET d == HandleExit(c, code)
         IN /\ c.state = "exec" =>
                 \E t \in {EntryFirst, Binary} \ {None} :
                   Core(d, "exited", t, c.dynamic,
                        IF c.result = None THEN ResultFromExitcode(code) ELSE c.result,
                        c.dynamicresult, c.results)
            /\ c.state # "exec" /\ code = "abort" =>
                 Core(d, "exited", c.test, c.dynamic, "abort", "abort", c.results)
            /\ c.state # "exec" /\ code # "abort" =>
                 Core(d, "exited", c.test, c.dynamic, c.result, c.dynamicresult, c.results)
<1>1. ResultFromExitcode(code) \in Results
  BY DEF ResultFromExitcode, Results
<1>2. EntryFirst \in Names \cup {None} /\ Binary # None
  BY NamesApart, IgtCoreAssumption DEF IgtCoreAssumption
<1>3. ASSUME c.state = "exec"
      PROVE  \E t \in {EntryFirst, Binary} \ {None} :
               Core(HandleExit(c, code), "exited", t, c.dynamic,
                    IF c.result = None THEN ResultFromExitcode(code) ELSE c.result, c.dynamicresult, c.results)
  <2> DEFINE t == IF EntryFirst = None THEN Binary ELSE EntryFirst
  <2>1. t \in {EntryFirst, Binary} \ {None} /\ t \in Names \cup {Binary, None}
    BY <1>2
  <2>2. HandleExit(c, code) =
          [c EXCEPT !.state = "exited", !.test = t,
                    !.result = IF c.result = None THEN ResultFromExitcode(code) ELSE c.result]
    BY <1>3 DEF HandleExit
  <2> HIDE DEF t
  <2>3. Core(HandleExit(c, code), "exited", t, c.dynamic,
             IF c.result = None THEN ResultFromExitcode(code) ELSE c.result, c.dynamicresult, c.results)
    BY <1>1, <2>1, <2>2 DEF Core, IsContext, Fields
  <2> QED BY <2>1, <2>3
<1>4. ASSUME c.state # "exec", code = "abort"
      PROVE  Core(HandleExit(c, code), "exited", c.test, c.dynamic, "abort", "abort", c.results)
  <2>1. HandleExit(c, code) = [c EXCEPT !.state = "exited", !.result = "abort", !.dynamicresult = "abort"]
    BY <1>4 DEF HandleExit
  <2> QED BY <2>1 DEF Core, IsContext, Fields, Results
<1>5. ASSUME c.state # "exec", code # "abort"
      PROVE  Core(HandleExit(c, code), "exited", c.test, c.dynamic, c.result, c.dynamicresult, c.results)
  <2>1. HandleExit(c, code) = [c EXCEPT !.state = "exited"]
    BY <1>5 DEF HandleExit
  <2> QED BY <2>1 DEF Core, IsContext, Fields
<1> QED BY <1>3, <1>4, <1>5

\* Which handler a packet gets.
Readable(c) == c.state \in {"initial", "exec", "subtest", "dynamic", "between", "between dynamics", "exited"}

LEMMA Dispatch ==
  ASSUME NEW c, Readable(c), NEW n, NEW v
  PROVE  /\ Handle(c, LogPacket(n, v)) = HandleLog(c, n, v)
         /\ Handle(c, ExecPacket) = HandleExec(c)
         /\ Handle(c, ExitPacket(v)) = HandleExit(c, v)
         /\ Handle(c, Packet("subtest start", n, v)) = HandleSubtestStart(c, n)
         /\ Handle(c, Packet("subtest result", n, v)) = HandleSubtestResult(c, n, v)
         /\ Handle(c, Packet("dynamic start", n, v)) = HandleDynamicStart(c, n)
         /\ Handle(c, Packet("dynamic result", n, v)) = HandleDynamicResult(c, n, v)
         /\ Handle(c, OverridePacket(v)) = HandleOverride(c, v)
<1>1. c.state \notin {"error", "assertion"}
  BY DEF Readable
<1> QED BY <1>1 DEF Handle, Packet, LogPacket, ExecPacket, ExitPacket, OverridePacket

-----------------------------------------------------------------------------
(* Steps that send nothing.                                                *)

LEMMA ContextRead == ASSUME CoreInv PROVE Readable(context) /\ IsContext(context)
BY DEF CoreInv, ContextInv, Readable

\* What the parts other than the exit code depend on.
Inner == <<pc, todo, in_subtest, in_dynamic_subtest, executed, entered, dynamic_failed_one,
             thread_failed, suspects, said, aborting, reaped, begun, resumes, context>>

LEMMA ContextStays == ASSUME ContextInv, UNCHANGED <<context, resumes>> PROVE ContextInv'
BY DEF ContextInv

LEMMA SaidStays == ASSUME SaidInv, FirstInv, UNCHANGED <<context, resumes, said>> PROVE SaidInv' /\ FirstInv'
BY DEF SaidInv, FirstInv, Replaced, Dropped

LEMMA BlameStays == ASSUME BlameInv, UNCHANGED <<context, resumes, aborting, reaped>> PROVE BlameInv'
BY DEF BlameInv, Blame

LEMMA FreshStays ==
  ASSUME FreshInv, UNCHANGED <<todo, begun, suspects, said, context, in_subtest, in_dynamic_subtest, entered>>
  PROVE  FreshInv'
BY DEF FreshInv, Unheard

LEMMA SuspectStays ==
  ASSUME SuspectInv, UNCHANGED <<suspects, context, in_subtest, in_dynamic_subtest, thread_failed>>
  PROVE  SuspectInv'
BY DEF SuspectInv, Here

LEMMA ContainerStays ==
  ASSUME ContainerInv, UNCHANGED <<context, in_subtest, reaped, dynamic_failed_one>>
  PROVE  ContainerInv'
BY DEF ContainerInv

LEMMA PlaceStays ==
  ASSUME PlaceInv, UNCHANGED <<pc, begun, aborting, in_subtest, in_dynamic_subtest, executed, reaped, context>>
  PROVE  PlaceInv'
BY DEF PlaceInv

\* A fixture or a group begins or ends: only the flags the exit code is made from change.
LEMMA Quiet ==
  ASSUME CoreInv, UNCHANGED Inner
  PROVE  /\ ContextInv' /\ PlaceInv' /\ FreshInv' /\ SaidInv' /\ FirstInv' /\ ContainerInv'
         /\ SuspectInv' /\ BlameInv'
BY ContextStays, SaidStays, BlameStays, FreshStays, SuspectStays, ContainerStays, PlaceStays
   DEF CoreInv, Inner

Flags == <<exitcode, found, succeeded_one, failed_one>>

LEMMA QuietExit ==
  ASSUME CoreInv, UNCHANGED Inner, UNCHANGED Flags,
         henceforth' = "FAIL" \/ saved' = "FAIL" => henceforth = "FAIL" \/ saved = "FAIL"
  PROVE  ExitInv' /\ Agrees'
<1>1. ExitInv'
  BY DEF CoreInv, ExitInv, Inner, Flags
<1>2. Agrees'
  BY DEF CoreInv, Agrees, Inner, Flags
<1> QED BY <1>1, <1>2

LEMMA FixturePreserves == ASSUME CoreInv, Fixture PROVE CoreInv'
<1> USE DEF Fixture, Outside, Running, Room, Silent, process, groups, flags, threads
<1>1. UNCHANGED Inner /\ UNCHANGED Flags
  BY DEF Inner, Flags
<1>2. TypeOK'
  BY IgtCoreAssumption DEF CoreInv, TypeOK, IgtCoreAssumption
<1> QED BY <1>1, <1>2, Quiet, QuietExit DEF CoreInv

LEMMA FixtureCompletePreserves == ASSUME CoreInv, FixtureComplete PROVE CoreInv'
<1> USE DEF FixtureComplete, Running, Silent, process, groups, flags, threads, bounds
<1>1. UNCHANGED Inner /\ UNCHANGED Flags
  BY DEF Inner, Flags
<1>2. TypeOK'
  <2>1. TypeOK
    BY DEF CoreInv
  <2>2. in_fixture' \in BOOLEAN /\ skipped_one' \in BOOLEAN /\ henceforth' \in {"no", "SKIP", "FAIL"} /\ ~in_fixture'
    BY <2>1 DEF TypeOK
  <2> QED BY <2>1, <2>2 DEF TypeOK
<1> QED BY <1>1, <1>2, Quiet, QuietExit DEF CoreInv

LEMMA GroupPreserves == ASSUME CoreInv, GroupSave \/ GroupRestore PROVE CoreInv'
<1> USE DEF GroupSave, GroupRestore, Outside, Running, Silent, process, place, flags, threads, bounds
<1>1. UNCHANGED Inner /\ UNCHANGED Flags
  BY DEF Inner, Flags
<1>2. TypeOK'
  <2>1. TypeOK
    BY DEF CoreInv
  <2> QED BY <2>1 DEF TypeOK
<1>3. henceforth' = "FAIL" \/ saved' = "FAIL" => henceforth = "FAIL" \/ saved = "FAIL"
  OBVIOUS
<1> QED BY <1>1, <1>2, <1>3, Quiet, QuietExit DEF CoreInv

LEMMA SkipFixturePreserves == ASSUME CoreInv, SkipFixture PROVE CoreInv'
<1> USE DEF SkipFixture, Running, Silent, process, threads, bounds
<1>1. UNCHANGED Inner /\ UNCHANGED Flags
  BY DEF Inner, Flags
<1>2. TypeOK'
  <2>1. TypeOK
    BY DEF CoreInv
  <2>2. in_fixture' \in BOOLEAN /\ skipped_one' \in BOOLEAN /\ henceforth' \in {"no", "SKIP", "FAIL"} /\ ~in_fixture'
    BY <2>1 DEF TypeOK
  <2> QED BY <2>1, <2>2 DEF TypeOK
<1> QED BY <1>1, <1>2, Quiet, QuietExit DEF CoreInv

LEMMA FailFixturePreserves == ASSUME CoreInv, FailFixture PROVE CoreInv'
<1> USE DEF FailFixture, NotesFailure, Running, Silent, threads, bounds
<1>1. UNCHANGED Inner
  BY DEF Inner
<1>2. TypeOK'
  <2>1. TypeOK
    BY DEF CoreInv
  <2>2. /\ ~in_fixture' /\ in_fixture' \in BOOLEAN /\ failed_one' \in BOOLEAN
        /\ exitcode' \in {"success", "skip", "failure", "crash", "abort", "signal", "invalid"}
        /\ henceforth' \in {"no", "SKIP", "FAIL"}
    BY <2>1 DEF TypeOK
  <2> QED BY <2>1, <2>2 DEF TypeOK
<1>3. ExitInv'
  BY DEF CoreInv, ExitInv
<1>4. Agrees'
  BY DEF CoreInv, Agrees
<1> QED BY <1>1, <1>2, <1>3, <1>4, Quiet DEF CoreInv

\* The process ends where it is.
LEMMA DyingPreserves ==
  ASSUME CoreInv, Running, NEW how, Dies(how), Silent,
         how \in {"success", "skip", "failure", "crash", "abort", "signal", "invalid"},
         context.state = "exec" => how \in {"invalid", "signal", "abort"},
         resumes = 0 => \A s \in Names :
           /\ how = "success" => Now(context, s) \notin {"fail", "crash", "incomplete"}
           /\ how = "skip" => Now(context, s) # "pass"
           /\ how = "failure" => Now(context, s) # "incomplete"
  PROVE  CoreInv'
<1> USE DEF Dies, Silent, Running, place, groups, flags, threads, bounds
<1>1. TypeOK'
  <2>1. TypeOK
    BY DEF CoreInv
  <2> QED BY <2>1 DEF TypeOK
<1>2. ContextInv' /\ SaidInv' /\ FirstInv' /\ BlameInv' /\ FreshInv' /\ SuspectInv' /\ ContainerInv'
  BY ContextStays, SaidStays, BlameStays, FreshStays, SuspectStays, ContainerStays DEF CoreInv
<1>3. PlaceInv'
  BY DEF CoreInv, PlaceInv
<1>4. ExitInv'
  BY DEF CoreInv, ExitInv
<1>5. Agrees'
  BY DEF CoreInv, Agrees
<1> QED BY <1>1, <1>2, <1>3, <1>4, <1>5 DEF CoreInv

LEMMA KillPreserves == ASSUME CoreInv, Abort \/ Killed PROVE CoreInv'
<1>1. Running /\ Silent /\ (Dies("abort") \/ Dies("signal"))
  BY DEF Abort, Killed
<1> QED BY <1>1, DyingPreserves

LEMMA igt_exitPreserves == ASSUME CoreInv, igt_exit PROVE CoreInv'
<1> DEFINE how == CASE ~found -> "invalid"
                    [] found /\ ~skipped_one /\ ~succeeded_one /\ ~failed_one -> "signal"
                    [] found /\ failed_one -> exitcode
                    [] OTHER -> IF succeeded_one THEN "success" ELSE "skip"
<1>1. Running /\ Dies(how) /\ Silent /\ in_subtest = None /\ todo = {}
  BY DEF igt_exit, Outside
<1>2. TypeOK /\ ExitInv /\ Agrees
  BY DEF CoreInv
<1>3. /\ ~found => how = "invalid"
      /\ found /\ failed_one => how = exitcode
      /\ found /\ ~failed_one => how \in {"signal", "success", "skip"}
      /\ how = "success" /\ ~failed_one => succeeded_one
      /\ how = "skip" /\ ~failed_one => ~succeeded_one
  <2>1. found \in BOOLEAN /\ failed_one \in BOOLEAN /\ succeeded_one \in BOOLEAN /\ skipped_one \in BOOLEAN
    BY <1>2 DEF TypeOK
  <2>2. CASE ~found
    BY <2>2
  <2>3. CASE found /\ failed_one
    BY <2>3
  <2>4. CASE found /\ ~failed_one
    BY <2>1, <2>4
  <2> QED BY <2>2, <2>3, <2>4, <2>1
<1> HIDE DEF how
<1>4. exitcode \in {"success", "failure", "crash"} /\ (failed_one <=> exitcode # "success")
  BY <1>1, <1>2 DEF ExitInv, Running
<1>5. how \in {"success", "skip", "failure", "crash", "abort", "signal", "invalid"}
  BY <1>3, <1>4
<1>6. context.state = "exec" => how \in {"invalid", "signal", "abort"}
  BY <1>1, <1>2, <1>3 DEF ExitInv, Running
<1>7. ASSUME resumes = 0, NEW s \in Names
      PROVE  /\ how = "success" => Now(context, s) \notin {"fail", "crash", "incomplete"}
             /\ how = "skip" => Now(context, s) # "pass"
             /\ how = "failure" => Now(context, s) # "incomplete"
  <2>1. /\ Now(context, s) \in {"fail", "crash"} => failed_one
        /\ Now(context, s) = "pass" => succeeded_one
        /\ Now(context, s) = "incomplete" => in_subtest = s
    BY <1>1, <1>2, <1>7 DEF Agrees, Running
  <2>2. s # None
    BY NamesApart
  <2> QED BY <1>1, <1>3, <1>4, <2>1, <2>2
<1> QED BY <1>1, <1>5, <1>6, <1>7, DyingPreserves

\* A thread fails: where it does is not over.
LEMMA ThreadFailsPreserves == ASSUME CoreInv, ThreadFails PROVE CoreInv'
<1> USE DEF ThreadFails, Running, Room, Silent, process, place, groups, flags
<1>1. TypeOK /\ ContextInv /\ PlaceInv /\ FreshInv /\ SuspectInv
  BY DEF CoreInv
<1>2. in_subtest # None /\ in_subtest \in Names /\ ~reaped
  BY <1>1 DEF TypeOK, PlaceInv
<1>3. ASSUME ~InContainer
      PROVE  /\ Here \in Names \cup Dynamics /\ Now(context, Here) # "pass"
             /\ in_dynamic_subtest = None => Here = in_subtest /\ in_subtest \notin Containers
             /\ in_dynamic_subtest # None =>
                  /\ Here = <<in_subtest, in_dynamic_subtest>> /\ in_dynamic_subtest = entered
                  /\ Here \in Dynamics
  <2>1. CASE in_dynamic_subtest = None
    <3>1. Here = in_subtest /\ context.test = in_subtest /\ in_subtest \notin Containers
      BY <1>1, <1>2, <1>3, <2>1 DEF Here, PlaceInv, InContainer, TypeOK
    <3>2. context.result \in Undecided
      BY <1>1, <1>2, <2>1 DEF PlaceInv, ContextInv
    <3> QED BY <1>2, <2>1, <3>1, <3>2 DEF Now, OrIncomplete, Undecided, ByRunner
  <2>2. CASE in_dynamic_subtest # None
    <3>1. Here = <<in_subtest, in_dynamic_subtest>> /\ in_dynamic_subtest \in 1..MaxDynamics
      BY <1>1, <2>2 DEF Here, TypeOK
    <3>2. Here \in Dynamics
      BY <1>2, <3>1 DEF Dynamics
    <3>3. context.state = "dynamic" /\ context.dynamic = Here /\ context.test \in Names \cup {Binary, None}
      BY <1>1, <1>2, <2>2, <3>1 DEF PlaceInv, ContextInv, IsContext
    <3>4. context.dynamicresult \in Undecided /\ Here # context.test
      BY <1>1, <3>2, <3>3, NamesApart DEF ContextInv
    <3>5. in_dynamic_subtest = entered
      BY <1>1, <2>2 DEF FreshInv
    <3> QED BY <2>2, <3>1, <3>2, <3>3, <3>4, <3>5 DEF Now, OrIncomplete, Undecided, ByRunner
  <2> QED BY <2>1, <2>2
<1>4. TypeOK'
  BY <1>1, <1>3, IgtCoreAssumption DEF TypeOK, IgtCoreAssumption
<1>5. ContextInv' /\ SaidInv' /\ FirstInv' /\ BlameInv' /\ PlaceInv' /\ ContainerInv'
  BY ContextStays, SaidStays, BlameStays, PlaceStays, ContainerStays DEF CoreInv, bounds
<1>6. ExitInv' /\ Agrees'
  BY DEF CoreInv, ExitInv, Agrees
<1>7. FreshInv'
  <2>1. \A s \in Names : Here = s /\ ~InContainer => s = in_subtest
    BY <1>2, <1>3, NamesApart
  <2>2. in_subtest \in begun
    BY <1>1, <1>2 DEF FreshInv
  <2>3. \A s \in Names : s \notin begun' => s \notin suspects'
    BY <1>1, <2>1, <2>2 DEF FreshInv
  <2>4. ASSUME NEW s \in Names, NEW k \in 1..MaxDynamics, ~InContainer, Here = <<s, k>>
        PROVE  s = in_subtest /\ k = entered
    <3>1. <<s, k>> \notin Names
      BY <2>4, NamesApart DEF Dynamics
    <3>2. in_dynamic_subtest # None
      BY <1>2, <1>3, <2>4, <3>1
    <3> QED BY <1>3, <2>4, <3>2
  <2>5. \A s \in Names, k \in 1..MaxDynamics :
          <<s, k>> \in suspects' => <<s, k>> \in suspects \/ (s = in_subtest /\ k = entered)
    BY <2>4
  <2>6. \A s \in Names : s \notin begun' => \A k \in 1..MaxDynamics : Unheard(<<s, k>>)'
    BY <1>1, <2>2, <2>5 DEF FreshInv, Unheard
  <2>7. \A k \in 1..MaxDynamics : k > entered => Unheard(<<in_subtest, k>>)'
    BY <1>1, <1>2, <2>5 DEF FreshInv, Unheard, TypeOK
  <2>8. in_subtest' # None =>
          /\ in_subtest' \in begun' /\ said'[in_subtest'] = None
          /\ in_subtest' \notin Containers => entered' = 0
    BY <1>1 DEF FreshInv
  <2>9. in_dynamic_subtest' # None =>
          in_dynamic_subtest' = entered' /\ said'[<<in_subtest', in_dynamic_subtest'>>] = None
    BY <1>1 DEF FreshInv
  <2>10. \A i \in todo' : Subtests[i] \notin begun'
    BY <1>1 DEF FreshInv
  <2> QED BY <2>3, <2>6, <2>7, <2>8, <2>9, <2>10 DEF FreshInv
<1>8. SuspectInv'
  <2>1. \A n \in suspects' : Now(context', n) # "pass"
    BY <1>1, <1>3 DEF SuspectInv
  <2>2. suspects' \cap Containers = {}
    <3>1. Containers \cap Dynamics = {}
      BY NamesApart, IgtCoreAssumption DEF IgtCoreAssumption
    <3> QED BY <1>1, <1>3, <3>1 DEF SuspectInv
  <2> QED BY <2>1, <2>2 DEF SuspectInv
<1> QED BY <1>4, <1>5, <1>6, <1>7, <1>8 DEF CoreInv

-----------------------------------------------------------------------------
(* Subtests end.                                                           *)

\* A packet that adds no verdict.
LEMMA BlameLess ==
  ASSUME BlameInv, resumes \in Nat, UNCHANGED <<aborting, resumes, reaped>>, ~reaped, Counts(context, context')
  PROVE  BlameInv'
<1>1. ASSUME NEW set \in {Names, Dynamics}, NEW r, NEW q, Blame(set, r),
             Total(context', set, q) <= Total(context, set, r)
      PROVE  /\ Total(context', set, q) <= resumes' + 1
             /\ ~aborting' => Cardinality(Others(context', set)) <= resumes'
             /\ ~aborting' /\ ~reaped' => Total(context', set, q) <= resumes'
  <2>1. /\ Total(context', set, q) \in Nat /\ Total(context, set, r) \in Nat
        /\ Cardinality(Others(context', set)) \in Nat
    BY TotalInt, OthersFinite
  <2>2. Cardinality(Others(context', set)) <= Total(context', set, q)
    BY <2>1 DEF Total, One
  <2> QED BY <1>1, <2>1, <2>2 DEF Blame
<1>2. Blame(Names, context.result)'
  BY <1>1 DEF BlameInv, Counts, Blame
<1>3. Blame(Dynamics, context.dynamicresult)'
  BY <1>1 DEF BlameInv, Counts, Blame
<1> QED BY <1>2, <1>3 DEF BlameInv

\* The flags the end of a (dynamic) subtest with result r leaves.
FlagsTell(r) ==
  /\ skipped_one' \in BOOLEAN /\ succeeded_one' \in BOOLEAN /\ failed_one' \in BOOLEAN
  /\ dynamic_failed_one' \in BOOLEAN /\ thread_failed' \in BOOLEAN
  /\ exitcode' \in {"success", "failure", "crash"} /\ (failed_one' <=> exitcode' # "success")
  /\ (failed_one => failed_one') /\ (succeeded_one => succeeded_one')
  /\ (dynamic_failed_one => dynamic_failed_one')
  /\ r = "SUCCESS" => ~thread_failed /\ (InContainer => ~dynamic_failed_one)
  /\ in_dynamic_subtest = None /\ r \in {"FAIL", "CRASH"} => failed_one'
  /\ in_dynamic_subtest = None /\ r = "SUCCESS" => succeeded_one'
  /\ in_dynamic_subtest # None /\ r = "FAIL" => dynamic_failed_one'

LEMMA GivenResult ==
  ASSUME NEW old \in Undecided, NEW r \in {"SUCCESS", "SKIP", "FAIL", "CRASH"}
  PROVE  /\ Given(old, r) \in {Mapped(r)} \cup ByRunner /\ Given(old, r) # None
         /\ OrIncomplete(Given(old, r)) = Given(old, r)
         /\ Given(old, r) \in ByRunner => old \in ByRunner
         /\ OrIncomplete(old) \in ByRunner \cup {"incomplete"}
<1>1. Mapped(r) # None /\ Mapped(r) \notin ByRunner /\ None \notin ByRunner
  BY MappedResult, NewVerdict, NamesApart
<1> QED BY <1>1, MappedResult, NewVerdict DEF Given, Undecided, OrIncomplete

LEMMA Verdicts == {"pass", "fail", "crash", "skip", "incomplete"} \cap ByRunner = {}
BY DEF ByRunner

LEMMA SubtestEndPreserves ==
  ASSUME CoreInv, Running, in_subtest # None, in_dynamic_subtest = None,
         NEW r \in {"SUCCESS", "SKIP", "FAIL", "CRASH"}, NEW count, ExitSubtest(r, count), FlagsTell(r)
  PROVE  CoreInv'
<1>1. TypeOK /\ ContextInv /\ PlaceInv /\ FreshInv /\ SuspectInv /\ ContainerInv /\ Agrees /\ ExitInv
      /\ SaidInv /\ FirstInv /\ BlameInv
  BY DEF CoreInv
<1>2. ~reaped /\ in_subtest \in Names /\ in_subtest # None /\ Here = in_subtest
  BY <1>1 DEF PlaceInv, TypeOK, Running, Here
<1>3. context.state \in {"subtest", "between dynamics"} /\ context.test = in_subtest /\ IsContext(context)
  BY <1>1, <1>2 DEF PlaceInv, ContextInv
<1>4. context.result \in Undecided
  BY <1>1, <1>3 DEF ContextInv
<1>5. context' = HandleSubtestResult(context, in_subtest, r)
  BY <1>1, ContextRead, Dispatch DEF ExitSubtest, Send, Write
<1>6. Core(context', "between", in_subtest, context.dynamic, Given(context.result, r),
           context.dynamicresult, context.results)
  <2>1. Core(HandleSubtestResult(context, in_subtest, r), "between", context.test, context.dynamic,
             Given(context.result, r), context.dynamicresult, context.results)
    BY <1>2, <1>3, <1>4, EndHandled
  <2> QED BY <1>3, <1>5, <2>1
<1>7. /\ IsContext(context') /\ context'.state = "between" /\ context'.test = in_subtest
      /\ context'.dynamic = context.dynamic /\ context'.result = Given(context.result, r)
      /\ context'.dynamicresult = context.dynamicresult /\ context'.results = context.results
  BY <1>6 DEF Core
<1>8. /\ in_subtest' = None /\ in_dynamic_subtest' = None /\ executed' = -1 /\ pc' = "running"
      /\ said' = [said EXCEPT ![in_subtest] = Mapped(r)] /\ aborting' = aborting /\ reaped' = reaped
      /\ UNCHANGED <<pc, found, todo, in_fixture, entered, henceforth, saved, suspects, fixtures, lines,
                     failures, resumes, begun>>
      /\ results_received' = TRUE
  BY <1>2 DEF ExitSubtest, Send, groups, bounds, Running, Packet
<1>9. Now(context', in_subtest) = Given(context.result, r)
  BY <1>4, <1>7, GivenResult DEF Now
<1>10. \A n \in Names \cup Dynamics : n # in_subtest => Now(context', n) = Now(context, n)
  BY <1>3, <1>7 DEF Now
<1>11. \A n \in Names \cup Dynamics : n # in_subtest => said'[n] = said[n]
  BY <1>1, <1>8 DEF TypeOK
<1>12. said'[in_subtest] = Mapped(r)
  BY <1>1, <1>2, <1>8 DEF TypeOK
<1>13. Given(context.result, r) \in {Mapped(r)} \cup ByRunner
  BY <1>4, GivenResult
<1>14. in_subtest \notin Dynamics
  BY <1>2, NamesApart
<1>15. TypeOK'
  <2>1. said' \in [Names \cup Dynamics -> Results \cup {None}]
    BY <1>1, <1>2, <1>8, MappedResult DEF TypeOK
  <2>2. context'.results \in [Names \cup Dynamics \cup {Binary} -> Results \cup {None}]
    BY <1>7 DEF IsContext
  <2>3. executed' \in -1..MaxDynamics /\ executed' <= entered'
    BY <1>1, <1>8, IgtCoreAssumption DEF TypeOK, IgtCoreAssumption
  <2> QED BY <1>1, <1>8, <2>1, <2>2, <2>3 DEF TypeOK, FlagsTell
<1>16. ContextInv'
  BY <1>1, <1>2, <1>4, <1>7, <1>8, GivenResult DEF ContextInv
<1>17. PlaceInv'
  BY <1>1, <1>2, <1>7, <1>8 DEF PlaceInv, Running
<1>18. FreshInv'
  <2>1. \A d \in Dynamics : Unheard(d) => Unheard(d)'
    BY <1>7, <1>8, <1>11, <1>14 DEF Unheard
  <2>2. \A s \in Names, k \in 1..MaxDynamics : <<s, k>> \in Dynamics
    BY DEF Dynamics
  <2>3. \A s \in Names : s \notin begun' => s \notin suspects' /\ \A k \in 1..MaxDynamics : Unheard(<<s, k>>)'
    BY <1>1, <1>8, <2>1, <2>2 DEF FreshInv
  <2> QED BY <1>1, <1>8, <2>3 DEF FreshInv
<1>19. SaidInv'
  <2> SUFFICES ASSUME NEW n \in Names \cup Dynamics, said'[n] # None, ~Replaced(n)'
               PROVE  Now(context', n) \in {said'[n]} \cup ByRunner \cup (IF Dropped(n)' THEN {None} ELSE {})
    BY DEF SaidInv
  <2>1. CASE n = in_subtest
    BY <1>9, <1>12, <1>13, <2>1
  <2>2. CASE n # in_subtest
    BY <1>1, <1>8, <1>10, <1>11, <2>2 DEF SaidInv, Replaced, Dropped
  <2> QED BY <2>1, <2>2
<1>20. FirstInv'
  BY <1>7 DEF FirstInv
<1>21. ContainerInv'
  <2> SUFFICES ASSUME NEW s \in Names, Now(context', s) = "pass", NEW k \in 1..MaxDynamics
               PROVE  Now(context', <<s, k>>) # "fail"
    BY <1>8 DEF ContainerInv
  <2>1. <<s, k>> \in Dynamics /\ <<s, k>> # in_subtest
    BY <1>14 DEF Dynamics
  <2>2. Now(context', <<s, k>>) = Now(context, <<s, k>>)
    BY <1>10, <2>1
  <2>3. CASE s = in_subtest
    <3>1. r = "SUCCESS"
      BY <1>9, <1>13, <2>3, MappedResult, Verdicts
    <3>2. CASE in_subtest \in Containers
      <4>1. InContainer
        BY <1>1, <1>2, <3>2 DEF InContainer, PlaceInv
      <4> QED BY <1>1, <1>2, <2>2, <2>3, <3>1, <4>1 DEF ContainerInv, FlagsTell
    <3>3. CASE in_subtest \notin Containers
      <4>1. k > entered
        BY <1>1, <1>2, <3>3 DEF FreshInv
      <4>2. context.results[<<s, k>>] = None /\ context.dynamic # <<s, k>>
        BY <1>1, <1>2, <2>3, <4>1 DEF FreshInv, Unheard
      <4>3. Now(context, <<s, k>>) = None
        BY <1>3, <2>1, <4>2 DEF Now
      <4> QED BY <2>2, <4>3, NamesApart DEF Results
    <3> QED BY <3>2, <3>3
  <2>4. CASE s # in_subtest
    BY <1>1, <1>10, <2>2, <2>4 DEF ContainerInv
  <2> QED BY <2>3, <2>4
<1>22. SuspectInv'
  <2>1. ASSUME NEW n \in suspects' PROVE Now(context', n) # "pass"
    <3>1. n \in Names \cup Dynamics /\ n \in suspects
      BY <1>1, <1>8 DEF TypeOK
    <3>2. CASE n = in_subtest
      <4>1. thread_failed
        BY <1>1, <1>2, <3>1, <3>2 DEF SuspectInv
      <4>2. r # "SUCCESS"
        BY <4>1 DEF FlagsTell
      <4> QED BY <1>9, <1>13, <3>2, <4>2, MappedResult, Verdicts
    <3>3. CASE n # in_subtest
      BY <1>1, <1>10, <3>1, <3>3 DEF SuspectInv
    <3> QED BY <3>2, <3>3
  <2> QED BY <1>1, <1>8, <2>1 DEF SuspectInv
<1>23. ExitInv'
  BY <1>1, <1>7, <1>8 DEF ExitInv, FlagsTell
<1>24. Agrees'
  <2> SUFFICES ASSUME resumes = 0, NEW s \in Names
               PROVE  /\ Now(context', s) \in {"fail", "crash"} => failed_one'
                      /\ Now(context', s) = "pass" => succeeded_one'
                      /\ Now(context', s) # "incomplete"
    BY <1>8 DEF Agrees
  <2>1. CASE s = in_subtest
    <3>1. Now(context', s) \in {Mapped(r)} \cup ByRunner
      BY <1>9, <1>13, <2>1
    <3>2. CASE Now(context', s) = Mapped(r)
      <4>1. /\ Mapped(r) \in {"fail", "crash"} => r \in {"FAIL", "CRASH"}
            /\ Mapped(r) # "incomplete" /\ (Mapped(r) = "pass" => r = "SUCCESS")
        BY DEF Mapped
      <4> QED BY <3>2, <4>1 DEF FlagsTell
    <3>3. CASE Now(context', s) \in ByRunner
      BY <3>3, Verdicts
    <3> QED BY <3>1, <3>2, <3>3
  <2>2. CASE s # in_subtest
    <3>1. /\ Now(context, s) \in {"fail", "crash"} => failed_one
          /\ Now(context, s) = "pass" => succeeded_one
          /\ Now(context, s) = "incomplete" => in_subtest = s
      BY <1>1 DEF Agrees, Running
    <3> QED BY <1>10, <2>2, <3>1 DEF FlagsTell
  <2> QED BY <2>1, <2>2
<1>25. BlameInv'
  <2>1. Counts(context, context')
    <3>1. context'.result \in ByRunner => context.result \in ByRunner
      BY <1>4, <1>7, GivenResult
    <3> QED BY <1>3, <1>7, <3>1, SameCounts
  <2>2. resumes \in Nat
    BY <1>1, IgtCoreAssumption DEF TypeOK, IgtCoreAssumption
  <2> QED BY <1>1, <1>2, <1>8, <2>1, <2>2, BlameLess
<1> QED BY <1>15, <1>16, <1>17, <1>18, <1>19, <1>20, <1>21, <1>22, <1>23, <1>24, <1>25 DEF CoreInv

LEMMA DynamicEndPreserves ==
  ASSUME CoreInv, Running, in_subtest # None, in_dynamic_subtest # None,
         NEW r \in {"SUCCESS", "SKIP", "FAIL", "CRASH"}, NEW count \in {executed, executed - 1},
         ExitSubtest(r, count), FlagsTell(r)
  PROVE  CoreInv'
<1> DEFINE d == <<in_subtest, in_dynamic_subtest>>
<1>1. TypeOK /\ ContextInv /\ PlaceInv /\ FreshInv /\ SuspectInv /\ ContainerInv /\ Agrees /\ ExitInv
      /\ SaidInv /\ FirstInv /\ BlameInv
  BY DEF CoreInv
<1>2. ~reaped /\ in_subtest \in Names /\ in_dynamic_subtest \in 1..MaxDynamics /\ Here = d
  BY <1>1 DEF PlaceInv, TypeOK, Running, Here
<1>3. d \in Dynamics /\ d \notin Names
  BY <1>2, NamesApart DEF Dynamics
<1>4. /\ context.state = "dynamic" /\ context.test = in_subtest /\ IsContext(context)
      /\ context.dynamic = d
  BY <1>1, <1>2 DEF PlaceInv, ContextInv
<1>5. context.result \in Undecided /\ context.dynamicresult \in Undecided
  BY <1>1, <1>4 DEF ContextInv
<1>6. context' = HandleDynamicResult(context, in_dynamic_subtest, r)
  BY <1>1, ContextRead, Dispatch DEF ExitSubtest, Send, Write
<1>7. /\ IsContext(context') /\ context'.state = "between dynamics" /\ context'.test = in_subtest
      /\ context'.dynamic = context.dynamic /\ context'.result = context.result
      /\ context'.dynamicresult = Given(context.dynamicresult, r) /\ context'.results = context.results
  <2>1. Core(HandleDynamicResult(context, in_dynamic_subtest, r), "between dynamics", context.test,
             context.dynamic, context.result, Given(context.dynamicresult, r), context.results)
    BY <1>2, <1>4, <1>5, DynamicEndHandled
  <2> QED BY <1>4, <1>6, <2>1 DEF Core
<1>8. /\ in_subtest' = in_subtest /\ in_dynamic_subtest' = None /\ executed' = count /\ pc' = "running"
      /\ aborting' = aborting /\ reaped' = reaped
      /\ UNCHANGED <<pc, found, todo, in_fixture, entered, henceforth, saved, suspects, fixtures, lines,
                     failures, resumes, begun>>
      /\ results_received' = TRUE
  BY DEF ExitSubtest, Send, groups, bounds, Running, Packet
<1>9. said' = [said EXCEPT ![d] = Mapped(r)]
  BY <1>2 DEF ExitSubtest
<1>10. d # in_subtest
  BY <1>2, <1>3
<1>11. Now(context', d) = Given(context.dynamicresult, r)
  BY <1>4, <1>5, <1>7, <1>10, GivenResult DEF Now
<1>12. \A n \in Names \cup Dynamics : n # d => Now(context', n) = Now(context, n)
  BY <1>4, <1>7 DEF Now
<1>13. \A n \in Names \cup Dynamics : n # d => said'[n] = said[n]
  BY <1>1, <1>9 DEF TypeOK
<1>14. said'[d] = Mapped(r)
  BY <1>1, <1>3, <1>9 DEF TypeOK
<1>15. Given(context.dynamicresult, r) \in {Mapped(r)} \cup ByRunner
  BY <1>5, GivenResult
<1>16. /\ executed >= 0 /\ executed \in Int /\ executed' \in 0..MaxDynamics /\ executed' <= entered
       /\ executed' >= 0
  <2>1. executed >= 1 /\ executed \in -1..MaxDynamics /\ executed <= entered /\ entered \in Nat
    BY <1>1, IgtCoreAssumption DEF TypeOK, IgtCoreAssumption
  <2> QED BY <1>8, <2>1, IgtCoreAssumption DEF IgtCoreAssumption
<1>17. in_subtest \in Containers
  <2>1. in_subtest # None => (executed >= 0 <=> in_subtest \in Containers)
    BY <1>1 DEF PlaceInv
  <2> QED BY <1>16, <2>1
<1>18. TypeOK'
  <2>1. said' \in [Names \cup Dynamics -> Results \cup {None}]
    BY <1>1, <1>3, <1>9, MappedResult DEF TypeOK
  <2>2. context'.results \in [Names \cup Dynamics \cup {Binary} -> Results \cup {None}]
    BY <1>7 DEF IsContext
  <2> QED BY <1>1, <1>8, <1>16, <2>1, <2>2, IgtCoreAssumption DEF TypeOK, FlagsTell, IgtCoreAssumption
<1>19. ContextInv'
  BY <1>1, <1>3, <1>4, <1>5, <1>7, <1>8, NamesApart DEF ContextInv
<1>20. PlaceInv'
  <2>1. pc = "running" /\ context.state # "initial" /\ pc' = pc
    BY <1>4, <1>8 DEF Running
  <2>2. executed' >= 0 /\ in_subtest' \in Containers
    BY <1>8, <1>16, <1>17
  <2> QED BY <1>2, <1>7, <1>8, <2>1, <2>2 DEF PlaceInv
<1>21. FreshInv'
  <2>1. in_subtest \in begun /\ in_dynamic_subtest = entered
    BY <1>1 DEF FreshInv
  <2>2. \A e \in Dynamics : e # d /\ Unheard(e) => Unheard(e)'
    BY <1>7, <1>8, <1>13 DEF Unheard
  <2>3. \A s \in Names, k \in 1..MaxDynamics :
          <<s, k>> \in Dynamics /\ (<<s, k>> = d => s = in_subtest /\ k = entered)
    BY <2>1 DEF Dynamics
  <2>4. \A s \in Names : s \notin begun' => s \notin suspects' /\ \A k \in 1..MaxDynamics : Unheard(<<s, k>>)'
    BY <1>1, <1>8, <2>1, <2>2, <2>3 DEF FreshInv
  <2>5. \A k \in 1..MaxDynamics : k > entered' => Unheard(<<in_subtest, k>>)'
    BY <1>1, <1>2, <1>8, <2>2, <2>3, IgtCoreAssumption DEF FreshInv, TypeOK, IgtCoreAssumption
  <2>6. said'[in_subtest] = None
    BY <1>1, <1>2, <1>10, <1>13 DEF FreshInv
  <2> QED BY <1>1, <1>8, <2>4, <2>5, <2>6 DEF FreshInv
<1>22. SaidInv'
  <2> SUFFICES ASSUME NEW n \in Names \cup Dynamics, said'[n] # None, ~Replaced(n)'
               PROVE  Now(context', n) \in {said'[n]} \cup ByRunner \cup (IF Dropped(n)' THEN {None} ELSE {})
    BY DEF SaidInv
  <2>1. CASE n = d
    BY <1>11, <1>14, <1>15, <2>1
  <2>2. CASE n # d
    BY <1>1, <1>8, <1>12, <1>13, <2>2 DEF SaidInv, Replaced, Dropped
  <2> QED BY <2>1, <2>2
<1>23. FirstInv'
  BY <1>7 DEF FirstInv
<1>24. ContainerInv'
  <2>1. ASSUME NEW k \in 1..MaxDynamics, Now(context', <<in_subtest, k>>) = "fail" PROVE dynamic_failed_one'
    <3>1. <<in_subtest, k>> \in Dynamics
      BY <1>2 DEF Dynamics
    <3>2. CASE <<in_subtest, k>> = d
      <4>1. r = "FAIL"
        BY <1>11, <1>15, <2>1, <3>2, MappedResult, Verdicts
      <4> QED BY <4>1 DEF FlagsTell
    <3>3. CASE <<in_subtest, k>> # d
      BY <1>1, <1>2, <1>12, <2>1, <3>1, <3>3 DEF ContainerInv, FlagsTell
    <3> QED BY <3>2, <3>3
  <2>2. ASSUME NEW s \in Names, Now(context', s) = "pass", NEW k \in 1..MaxDynamics
        PROVE  Now(context', <<s, k>>) # "fail"
    <3>1. Now(context, s) = "pass"
      BY <1>3, <1>12, <2>2
    <3>2. Now(context, in_subtest) # "pass"
      BY <1>4, <1>5, Verdicts DEF Now, OrIncomplete, Undecided
    <3>3. <<s, k>> \in Dynamics /\ <<s, k>> # d
      BY <3>1, <3>2 DEF Dynamics
    <3> QED BY <1>1, <1>12, <3>1, <3>3 DEF ContainerInv
  <2> QED BY <1>8, <2>1, <2>2 DEF ContainerInv
<1>25. SuspectInv'
  <2>1. ASSUME NEW n \in suspects' PROVE Now(context', n) # "pass"
    <3>1. n \in Names \cup Dynamics /\ n \in suspects
      BY <1>1, <1>8 DEF TypeOK
    <3>2. CASE n = d
      <4>1. thread_failed
        BY <1>1, <1>2, <3>1, <3>2 DEF SuspectInv
      <4>2. r # "SUCCESS"
        BY <4>1 DEF FlagsTell
      <4> QED BY <1>11, <1>15, <3>2, <4>2, MappedResult, Verdicts
    <3>3. CASE n # d
      BY <1>1, <1>12, <3>1, <3>3 DEF SuspectInv
    <3> QED BY <3>2, <3>3
  <2>2. Here' = in_subtest
    BY <1>8 DEF Here
  <2> QED BY <1>1, <1>8, <1>17, <2>1, <2>2 DEF SuspectInv
<1>26. ExitInv'
  BY <1>1, <1>7, <1>8 DEF ExitInv, FlagsTell
<1>27. Agrees'
  <2> SUFFICES ASSUME resumes = 0, NEW s \in Names
               PROVE  /\ Now(context', s) \in {"fail", "crash"} => failed_one'
                      /\ Now(context', s) = "pass" => succeeded_one'
                      /\ Now(context', s) = "incomplete" => in_subtest = s
    BY <1>8 DEF Agrees
  <2>1. /\ Now(context, s) \in {"fail", "crash"} => failed_one
        /\ Now(context, s) = "pass" => succeeded_one
        /\ Now(context, s) = "incomplete" => in_subtest = s
    BY <1>1 DEF Agrees, Running
  <2>2. Now(context', s) = Now(context, s)
    BY <1>3, <1>12
  <2> QED BY <2>1, <2>2 DEF FlagsTell
<1>28. BlameInv'
  <2>1. Counts(context, context')
    <3>1. Given(context.dynamicresult, r) \in ByRunner => context.dynamicresult \in ByRunner
      BY <1>5, GivenResult
    <3> QED BY <1>4, <1>7, <3>1, SameCounts
  <2>2. resumes \in Nat
    BY <1>1, IgtCoreAssumption DEF TypeOK, IgtCoreAssumption
  <2> QED BY <1>1, <1>2, <1>8, <2>1, <2>2, BlameLess
<1> QED BY <1>18, <1>19, <1>20, <1>21, <1>22, <1>23, <1>24, <1>25, <1>26, <1>27, <1>28 DEF CoreInv

\* In one way or the other.
LEMMA EndPreserves ==
  ASSUME CoreInv, Running, in_subtest # None, NEW r \in {"SUCCESS", "SKIP", "FAIL", "CRASH"},
         NEW count \in {executed, executed - 1}, ExitSubtest(r, count), FlagsTell(r)
  PROVE  CoreInv'
BY SubtestEndPreserves, DynamicEndPreserves

LEMMA FlagTypes ==
  ASSUME CoreInv, Running
  PROVE  /\ skipped_one \in BOOLEAN /\ succeeded_one \in BOOLEAN /\ failed_one \in BOOLEAN
         /\ dynamic_failed_one \in BOOLEAN /\ thread_failed \in BOOLEAN
         /\ exitcode \in {"success", "failure", "crash"} /\ (failed_one <=> exitcode # "success")
BY DEF CoreInv, TypeOK, ExitInv, Running

LEMMA SkipPreserves == ASSUME CoreInv, in_subtest # None, Skip PROVE CoreInv'
<1>1. FlagsTell("SKIP")
  BY FlagTypes DEF Skip, FlagsTell
<1> QED BY <1>1, EndPreserves DEF Skip

LEMMA FailPreserves ==
  ASSUME CoreInv, Running, in_subtest # None, Fail, thread_failed' \in BOOLEAN PROVE CoreInv'
<1>1. FlagsTell("FAIL")
  BY FlagTypes DEF Fail, FlagsTell, NotesFailure
<1> QED BY <1>1, EndPreserves DEF Fail

LEMMA CrashPreserves == ASSUME CoreInv, Crash PROVE CoreInv'
<1>1. FlagsTell("CRASH")
  BY FlagTypes DEF Crash, FlagsTell, NotesFailure
<1> QED BY <1>1, EndPreserves DEF Crash

LEMMA SuccessPreserves == ASSUME CoreInv, Success PROVE CoreInv'
<1>1. FlagsTell("SUCCESS")
  BY FlagTypes DEF Success, FlagsTell
<1> QED BY <1>1, EndPreserves DEF Success

LEMMA SuccessFailsPreserves == ASSUME CoreInv, SuccessFailsForThread \/ SuccessFailsForDynamic PROVE CoreInv'
<1>1. CASE SuccessFailsForThread /\ InContainer /\ ~dynamic_failed_one
  BY <1>1, DyingPreserves DEF SuccessFailsForThread
<1>2. CASE SuccessFailsForThread /\ ~(InContainer /\ ~dynamic_failed_one)
  BY <1>2, FailPreserves DEF SuccessFailsForThread
<1>3. CASE SuccessFailsForDynamic
  BY <1>3, FailPreserves, FlagTypes DEF SuccessFailsForDynamic, InContainer
<1> QED BY <1>1, <1>2, <1>3

LEMMA AssertPreserves == ASSUME CoreInv, Assert PROVE CoreInv'
BY FailPreserves, FlagTypes DEF Assert

-----------------------------------------------------------------------------
(* The runner has its say.                                                 *)

\* d is c, with verdicts of the runner on what is current, perhaps.
Ruled(c, d) ==
  /\ IsContext(d) /\ d.test = c.test /\ d.dynamic = c.dynamic /\ d.results = c.results
  /\ d.result \in {c.result} \cup ByRunner /\ d.dynamicresult \in {c.dynamicresult} \cup ByRunner

LEMMA RuledNow ==
  ASSUME NEW c, NEW d, Ruled(c, d), NEW n \in Names \cup Dynamics
  PROVE  Now(d, n) = Now(c, n) \/ Now(d, n) \in ByRunner
<1>1. ASSUME NEW r \in ByRunner PROVE OrIncomplete(r) = r
  BY NewVerdict DEF OrIncomplete
<1>2. CASE n = c.test
  <2>1. Now(d, n) = OrIncomplete(d.result) /\ Now(c, n) = OrIncomplete(c.result)
    BY <1>2 DEF Now, Ruled
  <2> QED BY <1>1, <2>1 DEF Ruled
<1>3. CASE n # c.test /\ n = c.dynamic
  <2>1. Now(d, n) = OrIncomplete(d.dynamicresult) /\ Now(c, n) = OrIncomplete(c.dynamicresult)
    BY <1>3 DEF Now, Ruled
  <2> QED BY <1>1, <2>1 DEF Ruled
<1>4. CASE n # c.test /\ n # c.dynamic
  BY <1>4 DEF Now, Ruled
<1> QED BY <1>2, <1>3, <1>4

LEMMA RuledOthers == ASSUME NEW c, NEW d, Ruled(c, d), NEW set PROVE Others(d, set) = Others(c, set)
BY DEF Ruled, Others

LEMMA OverrideRules == ASSUME NEW c, IsContext(c), NEW r \in ByRunner PROVE Ruled(c, HandleOverride(c, r))
<1>1. Core(HandleOverride(c, r), c.state, c.test, c.dynamic, r,
           IF c.dynamic = None THEN c.dynamicresult ELSE r, c.results)
  BY OverrideHandled
<1> QED BY <1>1 DEF Core, Ruled

\* Whom the runner has not blamed yet in this execution it may blame.
LEMMA MayBlame ==
  ASSUME BlameInv, ~aborting, resumes \in Nat, NEW d, NEW set \in {Names, Dynamics}, NEW q,
         Others(d, set) \subseteq Others(context, set)
  PROVE  Cardinality(Others(d, set)) <= resumes /\ Total(d, set, q) <= resumes + 1
<1>1. /\ Cardinality(Others(context, set)) \in Nat /\ Cardinality(Others(d, set)) \in Nat
      /\ IsFiniteSet(Others(context, set)) /\ IsFiniteSet(Others(d, set))
  BY OthersFinite
<1>2. Cardinality(Others(d, set)) <= Cardinality(Others(context, set))
  BY <1>1, FS_Subset
<1>3. Cardinality(Others(context, set)) <= resumes
  BY DEF BlameInv, Blame
<1> QED BY <1>1, <1>2, <1>3 DEF Total, One

LEMMA BlameMore ==
  ASSUME BlameInv, ~aborting, resumes \in Nat, resumes' = resumes, aborting' \/ reaped',
         Others(context', Names) \subseteq Others(context, Names),
         Others(context', Dynamics) \subseteq Others(context, Dynamics)
  PROVE  BlameInv'
<1>1. Blame(Names, context.result)'
  BY MayBlame DEF Blame
<1>2. Blame(Dynamics, context.dynamicresult)'
  BY MayBlame DEF Blame
<1> QED BY <1>1, <1>2 DEF BlameInv

\* What does not depend on the context, the monitor and the bounds.
Outer == <<pc, exitcode, found, todo, in_subtest, in_dynamic_subtest, executed, entered, henceforth, saved,
           succeeded_one, failed_one, dynamic_failed_one, thread_failed, suspects, said, begun, resumes>>

LEMMA RuledPreserves ==
  ASSUME CoreInv, Ruled(context, context'), UNCHANGED Outer, TypeOK', BlameInv', pc # "off",
         \/ context'.state = context.state
         \/ context'.state = "exited" /\ reaped' /\ context.state \notin {"initial", "exec"},
         reaped => reaped', reaped' => pc = "exited"
  PROVE  CoreInv'
<1>1. TypeOK /\ ContextInv /\ PlaceInv /\ FreshInv /\ SuspectInv /\ ContainerInv /\ Agrees /\ ExitInv
      /\ SaidInv /\ FirstInv
  BY DEF CoreInv
<1> USE DEF Outer
<1>2. /\ IsContext(context') /\ context'.test = context.test /\ context'.dynamic = context.dynamic
      /\ context'.results = context.results
      /\ context'.result \in {context.result} \cup ByRunner
      /\ context'.dynamicresult \in {context.dynamicresult} \cup ByRunner
  BY DEF Ruled
<1>3. \A n \in Names \cup Dynamics : Now(context', n) = Now(context, n) \/ Now(context', n) \in ByRunner
  BY RuledNow
<1>4. {"pass", "fail", "crash", "incomplete"} \cap ByRunner = {}
  BY Verdicts
<1>5. \A s \in Names, k \in 1..MaxDynamics : <<s, k>> \in Dynamics
  BY DEF Dynamics
<1>6. ContextInv'
  BY <1>1, <1>2, NewVerdict DEF ContextInv, Undecided
<1>7. PlaceInv'
  BY <1>1, <1>2 DEF PlaceInv
<1>8. FreshInv'
  BY <1>1, <1>2 DEF FreshInv, Unheard
<1>9. SaidInv'
  BY <1>1, <1>3 DEF SaidInv, Replaced, Dropped
<1>10. FirstInv'
  BY <1>1 DEF FirstInv
<1>11. ContainerInv'
  <2>1. ASSUME NEW s \in Names, NEW k \in 1..MaxDynamics
        PROVE  /\ Now(context', s) = "pass" => Now(context, s) = "pass"
               /\ Now(context', <<s, k>>) = "fail" => Now(context, <<s, k>>) = "fail"
    BY <1>3, <1>4, <1>5
  <2>2. in_subtest \in Names \cup {None}
    BY <1>1 DEF TypeOK
  <2>3. in_subtest' # None /\ ~reaped' => in_subtest # None /\ ~reaped
    OBVIOUS
  <2> QED BY <1>1, <2>1, <2>2, <2>3 DEF ContainerInv
<1>12. SuspectInv'
  BY <1>1, <1>3, <1>4 DEF SuspectInv, Here, TypeOK
<1>13. ExitInv'
  BY <1>1 DEF ExitInv
<1>14. Agrees'
  BY <1>1, <1>3, <1>4 DEF Agrees
<1> QED BY <1>6, <1>7, <1>8, <1>9, <1>10, <1>11, <1>12, <1>13, <1>14 DEF CoreInv

LEMMA StillRunning == ASSUME CoreInv PROVE resumes \in Nat /\ (Running => ~reaped)
<1>1. resumes \in Nat
  BY IgtCoreAssumption DEF CoreInv, TypeOK, IgtCoreAssumption
<1>2. reaped => pc = "exited"
  BY DEF CoreInv, PlaceInv
<1> QED BY <1>1, <1>2 DEF Running

LEMMA LogPreserves == ASSUME CoreInv, NEW stream, Log(stream) PROVE CoreInv'
<1>1. TypeOK /\ BlameInv /\ PlaceInv
  BY DEF CoreInv
<1>2. UNCHANGED Outer /\ UNCHANGED <<skipped_one, in_fixture, aborting, reaped, fixtures, failures>>
  BY DEF Log, Send, Outer, process, place, groups, flags, threads
<1>3. context' = HandleLog(context, stream, in_subtest)
  BY ContextRead, Dispatch DEF Log, Send, Write
<1>4. Core(context', context.state, context.test, context.dynamic, context.result,
           context.dynamicresult, context.results)
  <2>1. IsContext(context)
    BY ContextRead
  <2> QED BY <1>3, <2>1, LogHandled
<1>5. Ruled(context, context') /\ Counts(context, context')
  BY <1>4, SameCounts DEF Ruled, Core
<1>6. TypeOK'
  <2>1. results_received' \in BOOLEAN /\ lines' \in 0..MaxLines
    <3>1. results_received' = results_received /\ results_received \in BOOLEAN
      BY <1>1 DEF Log, Send, TypeOK, LogPacket, Packet
    <3>2. lines' = lines + 1 /\ lines < MaxLines /\ lines \in 0..MaxLines /\ MaxLines \in Nat
      BY <1>1, IgtCoreAssumption DEF Log, TypeOK, IgtCoreAssumption
    <3> QED BY <3>1, <3>2
  <2>2. context'.results \in [Names \cup Dynamics \cup {Binary} -> Results \cup {None}]
    BY <1>4 DEF Core, IsContext
  <2> QED BY <1>1, <1>2, <2>1, <2>2 DEF TypeOK, Outer
<1>7. BlameInv'
  <2>1. resumes \in Nat /\ ~reaped
    BY StillRunning DEF Log
  <2>2. UNCHANGED <<aborting, resumes, reaped>>
    BY <1>2 DEF Outer
  <2> QED BY <1>1, <1>5, <2>1, <2>2, BlameLess
<1>8. context'.state = context.state
  BY <1>4 DEF Core
<1> QED BY <1>1, <1>2, <1>5, <1>6, <1>7, <1>8, RuledPreserves DEF Log, Running, PlaceInv

LEMMA OverridePreserves ==
  ASSUME CoreInv, Interrupt \/ AbortAfter PROVE CoreInv'
<1>1. TypeOK /\ BlameInv /\ PlaceInv
  BY DEF CoreInv
<1>2. /\ UNCHANGED Outer /\ UNCHANGED <<skipped_one, in_fixture, reaped, fixtures, lines, failures, results_received>>
      /\ ~aborting /\ aborting' /\ pc # "off"
  BY <1>1 DEF Interrupt, AbortAfter, Outer, process, place, groups, flags, threads, bounds, Running, PlaceInv
<1>3. PICK r \in ByRunner : context' = HandleOverride(context, r)
  BY ContextRead, Dispatch DEF Interrupt, AbortAfter, Write, ByRunner
<1>4. Ruled(context, context') /\ context'.state = context.state
  BY <1>3, ContextRead, OverrideRules, OverrideHandled DEF Core
<1>5. TypeOK'
  BY <1>1, <1>2, <1>4 DEF TypeOK, Ruled, IsContext, Outer
<1>6. BlameInv'
  <2>1. resumes \in Nat
    BY <1>1, IgtCoreAssumption DEF TypeOK, IgtCoreAssumption
  <2> QED BY <1>1, <1>2, <1>4, <2>1, RuledOthers, BlameMore DEF Outer
<1> QED BY <1>1, <1>2, <1>4, <1>5, <1>6, RuledPreserves DEF PlaceInv

\* The exit code, after the verdict of a timeout perhaps.
LEMMA ReapPreserves == ASSUME CoreInv, NEW timeout \in BOOLEAN, Reap(timeout) PROVE CoreInv'
<1>1. TypeOK /\ ContextInv /\ PlaceInv /\ FreshInv /\ SuspectInv /\ ContainerInv /\ Agrees /\ ExitInv
      /\ SaidInv /\ FirstInv /\ BlameInv
  BY DEF CoreInv
<1>2. /\ UNCHANGED Outer /\ UNCHANGED <<skipped_one, in_fixture, aborting, fixtures, lines, failures, results_received>>
      /\ pc = "exited" /\ ~reaped /\ reaped'
  BY DEF Reap, Outer, process, place, groups, flags, threads, bounds
<1>3. ASSUME IsContext(context') PROVE TypeOK'
  BY <1>1, <1>2, <1>3 DEF TypeOK, IsContext, Outer
<1>4. CASE aborting
  <2>1. context' = context
    BY <1>4 DEF Reap
  <2>2. Ruled(context, context')
    BY <2>1, ContextRead DEF Ruled
  <2>3. BlameInv'
    BY <1>1, <1>2, <1>4, <2>1 DEF BlameInv, Blame, Outer
  <2> QED BY <1>2, <1>3, <2>1, <2>2, <2>3, RuledPreserves DEF Ruled
<1>5. CASE ~aborting
  <2> DEFINE c == IF timeout THEN HandleOverride(context, "timeout") ELSE context
  <2>1. IsContext(context) /\ Readable(context)
    BY ContextRead
  <2>2. Ruled(context, c) /\ c.state = context.state /\ Readable(c) /\ IsContext(c)
    <3>1. CASE timeout
      <4>1. "timeout" \in ByRunner
        BY DEF ByRunner
      <4>2. Ruled(context, HandleOverride(context, "timeout"))
        BY <2>1, <4>1, OverrideRules
      <4>3. HandleOverride(context, "timeout").state = context.state
        BY <2>1, <4>1, OverrideHandled DEF Core
      <4> QED BY <2>1, <3>1, <4>2, <4>3 DEF Ruled, Readable
    <3>2. CASE ~timeout
      BY <2>1, <3>2 DEF Ruled
    <3> QED BY <3>1, <3>2
  <2>3. context' = HandleExit(c, exitcode)
    <3>1. context' = Handle(c, ExitPacket(exitcode))
      BY <1>5, <2>1, Dispatch DEF Reap
    <3> HIDE DEF c
    <3> QED BY <2>2, <3>1, Dispatch
  <2> HIDE DEF c
  <2>4. c.test = None <=> c.state = "exec"
    <3>1. context.state # "initial"
      BY <1>1, <1>2 DEF PlaceInv
    <3> QED BY <1>1, <2>2, <3>1 DEF ContextInv, Ruled
  <2>5. resumes \in Nat /\ resumes' = resumes
    BY <1>2, StillRunning DEF Outer
  <2>6. CASE context.state # "exec"
    <3>1. /\ IsContext(context') /\ context'.state = "exited" /\ context'.test = c.test
          /\ context'.dynamic = c.dynamic /\ context'.results = c.results
          /\ context'.result \in {c.result, "abort"} /\ context'.dynamicresult \in {c.dynamicresult, "abort"}
      BY <2>2, <2>3, <2>4, <2>6, ExitHandled DEF Core
    <3>2. Ruled(context, context')
      BY <2>2, <3>1 DEF Ruled, ByRunner
    <3>3. BlameInv'
      BY <1>1, <1>2, <1>5, <2>5, <3>2, RuledOthers, BlameMore
    <3>4. context.state # "initial"
      BY <1>1, <1>2 DEF PlaceInv
    <3> QED BY <1>2, <1>3, <2>6, <3>1, <3>2, <3>3, <3>4, RuledPreserves
  <2>7. CASE context.state = "exec"
    <3> DEFINE q == IF c.result = None THEN ResultFromExitcode(exitcode) ELSE c.result
    <3>1. PICK t \in {EntryFirst, Binary} \ {None} :
            Core(context', "exited", t, c.dynamic, q, c.dynamicresult, c.results)
      BY <2>2, <2>3, <2>4, <2>7, ExitHandled
    <3>2. q \in {"skip", "fail"} \cup ByRunner
      <4>1. exitcode \in {"invalid", "signal", "abort"}
        BY <1>1, <1>2, <2>7 DEF ExitInv
      <4>2. ResultFromExitcode(exitcode) \in {"skip", "fail", "abort"}
        BY <4>1 DEF ResultFromExitcode
      <4>3. c.result \in Undecided
        BY <1>1, <2>2, <2>7 DEF Ruled, ContextInv, Undecided
      <4> QED BY <4>2, <4>3 DEF Undecided, ByRunner
    <3> HIDE DEF q
    <3>3. /\ IsContext(context') /\ context'.state = "exited" /\ context'.test = t
          /\ context'.dynamic = context.dynamic /\ context'.results = context.results /\ context'.result = q
          /\ context'.dynamicresult \in {context.dynamicresult} \cup ByRunner
      BY <2>2, <3>1 DEF Core, Ruled
    <3>4. context.test = None
      BY <1>1, <2>7 DEF ContextInv
    <3>5. Now(context', t) = q
      BY <3>2, <3>3, NewVerdict, NamesApart DEF Now, OrIncomplete, Results
    <3>6. ASSUME NEW n \in Names \cup Dynamics, n # t
          PROVE  Now(context', n) = Now(context, n) \/ Now(context', n) \in ByRunner
      <4>1. ASSUME NEW r \in ByRunner PROVE OrIncomplete(r) = r
        BY NewVerdict DEF OrIncomplete
      <4>2. n # context.test
        BY <3>4, NamesApart
      <4> QED BY <3>3, <3>6, <4>1, <4>2 DEF Now
    <3>7. t \in Names \cup {Binary} /\ t \notin Dynamics
      BY NamesApart, IgtCoreAssumption DEF IgtCoreAssumption
    <3>8. Others(context', Names) \subseteq Others(context, Names)
          /\ Others(context', Dynamics) \subseteq Others(context, Dynamics)
      BY <3>3, <3>4, NamesApart DEF Others
    <3>9. BlameInv'
      BY <1>1, <1>2, <1>5, <2>5, <3>8, BlameMore
    <3>10. ContextInv'
      <4>1. context.dynamic # None => context.results[context.dynamic] = None
        BY <1>1 DEF ContextInv
      <4> QED BY <3>1, <3>3, <4>1 DEF ContextInv
    <3>11. PlaceInv'
      BY <1>1, <1>2, <3>3 DEF PlaceInv, Outer
    <3>12. FreshInv'
      BY <1>1, <1>2, <3>3 DEF FreshInv, Unheard, Outer
    <3>13. SaidInv'
      <4> SUFFICES ASSUME NEW n \in Names \cup Dynamics, said[n] # None, ~Replaced(n)
                   PROVE  Now(context', n) \in {said[n]} \cup ByRunner \cup (IF Dropped(n) THEN {None} ELSE {})
        BY <1>2 DEF SaidInv, Replaced, Dropped, Outer
      <4>1. n # t
        <5>1. CASE resumes = 0
          BY <1>1, <2>7, <5>1 DEF FirstInv
        <5>2. CASE resumes # 0
          <6>1. n # EntryFirst /\ n # Binary
            BY <2>5, <5>2, NamesApart DEF Replaced
          <6> QED BY <6>1
        <5> QED BY <5>1, <5>2
      <4> QED BY <1>1, <3>6, <4>1 DEF SaidInv
    <3>14. FirstInv'
      BY <3>3 DEF FirstInv
    <3>15. q # "pass"
      BY <3>2, Verdicts
    <3>16. ContainerInv'
      <4>1. ASSUME NEW s \in Names, NEW k \in 1..MaxDynamics, Now(context', s) = "pass"
            PROVE  Now(context', <<s, k>>) # "fail"
        <5>1. s # t
          BY <3>5, <3>15, <4>1
        <5>2. <<s, k>> \in Dynamics /\ <<s, k>> # t
          BY <3>7 DEF Dynamics
        <5>3. Now(context, s) = "pass"
          BY <3>6, <4>1, <5>1, Verdicts
        <5>4. Now(context', <<s, k>>) = Now(context, <<s, k>>) \/ Now(context', <<s, k>>) \in ByRunner
          BY <3>6, <5>2
        <5> QED BY <1>1, <5>3, <5>4, Verdicts DEF ContainerInv
      <4> QED BY <1>2, <4>1 DEF ContainerInv
    <3>17. SuspectInv'
      <4>1. ASSUME NEW n \in suspects PROVE Now(context', n) # "pass"
        <5>1. n \in Names \cup Dynamics /\ Now(context, n) # "pass"
          BY <1>1 DEF TypeOK, SuspectInv
        <5> QED BY <3>5, <3>6, <3>15, <5>1, Verdicts
      <4> QED BY <1>1, <1>2, <4>1 DEF SuspectInv, Here, Outer
    <3>18. ExitInv'
      BY <1>1, <1>2, <3>3 DEF ExitInv, Outer
    <3>19. Agrees'
      <4>1. exitcode \in {"invalid", "signal", "abort"}
        BY <1>1, <1>2, <2>7 DEF ExitInv
      <4> QED BY <1>2, <4>1 DEF Agrees, Outer
    <3> QED BY <1>3, <3>3, <3>9, <3>10, <3>11, <3>12, <3>13, <3>14, <3>16, <3>17, <3>18, <3>19 DEF CoreInv
  <2> QED BY <2>6, <2>7
<1> QED BY <1>4, <1>5

\* The test is executed, once more perhaps.
LEMMA ExecPreserves ==
  ASSUME CoreInv, NEW left, left \subseteq DOMAIN Subtests, Exec(left), resumes' \in 0..MaxResumes,
         \A i \in left : Subtests[i] \notin begun, ~reaped,
         (resumes' = resumes /\ pc = "off") \/ resumes' = resumes + 1
  PROVE  CoreInv'
<1>1. TypeOK /\ ContextInv /\ PlaceInv /\ FreshInv /\ SuspectInv /\ ContainerInv /\ Agrees /\ ExitInv
      /\ SaidInv /\ FirstInv /\ BlameInv
  BY DEF CoreInv
<1>2. /\ pc' = "running" /\ exitcode' = "success" /\ todo' = left /\ found' = (left # {})
      /\ in_fixture' = FALSE /\ in_subtest' = None /\ in_dynamic_subtest' = None
      /\ executed' = -1 /\ entered' = 0 /\ henceforth' = "no" /\ saved' = "none"
      /\ skipped_one' = FALSE /\ succeeded_one' = FALSE /\ failed_one' = FALSE
      /\ dynamic_failed_one' = FALSE /\ thread_failed' = FALSE
      /\ aborting' = FALSE /\ results_received' = FALSE
      /\ UNCHANGED <<fixtures, lines, failures, suspects, said, reaped, begun>>
  BY DEF Exec
<1>3. context' = HandleExec(context)
  BY ContextRead, Dispatch DEF Exec, Write
<1>4. /\ IsContext(context') /\ context'.state = "exec" /\ context'.test = None
      /\ context'.dynamic = context.dynamic /\ context'.dynamicresult = context.dynamicresult
      /\ context'.result \in {context.result, None} /\ (context.test # None => context'.result = None)
      /\ Says(context, context') /\ \A n \in Dynamics : context'.results[n] = context.results[n]
  <2>1. IsContext(context) /\ (context.test = None <=> context.state \in {"initial", "exec"})
    BY <1>1 DEF ContextInv
  <2> QED BY <1>3, <2>1, ExecHandled
<1>5. \A n \in Names \cup Dynamics : Now(context', n) = Now(context, n)
  BY <1>4 DEF Says
<1>6. resumes \in Nat /\ resumes' \in Nat /\ resumes' >= resumes
  BY StillRunning
<1>7. resumes' = 0 => pc = "off" /\ resumes = 0
  BY <1>6
<1>8. TypeOK'
  <2>1. -1 \in -1..MaxDynamics /\ 0 \in 0..MaxDynamics /\ -1 <= 0
    BY IgtCoreAssumption DEF IgtCoreAssumption
  <2> QED BY <1>1, <1>2, <1>4, <2>1 DEF TypeOK, IsContext
<1>9. ContextInv'
  <2>1. context'.result \in Undecided
    BY <1>1, <1>4 DEF ContextInv, Undecided
  <2>2. context'.dynamic # None => context'.results[context'.dynamic] = None
    BY <1>1, <1>4 DEF ContextInv, IsContext
  <2>3. resumes' = 0 => context'.dynamic = None
    BY <1>1, <1>4, <1>7 DEF ContextInv, PlaceInv
  <2> QED BY <1>4, <2>1, <2>2, <2>3 DEF ContextInv
<1>10. PlaceInv'
  BY <1>2, <1>4 DEF PlaceInv
<1>11. FreshInv'
  <2>1. \A s \in Names, k \in 1..MaxDynamics : Unheard(<<s, k>>) => Unheard(<<s, k>>)'
    BY <1>2, <1>4 DEF Unheard, Dynamics
  <2> QED BY <1>1, <1>2, <2>1 DEF FreshInv
<1>12. SaidInv'
  <2> SUFFICES ASSUME NEW n \in Names \cup Dynamics, said[n] # None, ~Replaced(n)'
               PROVE  Now(context', n) \in {said[n]} \cup ByRunner \cup (IF Dropped(n)' THEN {None} ELSE {})
    BY <1>2 DEF SaidInv
  <2>1. ~Replaced(n) /\ (Dropped(n) => Dropped(n)')
    BY <1>6 DEF Replaced, Dropped
  <2> QED BY <1>1, <1>5, <2>1 DEF SaidInv
<1>13. FirstInv'
  BY <1>1, <1>2, <1>7 DEF FirstInv, PlaceInv
<1>14. ContainerInv'
  <2>1. \A s \in Names, k \in 1..MaxDynamics : <<s, k>> \in Dynamics
    BY DEF Dynamics
  <2> QED BY <1>1, <1>2, <1>5, <2>1 DEF ContainerInv
<1>15. SuspectInv'
  BY <1>1, <1>2, <1>5 DEF SuspectInv, TypeOK
<1>16. ExitInv'
  BY <1>2 DEF ExitInv
<1>17. Agrees'
  <2> SUFFICES ASSUME resumes' = 0, NEW s \in Names
               PROVE  Now(context', s) \notin {"fail", "crash", "pass", "incomplete"}
    BY <1>2 DEF Agrees
  <2>1. context.state = "initial" /\ context.results[s] = None
    BY <1>1, <1>7 DEF PlaceInv
  <2>2. context.test = None /\ context.dynamic \in Dynamics \cup {None}
    BY <1>1, <2>1 DEF ContextInv, IsContext
  <2>3. Now(context, s) = None
    BY <2>1, <2>2, NamesApart DEF Now
  <2>4. None \notin {"fail", "crash", "pass", "incomplete"}
    BY NamesApart DEF Results
  <2> QED BY <1>5, <2>3, <2>4
<1>18. BlameInv'
  <2>1. ASSUME NEW set \in {Names, Dynamics}, NEW r, NEW q, Blame(set, r),
               Total(context', set, q) <= Total(context, set, r)
        PROVE  /\ Total(context', set, q) <= resumes' + 1
               /\ Cardinality(Others(context', set)) <= resumes'
               /\ Total(context', set, q) <= resumes'
    <3>1. /\ Total(context', set, q) \in Nat /\ Total(context, set, r) \in Nat
          /\ Cardinality(Others(context', set)) \in Nat
      BY TotalInt, OthersFinite
    <3>2. Cardinality(Others(context', set)) <= Total(context', set, q)
      BY <3>1 DEF Total, One
    <3>3. Total(context, set, r) <= resumes'
      <4>1. CASE pc = "off" /\ resumes' = resumes
        BY <1>1, <2>1, <4>1 DEF PlaceInv, Blame
      <4>2. CASE resumes' = resumes + 1
        BY <2>1, <4>2 DEF Blame
      <4> QED BY <4>1, <4>2
    <3> QED BY <1>6, <2>1, <3>1, <3>2, <3>3
  <2>2. /\ Total(context', Names, context'.result) <= Total(context, Names, context.result)
        /\ Total(context', Dynamics, context'.dynamicresult) <= Total(context, Dynamics, context.dynamicresult)
    BY <1>4 DEF Says, Counts
  <2>3. Blame(Names, context.result)'
    BY <1>1, <2>1, <2>2 DEF BlameInv, Blame
  <2>4. Blame(Dynamics, context.dynamicresult)'
    BY <1>1, <2>1, <2>2 DEF BlameInv, Blame
  <2> QED BY <2>3, <2>4 DEF BlameInv
<1> QED BY <1>8, <1>9, <1>10, <1>11, <1>12, <1>13, <1>14, <1>15, <1>16, <1>17, <1>18 DEF CoreInv

LEMMA StartPreserves == ASSUME CoreInv, Start PROVE CoreInv'
<1>1. begun = {} /\ ~reaped
  BY DEF CoreInv, PlaceInv, Start
<1>2. resumes' = resumes /\ resumes \in 0..MaxResumes
  BY DEF Start, CoreInv, TypeOK
<1> QED BY <1>1, <1>2, ExecPreserves DEF Start

LEMMA ResumePreserves == ASSUME CoreInv, Resume PROVE CoreInv'
<1>1. resumes' = resumes + 1 /\ resumes \in 0..MaxResumes /\ resumes < MaxResumes /\ MaxResumes \in Nat
  BY IgtCoreAssumption DEF Resume, CoreInv, TypeOK, IgtCoreAssumption
<1>2. resumes' \in 0..MaxResumes
  BY <1>1
<1> QED BY <1>1, <1>2, ExecPreserves DEF Resume

-----------------------------------------------------------------------------
(* Subtests begin.                                                         *)

\* A start, after the verdict of an abort perhaps, which is the only new one.
LEMMA StartSent ==
  ASSUME CoreInv, Running, NEW p, SendStart(p),
         p.type \in {"subtest start", "dynamic start"}
  PROVE  /\ aborting' \in BOOLEAN /\ results_received' = results_received /\ reaped' = reaped
         /\ \E d : /\ Ruled(context, d) /\ d.state = context.state /\ context' = Handle(d, p)
                   /\ Total(d, Names, d.result) <= resumes + 1
                   /\ Total(d, Dynamics, d.dynamicresult) <= resumes + 1
                   /\ ~aborting' => /\ Total(d, Names, d.result) <= resumes
                                    /\ Total(d, Dynamics, d.dynamicresult) <= resumes
<1>1. TypeOK /\ BlameInv /\ ~reaped /\ resumes \in Nat /\ IsContext(context) /\ Readable(context)
  BY StillRunning, ContextRead DEF CoreInv
<1>2. CASE Send(p)
  <2>1. aborting' = aborting /\ results_received' = results_received /\ reaped' = reaped
    BY <1>1, <1>2 DEF Send, TypeOK
  <2>2. Ruled(context, context) /\ context' = Handle(context, p)
    BY <1>1, <1>2 DEF Send, Write, Ruled
  <2>3. /\ Total(context, Names, context.result) <= resumes + 1
        /\ Total(context, Dynamics, context.dynamicresult) <= resumes + 1
        /\ ~aborting => /\ Total(context, Names, context.result) <= resumes
                        /\ Total(context, Dynamics, context.dynamicresult) <= resumes
    BY <1>1 DEF BlameInv, Blame
  <2> QED BY <1>1, <2>1, <2>2, <2>3 DEF TypeOK
<1>3. CASE AbortBefore(p)
  <2>1. /\ ~aborting /\ aborting' /\ aborting' \in BOOLEAN /\ results_received' = results_received /\ reaped' = reaped
        /\ context' = Handle(Handle(context, OverridePacket("abort")), p)
    BY <1>3 DEF AbortBefore
  <2> DEFINE d == HandleOverride(context, "abort")
  <2>2. context' = Handle(d, p)
    BY <1>1, <2>1, Dispatch
  <2>3. "abort" \in ByRunner
    BY DEF ByRunner
  <2>4. Ruled(context, d) /\ d.state = context.state
    BY <1>1, <2>3, OverrideRules, OverrideHandled DEF Core
  <2> HIDE DEF d
  <2>5. \A set : Others(d, set) = Others(context, set)
    BY <2>4, RuledOthers
  <2>6. Total(d, Names, d.result) <= resumes + 1 /\ Total(d, Dynamics, d.dynamicresult) <= resumes + 1
    BY <1>1, <2>1, <2>5, MayBlame
  <2> QED BY <2>1, <2>2, <2>4, <2>6
<1> QED BY <1>2, <1>3 DEF SendStart

LEMMA StartBlame ==
  ASSUME NEW d, Counts(d, context'), resumes \in Nat, resumes' = resumes, ~reaped,
         Total(d, Names, d.result) <= resumes + 1, Total(d, Dynamics, d.dynamicresult) <= resumes + 1,
         ~aborting' => /\ Total(d, Names, d.result) <= resumes
                       /\ Total(d, Dynamics, d.dynamicresult) <= resumes
  PROVE  BlameInv'
<1>1. ASSUME NEW set \in {Names, Dynamics}, NEW q, NEW r, Total(context', set, q) <= Total(d, set, r),
             Total(d, set, r) <= resumes + 1, ~aborting' => Total(d, set, r) <= resumes
      PROVE  /\ Total(context', set, q) <= resumes' + 1
             /\ ~aborting' => Cardinality(Others(context', set)) <= resumes' /\ Total(context', set, q) <= resumes'
  <2>1. /\ Total(context', set, q) \in Nat /\ Total(d, set, r) \in Nat
        /\ Cardinality(Others(context', set)) \in Nat
    BY TotalInt, OthersFinite
  <2>2. Cardinality(Others(context', set)) <= Total(context', set, q)
    BY <2>1 DEF Total, One
  <2> QED BY <1>1, <2>1, <2>2
<1>2. /\ Total(context', Names, context'.result) <= Total(d, Names, d.result)
      /\ Total(context', Dynamics, context'.dynamicresult) <= Total(d, Dynamics, d.dynamicresult)
  BY DEF Counts
<1>3. Blame(Names, context.result)'
  BY <1>1, <1>2 DEF Blame
<1>4. Blame(Dynamics, context.dynamicresult)'
  BY <1>1, <1>2 DEF Blame
<1> QED BY <1>3, <1>4 DEF BlameInv

\* What a subtest that is come to was not said to be yet.
LEMMA NewSubtest ==
  ASSUME CoreInv, NEW i, Comes(i)
  PROVE  LET s == Subtests[i]
         IN /\ i \in DOMAIN Subtests /\ s \in Names /\ s # None /\ s \notin begun /\ s \notin suspects
            /\ s \notin Dynamics
            /\ \A k \in 1..MaxDynamics : Unheard(<<s, k>>) /\ Now(context, <<s, k>>) = None
            /\ todo' = todo \ {i} /\ \A j \in todo' : Subtests[j] \notin begun /\ Subtests[j] # s
            /\ Running /\ in_subtest = None /\ in_dynamic_subtest = None /\ ~in_fixture /\ executed = -1
            /\ ~reaped /\ context.state \in {"exec", "between"} /\ IsContext(context)
            /\ context.test = None <=> context.state = "exec"
<1> DEFINE s == Subtests[i]
<1>1. TypeOK /\ ContextInv /\ PlaceInv /\ FreshInv
  BY DEF CoreInv
<1>2. Running /\ ~in_fixture /\ in_subtest = None /\ i \in todo /\ todo' = todo \ {i}
  BY DEF Comes, Outside
<1>3. i \in DOMAIN Subtests /\ s \in Names /\ s # None /\ s \notin Dynamics
  BY <1>1, <1>2, NamesApart DEF TypeOK, Names
<1>4. s \notin begun /\ s \notin suspects /\ \A k \in 1..MaxDynamics : Unheard(<<s, k>>)
  BY <1>1, <1>2, <1>3 DEF FreshInv
<1>5. \A j \in todo' : Subtests[j] \notin begun /\ Subtests[j] # s
  <2>1. \A j, l \in DOMAIN Subtests : Subtests[j] = Subtests[l] => j = l
    BY IgtCoreAssumption DEF IgtCoreAssumption
  <2> QED BY <1>1, <1>2, <1>3, <2>1 DEF TypeOK, FreshInv
<1>6. in_dynamic_subtest = None /\ executed = -1
  BY <1>1, <1>2 DEF TypeOK
<1>7. ~reaped
  BY <1>2, StillRunning
<1>8. context.state \in {"exec", "between"} /\ IsContext(context) /\ (context.test = None <=> context.state = "exec")
  BY <1>1, <1>2, <1>7 DEF PlaceInv, ContextInv, Running
<1>9. ASSUME NEW k \in 1..MaxDynamics PROVE Now(context, <<s, k>>) = None
  <2>1. <<s, k>> \in Dynamics
    BY <1>3 DEF Dynamics
  <2>2. context.test # <<s, k>>
    BY <1>8, <2>1, NamesApart DEF IsContext
  <2> QED BY <1>4, <2>2 DEF Unheard, Now
<1> QED BY <1>2, <1>3, <1>4, <1>5, <1>6, <1>7, <1>8, <1>9

LEMMA SkipSubtestPreserves == ASSUME CoreInv, NEW i, SkipSubtest(i) PROVE CoreInv'
<1> DEFINE s == Subtests[i]
<1>1. TypeOK /\ ContextInv /\ PlaceInv /\ FreshInv /\ SuspectInv /\ ContainerInv /\ Agrees /\ ExitInv
      /\ SaidInv /\ FirstInv /\ BlameInv
  BY DEF CoreInv
<1>2. /\ s \in Names /\ s # None /\ s \notin Dynamics /\ todo' = todo \ {i}
      /\ Running /\ in_subtest = None /\ in_dynamic_subtest = None /\ executed = -1
      /\ ~reaped /\ context.state \in {"exec", "between"} /\ IsContext(context)
      /\ context.test = None <=> context.state = "exec"
  BY NewSubtest DEF SkipSubtest
<1>3. /\ UNCHANGED <<pc, exitcode, found, in_fixture, in_subtest, in_dynamic_subtest, executed, entered,
                     henceforth, saved, skipped_one, succeeded_one, failed_one, dynamic_failed_one,
                     thread_failed, suspects, fixtures, lines, failures, resumes, begun, aborting, reaped>>
      /\ results_received' = TRUE
  BY DEF SkipSubtest, Send, place, groups, flags, bounds, Packet
<1>4. henceforth \in {"SKIP", "FAIL"} /\ said' = [said EXCEPT ![s] = Mapped(henceforth)]
  BY <1>1 DEF SkipSubtest, TypeOK
<1>5. context' = HandleSubtestResult(context, s, henceforth)
  BY ContextRead, Dispatch DEF SkipSubtest, Send, Write
<1> HIDE DEF s
<1> DEFINE q == IF context.state = "exec" THEN Given(context.result, henceforth) ELSE Mapped(henceforth)
<1>6. context.state = "exec" => context.result \in Undecided
  BY <1>1 DEF ContextInv
<1>7. /\ Turns(context, context', s, q) /\ context'.state = "between" /\ context'.dynamic = context.dynamic
      /\ \A n \in Dynamics : context'.results[n] = context.results[n]
  BY <1>2, <1>4, <1>5, <1>6, SkipHandled
<1>8. q \in {Mapped(henceforth)} \cup ByRunner /\ q # None /\ OrIncomplete(q) = q
  <2>1. CASE context.state = "exec"
    BY <1>4, <1>6, <2>1, GivenResult
  <2>2. CASE context.state # "exec"
    <3>1. None \in Undecided /\ Given(None, henceforth) = Mapped(henceforth)
      BY DEF Undecided, Given
    <3> QED BY <1>4, <2>2, <3>1, GivenResult
  <2> QED BY <2>1, <2>2
<1> HIDE DEF q
<1>9. /\ IsContext(context') /\ context'.test = s /\ context'.result = q /\ Now(context', s) = q
      /\ \A n \in Names \cup Dynamics : n # s => Now(context', n) = Now(context, n)
      /\ Counts(context, context')
  BY <1>7, <1>8 DEF Turns
<1>10. \A n \in Names \cup Dynamics : n # s => said'[n] = said[n]
  BY <1>1, <1>4 DEF TypeOK
<1>11. said'[s] = Mapped(henceforth)
  BY <1>1, <1>2, <1>4 DEF TypeOK
<1>12. /\ Mapped(henceforth) \in {"skip", "fail"} /\ Mapped(henceforth) \in Results
       /\ Mapped(henceforth) = "fail" => henceforth = "FAIL"
  BY <1>4 DEF Mapped, Results
<1>13. q \in {"skip", "fail"} \cup ByRunner /\ (q = "fail" => henceforth = "FAIL")
  BY <1>8, <1>12, Verdicts
<1>14. TypeOK'
  <2>1. said' \in [Names \cup Dynamics -> Results \cup {None}]
    BY <1>1, <1>2, <1>4, <1>12 DEF TypeOK
  <2>2. context'.results \in [Names \cup Dynamics \cup {Binary} -> Results \cup {None}]
    BY <1>9 DEF IsContext
  <2> QED BY <1>1, <1>2, <1>3, <2>1, <2>2 DEF TypeOK
<1>15. ContextInv'
  <2>1. context.dynamic # None => context'.results[context.dynamic] = None
    BY <1>1, <1>2, <1>7 DEF ContextInv, IsContext
  <2> QED BY <1>2, <1>7, <1>8, <1>9, <2>1 DEF ContextInv
<1>16. PlaceInv'
  BY <1>2, <1>3, <1>7 DEF PlaceInv, Running
<1>17. FreshInv'
  <2>1. \A n \in Names, k \in 1..MaxDynamics : Unheard(<<n, k>>) => Unheard(<<n, k>>)'
    <3>1. \A d \in Dynamics : Unheard(d) => Unheard(d)'
      BY <1>2, <1>3, <1>7, <1>10 DEF Unheard
    <3> QED BY <3>1 DEF Dynamics
  <2> QED BY <1>1, <1>2, <1>3, <2>1 DEF FreshInv, TypeOK
<1>18. SaidInv'
  <2> SUFFICES ASSUME NEW n \in Names \cup Dynamics, said'[n] # None, ~Replaced(n)
               PROVE  Now(context', n) \in {said'[n]} \cup ByRunner \cup (IF Dropped(n) THEN {None} ELSE {})
    BY <1>3 DEF SaidInv, Replaced, Dropped
  <2>1. CASE n = s
    BY <1>8, <1>9, <1>11, <2>1
  <2>2. CASE n # s
    BY <1>1, <1>9, <1>10, <2>2 DEF SaidInv
  <2> QED BY <2>1, <2>2
<1>19. FirstInv'
  BY <1>7 DEF FirstInv
<1>20. ContainerInv'
  <2>1. ASSUME NEW n \in Names, NEW k \in 1..MaxDynamics, Now(context', n) = "pass"
        PROVE  Now(context', <<n, k>>) # "fail"
    <3>1. n # s
      BY <1>9, <1>13, <2>1, Verdicts
    <3>2. <<n, k>> \in Dynamics /\ <<n, k>> # s
      BY <1>2 DEF Dynamics
    <3> QED BY <1>1, <1>9, <2>1, <3>1, <3>2 DEF ContainerInv
  <2> QED BY <1>2, <1>3, <2>1 DEF ContainerInv
<1>21. SuspectInv'
  <2>1. ASSUME NEW n \in suspects PROVE Now(context', n) # "pass"
    <3>1. n \in Names \cup Dynamics /\ Now(context, n) # "pass"
      BY <1>1 DEF TypeOK, SuspectInv
    <3> QED BY <1>9, <1>13, <3>1, Verdicts
  <2> QED BY <1>1, <1>2, <1>3, <2>1 DEF SuspectInv
<1>22. ExitInv'
  BY <1>1, <1>2, <1>3, <1>7 DEF ExitInv, Running
<1>23. Agrees'
  <2> SUFFICES ASSUME resumes = 0, NEW n \in Names
               PROVE  /\ Now(context', n) \in {"fail", "crash"} => failed_one
                      /\ Now(context', n) = "pass" => succeeded_one
                      /\ Now(context', n) # "incomplete"
    BY <1>2, <1>3 DEF Agrees, Running
  <2>1. CASE n = s
    <3>1. henceforth = "FAIL" => failed_one
      BY <1>1 DEF ExitInv
    <3> QED BY <1>9, <1>13, <2>1, <3>1, Verdicts
  <2>2. CASE n # s
    <3>1. /\ Now(context, n) \in {"fail", "crash"} => failed_one
          /\ Now(context, n) = "pass" => succeeded_one
          /\ Now(context, n) = "incomplete" => in_subtest = n
      BY <1>1, <1>2 DEF Agrees, Running
    <3>2. n # None
      BY NamesApart
    <3> QED BY <1>2, <1>9, <2>2, <3>1, <3>2
  <2> QED BY <2>1, <2>2
<1>24. BlameInv'
  BY <1>1, <1>2, <1>3, <1>9, StillRunning, BlameLess
<1> QED BY <1>14, <1>15, <1>16, <1>17, <1>18, <1>19, <1>20, <1>21, <1>22, <1>23, <1>24 DEF CoreInv

LEMMA RunSubtestPreserves == ASSUME CoreInv, NEW i, RunSubtest(i) PROVE CoreInv'
<1> DEFINE s == Subtests[i]
<1>1. TypeOK /\ ContextInv /\ PlaceInv /\ FreshInv /\ SuspectInv /\ ContainerInv /\ Agrees /\ ExitInv
      /\ SaidInv /\ FirstInv /\ BlameInv
  BY DEF CoreInv
<1>2. /\ s \in Names /\ s # None /\ s \notin Dynamics /\ s \notin begun /\ s \notin suspects
      /\ \A k \in 1..MaxDynamics : Unheard(<<s, k>>) /\ Now(context, <<s, k>>) = None
      /\ todo' = todo \ {i} /\ \A j \in todo' : Subtests[j] \notin begun /\ Subtests[j] # s
  BY NewSubtest DEF RunSubtest
<1>3. /\ Running /\ in_subtest = None /\ in_dynamic_subtest = None /\ ~in_fixture /\ executed = -1
      /\ ~reaped /\ context.state \in {"exec", "between"} /\ IsContext(context)
      /\ context.test = None <=> context.state = "exec"
  BY NewSubtest DEF RunSubtest
<1>4. /\ UNCHANGED <<pc, exitcode, found, in_fixture, in_dynamic_subtest, henceforth, saved, skipped_one,
                     succeeded_one, failed_one, suspects, fixtures, lines, failures, resumes>>
      /\ in_subtest' = s /\ begun' = begun \cup {s} /\ said' = [said EXCEPT ![s] = None]
      /\ thread_failed' = FALSE /\ entered' = 0
      /\ SendStart(Packet("subtest start", s, None))
  BY DEF RunSubtest, groups, bounds
<1>5. /\ s \in Containers => executed' = 0 /\ dynamic_failed_one' = FALSE
      /\ s \notin Containers => executed' = executed /\ dynamic_failed_one' = dynamic_failed_one
  BY DEF RunSubtest
<1> HIDE DEF s
<1>6. Packet("subtest start", s, None).type \in {"subtest start", "dynamic start"}
  BY DEF Packet
<1>7. /\ aborting' \in BOOLEAN /\ results_received' = results_received /\ reaped' = reaped
      /\ \E d : /\ Ruled(context, d) /\ d.state = context.state
                /\ context' = Handle(d, Packet("subtest start", s, None))
                /\ Total(d, Names, d.result) <= resumes + 1
                /\ Total(d, Dynamics, d.dynamicresult) <= resumes + 1
                /\ ~aborting' => /\ Total(d, Names, d.result) <= resumes
                                 /\ Total(d, Dynamics, d.dynamicresult) <= resumes
  BY <1>3, <1>4, <1>6, StartSent
<1>8. PICK d : /\ Ruled(context, d) /\ d.state = context.state
               /\ context' = Handle(d, Packet("subtest start", s, None))
               /\ Total(d, Names, d.result) <= resumes + 1
               /\ Total(d, Dynamics, d.dynamicresult) <= resumes + 1
               /\ ~aborting' => /\ Total(d, Names, d.result) <= resumes
                                /\ Total(d, Dynamics, d.dynamicresult) <= resumes
  BY <1>7
<1>9. context' = HandleSubtestStart(d, s)
  <2>1. Readable(d)
    BY <1>3, <1>8 DEF Readable
  <2> QED BY <1>8, <2>1, Dispatch
<1>10. /\ IsContext(d) /\ d.test = context.test /\ d.dynamic = context.dynamic /\ d.results = context.results
  BY <1>8 DEF Ruled
<1>11. /\ Turns(d, context', s, None) /\ context'.state = "subtest"
       /\ context'.dynamic = IF context.state = "exec" THEN context.dynamic ELSE None
       /\ context.state = "exec" => context'.results = context.results
  <2>1. d.state \in {"exec", "between"} /\ (d.test = None <=> d.state = "exec") /\ d.state = context.state
    BY <1>3, <1>8, <1>10
  <2>2. LET e == HandleSubtestStart(d, s)
        IN /\ Turns(d, e, s, None) /\ e.state = "subtest"
           /\ e.dynamic = IF d.state = "exec" THEN d.dynamic ELSE None
           /\ d.state = "exec" => e.results = d.results
    BY <1>2, <1>10, <2>1, StartHandled
  <2> QED BY <1>9, <1>10, <2>1, <2>2
<1>12. /\ IsContext(context') /\ context'.test = s /\ context'.result = None /\ Now(context', s) = "incomplete"
       /\ \A n \in Names \cup Dynamics : n # s => Now(context', n) = Now(d, n)
       /\ \A n \in Dynamics : n # context.dynamic => context'.results[n] = context.results[n]
       /\ Counts(d, context')
  BY <1>10, <1>11, NewVerdict DEF Turns
<1>13. \A n \in Names \cup Dynamics :
         n # s => Now(context', n) = Now(context, n) \/ Now(context', n) \in ByRunner
  BY <1>8, <1>12, RuledNow
<1>14. \A n \in Names \cup Dynamics : n # s => said'[n] = said[n]
  BY <1>1, <1>4 DEF TypeOK
<1>15. said'[s] = None
  BY <1>1, <1>2, <1>4 DEF TypeOK
<1>16. TypeOK'
  <2>1. said' \in [Names \cup Dynamics -> Results \cup {None}]
    BY <1>1, <1>4 DEF TypeOK
  <2>2. context'.results \in [Names \cup Dynamics \cup {Binary} -> Results \cup {None}]
    BY <1>12 DEF IsContext
  <2>3. executed' \in -1..MaxDynamics /\ executed' <= 0 /\ entered' \in 0..MaxDynamics
    <3>1. executed' = 0 \/ executed' = -1
      BY <1>3, <1>5
    <3>2. entered' = 0 /\ MaxDynamics \in Nat
      BY <1>4, IgtCoreAssumption DEF IgtCoreAssumption
    <3> QED BY <3>1, <3>2
  <2>4. begun' \subseteq Names /\ todo' \subseteq DOMAIN Subtests
    BY <1>1, <1>2, <1>4 DEF TypeOK
  <2>5. dynamic_failed_one' \in BOOLEAN /\ thread_failed' \in BOOLEAN /\ aborting' \in BOOLEAN
        /\ results_received' \in BOOLEAN /\ reaped' \in BOOLEAN
    BY <1>1, <1>4, <1>5, <1>7 DEF TypeOK
  <2>6. /\ in_subtest' \in Names \cup {None} /\ ~in_fixture' /\ in_dynamic_subtest' = None /\ in_subtest' # None
        /\ executed' <= entered'
    <3>1. executed' <= 0 /\ entered' = 0
      BY <1>4, <2>3
    <3> QED BY <1>2, <1>3, <1>4, <3>1
  <2>7. /\ pc' \in {"off", "running", "exited"} /\ found' \in BOOLEAN
        /\ exitcode' \in {"success", "skip", "failure", "crash", "abort", "signal", "invalid"}
        /\ henceforth' \in {"no", "SKIP", "FAIL"} /\ saved' \in {"none", "no", "SKIP", "FAIL"}
        /\ suspects' \subseteq Names \cup Dynamics
    BY <1>1, <1>4 DEF TypeOK
  <2>9. /\ fixtures' \in 0..MaxFixtures /\ lines' \in 0..MaxLines /\ failures' \in 0..MaxFailures
        /\ resumes' \in 0..MaxResumes
    BY <1>1, <1>4 DEF TypeOK
  <2>10. skipped_one' \in BOOLEAN /\ succeeded_one' \in BOOLEAN /\ failed_one' \in BOOLEAN
    BY <1>1, <1>4 DEF TypeOK
  <2>8. in_fixture' \in BOOLEAN /\ in_dynamic_subtest' \in 1..MaxDynamics \cup {None}
    BY <1>1, <1>4 DEF TypeOK
  <2> QED BY <2>1, <2>2, <2>3, <2>4, <2>5, <2>6, <2>7, <2>8, <2>9, <2>10 DEF TypeOK
<1>17. ContextInv'
  <2>1. context'.dynamic # None => context'.results[context'.dynamic] = None
    BY <1>1, <1>11 DEF ContextInv
  <2>2. resumes' = 0 => context'.dynamic = None
    BY <1>1, <1>4, <1>11 DEF ContextInv
  <2>3. None \in Undecided
    BY DEF Undecided
  <2> QED BY <1>2, <1>11, <1>12, <2>1, <2>2, <2>3 DEF ContextInv
<1>18. PlaceInv'
  <2>1. executed' >= 0 <=> in_subtest' \in Containers
    <3>1. CASE s \in Containers
      <4>1. executed' = 0
        BY <1>5, <3>1
      <4>2. executed' >= 0
        BY <4>1
      <4>3. in_subtest' = s
        BY <1>4
      <4> QED BY <3>1, <4>2, <4>3
    <3>2. CASE s \notin Containers
      <4>1. executed' = -1 /\ ~(-1 >= 0)
        BY <1>3, <1>5, <3>2
      <4> QED BY <1>4, <3>2, <4>1
    <3> QED BY <3>1, <3>2
  <2>2. pc' = "running" /\ ~reaped' /\ in_dynamic_subtest' = None
    BY <1>3, <1>4, <1>7 DEF Running
  <2> QED BY <1>2, <1>4, <1>11, <1>12, <2>1, <2>2 DEF PlaceInv
<1>19. FreshInv'
  <2>1. ASSUME NEW n \in Names, NEW k \in 1..MaxDynamics, Unheard(<<n, k>>) PROVE Unheard(<<n, k>>)'
    <3>1. <<n, k>> \in Dynamics /\ <<n, k>> # s
      BY <1>2 DEF Dynamics
    <3>2. context'.dynamic # <<n, k>> /\ context'.results[<<n, k>>] = context.results[<<n, k>>]
      <4>1. context.dynamic # <<n, k>> /\ <<n, k>> # None
        BY <2>1, <3>1, NamesApart DEF Unheard
      <4> QED BY <1>11, <1>12, <3>1, <4>1
    <3> QED BY <1>4, <1>14, <2>1, <3>1, <3>2 DEF Unheard
  <2>2. \A j \in todo' : Subtests[j] \notin begun'
    BY <1>2, <1>4
  <2>3. \A n \in Names : n \notin begun' => n \notin suspects' /\ \A k \in 1..MaxDynamics : Unheard(<<n, k>>)'
    BY <1>1, <1>4, <2>1 DEF FreshInv
  <2>4. \A k \in 1..MaxDynamics : Unheard(<<s, k>>)'
    BY <1>2, <2>1
  <2> QED BY <1>3, <1>4, <1>15, <2>2, <2>3, <2>4 DEF FreshInv
<1>20. SaidInv'
  <2> SUFFICES ASSUME NEW n \in Names \cup Dynamics, said'[n] # None, ~Replaced(n)
               PROVE  Now(context', n) \in {said'[n]} \cup ByRunner \cup (IF Dropped(n) THEN {None} ELSE {})
    BY <1>4 DEF SaidInv, Replaced, Dropped
  <2>1. n # s /\ said'[n] = said[n]
    BY <1>14, <1>15
  <2> QED BY <1>1, <1>13, <2>1 DEF SaidInv
<1>21. FirstInv'
  BY <1>11 DEF FirstInv
<1>22. ContainerInv'
  <2>1. ASSUME NEW n \in Names, NEW k \in 1..MaxDynamics, Now(context', n) = "pass"
        PROVE  Now(context', <<n, k>>) # "fail"
    <3>1. n # s
      BY <1>12, <2>1
    <3>2. <<n, k>> \in Dynamics /\ <<n, k>> # s
      BY <1>2 DEF Dynamics
    <3>3. Now(context, n) = "pass"
      BY <1>13, <2>1, <3>1, Verdicts
    <3> QED BY <1>1, <1>13, <3>2, <3>3, Verdicts DEF ContainerInv
  <2>2. ASSUME NEW k \in 1..MaxDynamics PROVE Now(context', <<s, k>>) # "fail"
    <3>1. <<s, k>> \in Dynamics /\ <<s, k>> # s
      BY <1>2 DEF Dynamics
    <3>2. Now(context', <<s, k>>) \in {None} \cup ByRunner
      BY <1>2, <1>13, <3>1
    <3>3. None # "fail"
      BY NamesApart DEF Results
    <3> QED BY <3>2, <3>3, Verdicts
  <2> QED BY <1>4, <2>1, <2>2 DEF ContainerInv
<1>23. SuspectInv'
  <2>1. ASSUME NEW n \in suspects PROVE Now(context', n) # "pass"
    <3>1. n \in Names \cup Dynamics /\ Now(context, n) # "pass" /\ n # s
      BY <1>1, <1>2 DEF TypeOK, SuspectInv
    <3> QED BY <1>13, <3>1, Verdicts
  <2>2. Here' = s
    BY <1>3, <1>4 DEF Here
  <2> QED BY <1>1, <1>2, <1>4, <2>1, <2>2 DEF SuspectInv
<1>24. ExitInv'
  BY <1>1, <1>3, <1>4, <1>11 DEF ExitInv, Running
<1>25. Agrees'
  <2> SUFFICES ASSUME resumes = 0, NEW n \in Names
               PROVE  /\ Now(context', n) \in {"fail", "crash"} => failed_one
                      /\ Now(context', n) = "pass" => succeeded_one
                      /\ Now(context', n) = "incomplete" => n = s
    BY <1>3, <1>4 DEF Agrees, Running
  <2>1. CASE n = s
    BY <1>12, <2>1
  <2>2. CASE n # s
    <3>1. /\ Now(context, n) \in {"fail", "crash"} => failed_one
          /\ Now(context, n) = "pass" => succeeded_one
          /\ Now(context, n) = "incomplete" => in_subtest = n
      BY <1>1, <1>3 DEF Agrees, Running
    <3>2. n # None
      BY NamesApart
    <3> QED BY <1>3, <1>13, <2>2, <3>1, <3>2, Verdicts
  <2> QED BY <2>1, <2>2
<1>26. BlameInv'
  BY <1>3, <1>4, <1>8, <1>12, StillRunning, StartBlame
<1> QED BY <1>16, <1>17, <1>18, <1>19, <1>20, <1>21, <1>22, <1>23, <1>24, <1>25, <1>26 DEF CoreInv

\* A dynamic subtest; one that an earlier execution left current loses what it got.
LEMMA RunDynamicPreserves == ASSUME CoreInv, RunDynamic PROVE CoreInv'
<1> DEFINE k == entered + 1
           new == <<in_subtest, k>>
<1>1. TypeOK /\ ContextInv /\ PlaceInv /\ FreshInv /\ SuspectInv /\ ContainerInv /\ Agrees /\ ExitInv
      /\ SaidInv /\ FirstInv /\ BlameInv
  BY DEF CoreInv
<1>2. /\ Running /\ in_subtest # None /\ in_dynamic_subtest = None /\ executed >= 0 /\ entered < MaxDynamics
      /\ UNCHANGED <<pc, exitcode, found, todo, in_fixture, in_subtest, henceforth, saved, skipped_one,
                     succeeded_one, failed_one, dynamic_failed_one, suspects, said, fixtures, lines, failures,
                     resumes, begun>>
      /\ in_dynamic_subtest' = k /\ entered' = k /\ executed' = executed + 1 /\ thread_failed' = FALSE
      /\ SendStart(Packet("dynamic start", k, None))
  BY DEF RunDynamic, InContainer, process, groups, flags, bounds
<1>3. /\ in_subtest \in Names /\ entered \in Nat /\ k \in 1..MaxDynamics /\ k \in Nat /\ k > entered /\ k # None
      /\ executed \in Int /\ executed <= entered /\ MaxDynamics \in Nat
  <2>1. in_subtest \in Names /\ entered \in 0..MaxDynamics /\ executed \in -1..MaxDynamics /\ executed <= entered
    BY <1>1, <1>2 DEF TypeOK
  <2>2. MaxDynamics \in Nat
    BY IgtCoreAssumption DEF IgtCoreAssumption
  <2>3. entered < MaxDynamics
    BY <1>2
  <2>4. k \in 1..MaxDynamics
    BY <2>1, <2>2, <2>3
  <2>5. k \in Nat /\ k > entered
    BY <2>1
  <2>6. k # None
    BY <2>4, NamesApart
  <2> QED BY <2>1, <2>2, <2>4, <2>5, <2>6
<1>4. in_subtest \in Containers /\ ~reaped /\ context.state \in {"subtest", "between dynamics"}
      /\ context.test = in_subtest
  <2>1. executed >= 0 <=> in_subtest \in Containers
    BY <1>1, <1>2 DEF PlaceInv
  <2>2. ~reaped
    BY <1>2, StillRunning
  <2> QED BY <1>1, <1>2, <2>1, <2>2 DEF PlaceInv
<1>5. Unheard(new) /\ \A j \in 1..MaxDynamics : j > k => Unheard(<<in_subtest, j>>)
  <2>1. \A j \in 1..MaxDynamics : j > entered => Unheard(<<in_subtest, j>>)
    BY <1>1, <1>2 DEF FreshInv
  <2>2. \A j \in 1..MaxDynamics : j > k => j > entered
    BY <1>3
  <2> QED BY <1>3, <2>1, <2>2
<1> HIDE DEF k
<1>6. new \in Dynamics /\ new \notin Names /\ new # None /\ new # in_subtest
  BY <1>3, NamesApart DEF Dynamics
<1> HIDE DEF new
<1>7. Packet("dynamic start", k, None).type \in {"subtest start", "dynamic start"}
  BY DEF Packet
<1>8. /\ aborting' \in BOOLEAN /\ results_received' = results_received /\ reaped' = reaped
      /\ \E d : /\ Ruled(context, d) /\ d.state = context.state
                /\ context' = Handle(d, Packet("dynamic start", k, None))
                /\ Total(d, Names, d.result) <= resumes + 1
                /\ Total(d, Dynamics, d.dynamicresult) <= resumes + 1
                /\ ~aborting' => /\ Total(d, Names, d.result) <= resumes
                                 /\ Total(d, Dynamics, d.dynamicresult) <= resumes
  BY <1>2, <1>7, StartSent
<1>9. PICK d : /\ Ruled(context, d) /\ d.state = context.state
               /\ context' = Handle(d, Packet("dynamic start", k, None))
               /\ Total(d, Names, d.result) <= resumes + 1
               /\ Total(d, Dynamics, d.dynamicresult) <= resumes + 1
               /\ ~aborting' => /\ Total(d, Names, d.result) <= resumes
                                /\ Total(d, Dynamics, d.dynamicresult) <= resumes
  BY <1>8
<1>10. context' = HandleDynamicStart(d, k)
  <2>1. Readable(d)
    BY <1>4, <1>9 DEF Readable
  <2> QED BY <1>9, <2>1, Dispatch
<1>11. /\ IsContext(d) /\ d.test = in_subtest /\ d.dynamic = context.dynamic /\ d.results = context.results
       /\ d.result \in Undecided /\ (d.state = "between dynamics" => d.dynamic # None)
       /\ d.state \in {"subtest", "between dynamics"}
  <2>1. context.result \in Undecided /\ (context.state = "between dynamics" => context.dynamic # None)
    BY <1>1, <1>4 DEF ContextInv
  <2> QED BY <1>4, <1>9, <2>1 DEF Ruled, Undecided
<1> DEFINE e == IF d.state = "subtest" THEN d ELSE FinishDynamic(d)
<1>12. /\ Core(context', "dynamic", d.test, <<d.test, k>>, d.result, None, e.results)
       /\ IsContext(e) /\ Says(d, e) /\ e.test = d.test /\ e.result = d.result
       /\ e.dynamic = IF d.state = "subtest" THEN d.dynamic ELSE None
       /\ e.dynamicresult = IF d.state = "subtest" THEN d.dynamicresult ELSE None
       /\ d.state = "subtest" => e = d
  BY <1>3, <1>10, <1>11, DynamicStartHandled
<1> HIDE DEF e
<1>13. /\ IsContext(context') /\ context'.state = "dynamic" /\ context'.test = in_subtest
       /\ context'.dynamic = new /\ context'.result = d.result /\ context'.dynamicresult = None
       /\ context'.results = e.results
  BY <1>11, <1>12 DEF Core, new
<1>14. e.dynamic # None => e = d /\ e.results[e.dynamic] = None /\ e.dynamic \in Dynamics /\ resumes > 0
  <2> SUFFICES ASSUME e.dynamic # None
               PROVE  e = d /\ e.results[e.dynamic] = None /\ e.dynamic \in Dynamics /\ resumes > 0
    OBVIOUS
  <2>1. e = d /\ d.state = "subtest" /\ e.dynamic \in Dynamics
    BY <1>11, <1>12 DEF IsContext
  <2>2. context.state = "subtest" /\ context.dynamic # None
    BY <1>9, <1>11, <2>1
  <2>3. context.results[context.dynamic] = None /\ resumes # 0
    BY <1>1, <2>2 DEF ContextInv
  <2>4. resumes \in Nat
    BY StillRunning
  <2> QED BY <1>11, <2>1, <2>3, <2>4
<1>15. \A n \in Dynamics : n # context.dynamic => e.results[n] = context.results[n]
  BY <1>11, <1>12 DEF Says
<1>16. Now(context', new) = "incomplete"
  <2>1. context'.test # new
    BY <1>6, <1>13
  <2> QED BY <1>13, <2>1, NewVerdict DEF Now
<1>17. ASSUME NEW n \in Names \cup Dynamics, n # new
       PROVE  \/ Now(context', n) = Now(context, n) \/ Now(context', n) \in ByRunner
              \/ Now(context', n) = None /\ n \in Dynamics /\ resumes > 0
  <2>1. Now(e, n) = Now(d, n)
    BY <1>12 DEF Says
  <2>2. Now(d, n) = Now(context, n) \/ Now(d, n) \in ByRunner
    BY <1>9, RuledNow
  <2>3. CASE n = in_subtest
    BY <1>11, <1>12, <1>13, <2>1, <2>2, <2>3 DEF Now
  <2>4. CASE n # in_subtest /\ n # e.dynamic
    <3>1. Now(context', n) = e.results[n] /\ Now(e, n) = e.results[n]
      BY <1>11, <1>12, <1>13, <1>17, <2>4 DEF Now
    <3> QED BY <2>1, <2>2, <3>1
  <2>5. CASE n # in_subtest /\ n = e.dynamic
    <3>1. Now(context', n) = e.results[n]
      BY <1>13, <1>17, <2>5 DEF Now
    <3>2. e.dynamic # None
      BY <2>5, NamesApart
    <3> QED BY <1>14, <2>5, <3>1, <3>2
  <2> QED BY <2>3, <2>4, <2>5
<1>18. ASSUME NEW s \in Names
       PROVE  Now(context', s) = Now(context, s) \/ Now(context', s) \in ByRunner
  BY <1>6, <1>17, NamesApart
<1>19. TypeOK'
  <2>1. context'.results \in [Names \cup Dynamics \cup {Binary} -> Results \cup {None}]
    BY <1>13 DEF IsContext
  <2>2. /\ executed' \in -1..MaxDynamics /\ executed' <= entered' /\ entered' \in 0..MaxDynamics
        /\ executed' >= 1 /\ in_dynamic_subtest' \in 1..MaxDynamics
    <3>1. executed' = executed + 1 /\ entered' = entered + 1 /\ in_dynamic_subtest' = entered + 1 /\ executed >= 0
      BY <1>2 DEF k
    <3>2. entered + 1 \in 1..MaxDynamics
      BY <1>3 DEF k
    <3> QED BY <1>3, <3>1, <3>2
  <2>3. /\ pc' \in {"off", "running", "exited"} /\ found' \in BOOLEAN
        /\ exitcode' \in {"success", "skip", "failure", "crash", "abort", "signal", "invalid"}
        /\ todo' \subseteq DOMAIN Subtests /\ begun' \subseteq Names
        /\ henceforth' \in {"no", "SKIP", "FAIL"} /\ saved' \in {"none", "no", "SKIP", "FAIL"}
        /\ suspects' \subseteq Names \cup Dynamics /\ said' \in [Names \cup Dynamics -> Results \cup {None}]
    BY <1>1, <1>2 DEF TypeOK
  <2>5. /\ fixtures' \in 0..MaxFixtures /\ lines' \in 0..MaxLines /\ failures' \in 0..MaxFailures
        /\ resumes' \in 0..MaxResumes
    BY <1>1, <1>2 DEF TypeOK
  <2>6. /\ skipped_one' \in BOOLEAN /\ succeeded_one' \in BOOLEAN /\ failed_one' \in BOOLEAN
        /\ dynamic_failed_one' \in BOOLEAN /\ thread_failed' \in BOOLEAN
    BY <1>1, <1>2 DEF TypeOK
  <2>7. in_fixture' \in BOOLEAN /\ (in_fixture' => in_subtest' = None)
    BY <1>1, <1>2 DEF TypeOK
  <2>8. in_subtest' \in Names \cup {None} /\ in_subtest' # None
    BY <1>1, <1>2 DEF TypeOK
  <2>4. aborting' \in BOOLEAN /\ results_received' \in BOOLEAN /\ reaped' \in BOOLEAN
    BY <1>1, <1>8 DEF TypeOK
  <2> QED BY <2>1, <2>2, <2>3, <2>4, <2>5, <2>6, <2>7, <2>8 DEF TypeOK
<1>20. ContextInv'
  <2>1. context'.results[context'.dynamic] = None
    BY <1>5, <1>6, <1>13, <1>15 DEF Unheard
  <2>2. context'.dynamicresult \in Undecided /\ context'.result \in Undecided
    BY <1>11, <1>13 DEF Undecided
  <2>3. context'.test # None
    BY <1>2, <1>13
  <2>4. IsContext(context') /\ context'.state = "dynamic" /\ context'.dynamic # None
    BY <1>6, <1>13
  <2> QED BY <2>1, <2>2, <2>3, <2>4 DEF ContextInv
<1>21. PlaceInv'
  <2>1. pc' = "running" /\ ~reaped' /\ in_subtest' = in_subtest /\ in_subtest # None
    BY <1>2, <1>4, <1>8 DEF Running
  <2>2. executed' >= 0 /\ in_subtest \in Containers
    <3>1. executed' = executed + 1 /\ executed >= 0
      BY <1>2
    <3>2. executed' >= 0
      BY <1>3, <3>1
    <3> QED BY <1>4, <3>2
  <2>3. in_dynamic_subtest' = k /\ k # None /\ context'.dynamic = <<in_subtest, k>>
    BY <1>2, <1>3, <1>13 DEF new
  <2> QED BY <1>13, <2>1, <2>2, <2>3 DEF PlaceInv
<1>22. FreshInv'
  <2>1. \A n \in Dynamics : n # new /\ Unheard(n) => Unheard(n)'
    BY <1>2, <1>13, <1>15 DEF Unheard
  <2>2. ASSUME NEW s \in Names, NEW j \in 1..MaxDynamics, Unheard(<<s, j>>), s # in_subtest \/ j # k
        PROVE  Unheard(<<s, j>>)'
    <3>1. <<s, j>> \in Dynamics /\ <<s, j>> # new
      BY <2>2 DEF Dynamics, new
    <3> QED BY <2>1, <2>2, <3>1
  <2>3. in_subtest \in begun /\ said[in_subtest] = None
    BY <1>1, <1>2 DEF FreshInv
  <2>4. \A s \in Names : s \notin begun' => s \notin suspects' /\ \A j \in 1..MaxDynamics : Unheard(<<s, j>>)'
    BY <1>1, <1>2, <2>2, <2>3 DEF FreshInv
  <2>5. \A j \in 1..MaxDynamics : j > entered' => Unheard(<<in_subtest, j>>)'
    <3>1. \A j \in 1..MaxDynamics : j > k => j # k
      BY <1>3
    <3> QED BY <1>2, <1>3, <1>5, <2>2, <3>1
  <2>6. said'[<<in_subtest, k>>] = None
    BY <1>2, <1>5 DEF Unheard, new
  <2>7. \A i \in todo' : Subtests[i] \notin begun'
    BY <1>1, <1>2 DEF FreshInv
  <2> QED BY <1>2, <1>4, <2>3, <2>4, <2>5, <2>6, <2>7 DEF FreshInv
<1>23. SaidInv'
  <2> SUFFICES ASSUME NEW n \in Names \cup Dynamics, said[n] # None, ~Replaced(n)
               PROVE  Now(context', n) \in {said[n]} \cup ByRunner \cup (IF Dropped(n) THEN {None} ELSE {})
    BY <1>2 DEF SaidInv, Replaced, Dropped
  <2>1. n # new
    BY <1>5 DEF Unheard
  <2>2. Now(context, n) \in {said[n]} \cup ByRunner \cup (IF Dropped(n) THEN {None} ELSE {})
    BY <1>1 DEF SaidInv
  <2> QED BY <1>17, <2>1, <2>2 DEF Dropped
<1>24. FirstInv'
  BY <1>13 DEF FirstInv
<1>25. ASSUME NEW s \in Names, NEW j \in 1..MaxDynamics, Now(context', <<s, j>>) = "fail"
       PROVE  Now(context, <<s, j>>) = "fail"
  <2>1. <<s, j>> \in Dynamics
    BY DEF Dynamics
  <2>2. <<s, j>> # new
    BY <1>16, <1>25
  <2>3. None # "fail"
    BY NamesApart DEF Results
  <2> QED BY <1>17, <1>25, <2>1, <2>2, <2>3, Verdicts
<1>26. ContainerInv'
  <2>1. \A s \in Names : Now(context', s) = "pass" => Now(context, s) = "pass"
    BY <1>18, Verdicts
  <2> QED BY <1>1, <1>2, <1>3, <1>4, <1>25, <2>1 DEF ContainerInv
<1>27. SuspectInv'
  <2>1. new \notin suspects
    BY <1>5 DEF Unheard
  <2>2. ASSUME NEW n \in suspects PROVE Now(context', n) # "pass"
    <3>1. n \in Names \cup Dynamics /\ n # new /\ Now(context, n) # "pass"
      BY <1>1, <2>1 DEF TypeOK, SuspectInv
    <3>2. None # "pass"
      BY NamesApart DEF Results
    <3> QED BY <1>17, <3>1, <3>2, Verdicts
  <2>3. Here' = new
    BY <1>2, <1>3 DEF Here, new
  <2> QED BY <1>1, <1>2, <2>1, <2>2, <2>3 DEF SuspectInv
<1>28. ExitInv'
  BY <1>1, <1>2, <1>13 DEF ExitInv, Running
<1>29. Agrees'
  <2> SUFFICES ASSUME resumes = 0, NEW n \in Names
               PROVE  /\ Now(context', n) \in {"fail", "crash"} => failed_one
                      /\ Now(context', n) = "pass" => succeeded_one
                      /\ Now(context', n) = "incomplete" => in_subtest = n
    BY <1>2 DEF Agrees, Running
  <2>1. /\ Now(context, n) \in {"fail", "crash"} => failed_one
        /\ Now(context, n) = "pass" => succeeded_one
        /\ Now(context, n) = "incomplete" => in_subtest = n
    BY <1>1, <1>2 DEF Agrees, Running
  <2> QED BY <1>18, <2>1, Verdicts
<1>30. BlameInv'
  <2>1. Others(context', Names) \subseteq Others(e, Names)
    BY <1>11, <1>12, <1>13, NamesApart DEF Others, IsContext
  <2>2. Others(context', Dynamics) \subseteq Others(e, Dynamics)
    <3> SUFFICES ASSUME NEW n \in Others(context', Dynamics) PROVE n \in Others(e, Dynamics)
      OBVIOUS
    <3>1. n \in Dynamics /\ n # in_subtest /\ e.results[n] \in ByRunner
      BY <1>13 DEF Others
    <3>2. n # e.dynamic
      BY <1>14, <3>1, NewVerdict, NamesApart
    <3> QED BY <1>11, <1>12, <3>1, <3>2 DEF Others
  <2>3. Total(context', Names, context'.result) <= Total(e, Names, e.result)
    BY <1>12, <1>13, <2>1, TotalLess
  <2>4. Total(context', Dynamics, context'.dynamicresult) <= Total(e, Dynamics, e.dynamicresult)
    BY <1>13, <2>2, NewVerdict, TotalLess
  <2>5. Counts(d, context')
    <3>1. Counts(e, context')
      BY <2>3, <2>4 DEF Counts
    <3> QED BY <1>12, <3>1, CountsTwice DEF Says
  <2> QED BY <1>2, <1>4, <1>9, <2>5, StillRunning, StartBlame
<1> QED BY <1>19, <1>20, <1>21, <1>22, <1>23, <1>24, <1>26, <1>27, <1>28, <1>29, <1>30 DEF CoreInv

-----------------------------------------------------------------------------
(* The theorems.                                                           *)

LEMMA InitHolds == Init => CoreInv
<1> SUFFICES ASSUME Init PROVE CoreInv
  OBVIOUS
<1> USE DEF Init
<1>1. /\ context.state = "initial" /\ context.test = None /\ context.dynamic = None
      /\ context.result = None /\ context.dynamicresult = None /\ DOMAIN context = Fields
      /\ context.results = [n \in Names \cup Dynamics \cup {Binary} |-> None]
  BY DEF NewContext, Fields
<1>2. IsContext(context)
  BY <1>1 DEF IsContext
<1>3. \A n \in Names \cup Dynamics : context.results[n] = None /\ Now(context, n) = None /\ said[n] = None
  BY <1>1, NamesApart DEF Now
<1>4. TypeOK
  <2>1. 0 \in 0..MaxFixtures /\ 0 \in 0..MaxLines /\ 0 \in 0..MaxFailures /\ 0 \in 0..MaxResumes
    BY IgtCoreAssumption DEF IgtCoreAssumption
  <2>2. -1 \in -1..MaxDynamics /\ 0 \in 0..MaxDynamics /\ -1 <= 0
    BY IgtCoreAssumption DEF IgtCoreAssumption
  <2>3. /\ context.results \in [Names \cup Dynamics \cup {Binary} -> Results \cup {None}]
        /\ said \in [Names \cup Dynamics -> Results \cup {None}]
    BY <1>2 DEF IsContext
  <2> QED BY <2>1, <2>2, <2>3 DEF TypeOK
<1>5. ContextInv
  BY <1>1, <1>2 DEF ContextInv, Undecided
<1>6. PlaceInv
  BY <1>1, <1>3 DEF PlaceInv
<1>7. FreshInv
  <2>1. \A d \in Dynamics : Unheard(d)
    BY <1>1, <1>3, NamesApart DEF Unheard
  <2> QED BY <2>1 DEF FreshInv, Dynamics
<1>8. SaidInv /\ FirstInv
  BY <1>3 DEF SaidInv, FirstInv
<1>9. ContainerInv /\ SuspectInv
  <2>1. \A s \in Names : Now(context, s) # "pass"
    BY <1>3, NamesApart DEF Results
  <2> QED BY <2>1 DEF ContainerInv, SuspectInv
<1>10. ExitInv /\ Agrees
  BY <1>1 DEF ExitInv, Agrees
<1>11. BlameInv
  <2>1. \A set \in {Names, Dynamics} : Others(context, set) = {}
    BY <1>3, NewVerdict DEF Others
  <2>2. Cardinality({}) = 0
    BY FS_EmptySet
  <2>3. One(None) = 0
    BY NewVerdict DEF One
  <2>4. \A set \in {Names, Dynamics} : Total(context, set, None) = 0 /\ Cardinality(Others(context, set)) = 0
    BY <2>1, <2>2, <2>3 DEF Total
  <2> QED BY <1>1, <2>4 DEF BlameInv, Blame
<1> QED BY <1>4, <1>5, <1>6, <1>7, <1>8, <1>9, <1>10, <1>11 DEF CoreInv

LEMMA StutterPreserves == ASSUME CoreInv, UNCHANGED vars PROVE CoreInv'
<1>1. UNCHANGED Inner /\ UNCHANGED Flags
  BY DEF vars, Inner, Flags, process, place, groups, flags, threads, bounds
<1>2. UNCHANGED <<in_fixture, henceforth, saved, skipped_one, fixtures, lines, failures, results_received>>
  BY DEF vars, process, place, groups, flags, threads, bounds
<1>3. TypeOK'
  BY <1>1, <1>2 DEF CoreInv, TypeOK, Inner, Flags
<1> QED BY <1>1, <1>2, <1>3, Quiet, QuietExit DEF CoreInv

LEMMA NextPreserves == CoreInv /\ [Next]_vars => CoreInv'
<1> SUFFICES ASSUME CoreInv, [Next]_vars PROVE CoreInv'
  OBVIOUS
<1>1. CASE TestStep
  <2>1. CASE Fixture \/ FixtureComplete \/ SkipFixture \/ FailFixture \/ GroupSave \/ GroupRestore
    BY <2>1, FixturePreserves, FixtureCompletePreserves, SkipFixturePreserves, FailFixturePreserves,
       GroupPreserves
  <2>2. CASE \E i \in DOMAIN Subtests : SkipSubtest(i) \/ RunSubtest(i)
    BY <2>2, SkipSubtestPreserves, RunSubtestPreserves
  <2>3. CASE RunDynamic
    BY <2>3, RunDynamicPreserves
  <2>4. CASE \E stream \in Streams : Log(stream)
    BY <2>4, LogPreserves
  <2>5. CASE ThreadFails
    BY <2>5, ThreadFailsPreserves
  <2>6. CASE (Running /\ in_subtest # None /\ Skip) \/ SuccessSkips
    BY <2>6, SkipPreserves DEF SuccessSkips, InContainer
  <2>7. CASE Assert \/ Success \/ Crash
    BY <2>7, AssertPreserves, SuccessPreserves, CrashPreserves
  <2>8. CASE SuccessFailsForThread \/ SuccessFailsForDynamic
    BY <2>8, SuccessFailsPreserves
  <2>9. CASE igt_exit \/ Abort \/ Killed
    BY <2>9, igt_exitPreserves, KillPreserves
  <2> QED BY <1>1, <2>1, <2>2, <2>3, <2>4, <2>5, <2>6, <2>7, <2>8, <2>9 DEF TestStep
<1>2. CASE RunnerStep
  BY <1>2, StartPreserves, OverridePreserves, ReapPreserves, ResumePreserves DEF RunnerStep
<1>3. CASE Done \/ UNCHANGED vars
  BY <1>3, StutterPreserves DEF Done
<1> QED BY <1>1, <1>2, <1>3 DEF Next

LEMMA Invariant == Spec => []CoreInv
<1> QED BY InitHolds, NextPreserves, PTL DEF Spec

\* The report is what the context says so far.
LEMMA ReportNow == ASSUME IsContext(context), NEW n \in Names \cup Dynamics PROVE report[n] = Now(context, n)
<1> DEFINE d == FinishAnyDynamic(context)
           e == IF d.test = None THEN d ELSE FinishSubtest(d)
<1>1. report = e.results
  BY DEF report, Report, Finished
<1>2. Says(context, d) /\ IsContext(d) /\ d.dynamic = None
  BY FinishAnyDynamicSays
<1> HIDE DEF d
<1>3. Says(d, e) /\ e.test = None /\ e.dynamic = None
  <2>1. CASE d.test = None
    BY <1>2, <2>1, SameCounts DEF Says
  <2>2. CASE d.test # None
    BY <1>2, <2>2, FinishSubtestSays, FinishSubtestCore DEF Core
  <2> QED BY <2>1, <2>2
<1> HIDE DEF e
<1>4. n # None
  BY NamesApart
<1>5. Now(e, n) = e.results[n]
  BY <1>3, <1>4 DEF Now
<1> QED BY <1>1, <1>2, <1>3, <1>5 DEF Says

LEMMA BlamedAreFew ==
  ASSUME IsContext(context), NEW set \in {Names, Dynamics}, NEW cur, NEW r,
         cur = (IF set = Names THEN context.test ELSE context.dynamic),
         r = (IF set = Names THEN context.result ELSE context.dynamicresult)
  PROVE  Cardinality({n \in set : report[n] \in ByRunner}) <= Total(context, set, r)
<1> DEFINE blamed == {n \in set : report[n] \in ByRunner}
<1>1. \A n \in set : report[n] = Now(context, n)
  BY ReportNow
<1>2. \A n \in set : n # cur => n # context.test /\ n # context.dynamic
  <2>1. context.test \in Names \cup {Binary, None} /\ context.dynamic \in Dynamics \cup {None}
    BY DEF IsContext
  <2> QED BY <2>1, NamesApart
<1>3. \A n \in set : n = cur => Now(context, n) = OrIncomplete(r)
  <2>1. context.test \in Names \cup {Binary, None} /\ context.dynamic \in Dynamics \cup {None}
    BY DEF IsContext
  <2>2. set = Names \/ (set = Dynamics /\ \A n \in set : n \notin Names)
    BY NamesApart
  <2> QED BY <2>1, <2>2, NamesApart DEF Now
<1>4. OrIncomplete(r) \in ByRunner => r \in ByRunner
  BY DEF OrIncomplete, ByRunner
<1>5. blamed \subseteq Others(context, set) \cup (IF r \in ByRunner THEN {cur} ELSE {})
  <2> SUFFICES ASSUME NEW n \in blamed, n # cur \/ r \notin ByRunner PROVE n \in Others(context, set)
    OBVIOUS
  <2>1. n \in set /\ Now(context, n) \in ByRunner
    BY <1>1
  <2>2. n # cur
    BY <1>3, <1>4, <2>1
  <2>3. n # context.test /\ n # context.dynamic
    BY <1>2, <2>1, <2>2
  <2> QED BY <2>1, <2>3 DEF Now, Others
<1>6. IsFiniteSet(Others(context, set)) /\ Cardinality(Others(context, set)) \in Nat
  BY OthersFinite
<1>7. IsFiniteSet(blamed) /\ Cardinality(blamed) \in Nat
  BY FiniteNames, FS_Subset, FS_CardinalityType
<1> HIDE DEF blamed
<1>8. CASE r \in ByRunner
  <2>1. LET more == Others(context, set) \cup {cur}
        IN IsFiniteSet(more) /\ Cardinality(more) \in Nat /\ Cardinality(more) <= Cardinality(Others(context, set)) + 1
    BY <1>6, FS_AddElement
  <2>2. Cardinality(blamed) <= Cardinality(Others(context, set) \cup {cur})
    BY <1>5, <1>8, <2>1, FS_Subset
  <2> QED BY <1>6, <1>7, <1>8, <2>1, <2>2 DEF Total, One, blamed
<1>9. CASE r \notin ByRunner
  <2>1. Cardinality(blamed) <= Cardinality(Others(context, set))
    BY <1>5, <1>6, <1>9, FS_Subset
  <2> QED BY <1>6, <1>7, <1>9, <2>1 DEF Total, One, blamed
<1> QED BY <1>8, <1>9

\* The variables are what their names say.
THEOREM CoreTypes == Spec => []TypeOK
<1>1. CoreInv => TypeOK
  BY DEF CoreInv
<1> QED BY <1>1, Invariant, PTL

\* The dump is read to its end, and the report says of each (dynamic) subtest what the
\* test said, or what the runner said of it; of one for each execution.
THEOREM ReportTells == Spec => []ReportIsTrue
<1>1. ASSUME CoreInv PROVE DumpIsRead
  BY <1>1 DEF CoreInv, ContextInv, DumpIsRead
<1>2. ASSUME CoreInv PROVE ReportSaysWhatTheTestSaid
  <2>1. \A n \in Names \cup Dynamics : report[n] = Now(context, n)
    BY <1>2, ContextRead, ReportNow
  <2> QED BY <1>2, <2>1 DEF CoreInv, SaidInv, ReportSaysWhatTheTestSaid, ByRunner
<1>3. ASSUME CoreInv PROVE OneIsBlamed
  <2>1. IsContext(context) /\ BlameInv /\ resumes \in Nat
    BY <1>3, ContextRead, StillRunning DEF CoreInv
  <2>2. Cardinality({n \in Names : report[n] \in ByRunner}) <= Total(context, Names, context.result)
    BY <2>1, BlamedAreFew
  <2>3. Cardinality({n \in Dynamics : report[n] \in ByRunner}) <= Total(context, Dynamics, context.dynamicresult)
    <3>1. CASE Dynamics = Names
      <4>1. {n \in Dynamics : report[n] \in ByRunner} = {}
        BY <3>1, NamesApart
      <4>2. Cardinality({}) = 0 /\ Total(context, Dynamics, context.dynamicresult) >= 0
        BY FS_EmptySet, TotalInt
      <4> QED BY <4>1, <4>2
    <3>2. CASE Dynamics # Names
      BY <2>1, <3>2, BlamedAreFew
    <3> QED BY <3>1, <3>2
  <2>4. /\ Total(context, Names, context.result) <= resumes + 1
        /\ Total(context, Dynamics, context.dynamicresult) <= resumes + 1
    BY <2>1 DEF BlameInv, Blame
  <2>5. /\ Total(context, Names, context.result) \in Nat /\ Total(context, Dynamics, context.dynamicresult) \in Nat
    BY TotalInt
  <2>6. /\ Cardinality({n \in Names : report[n] \in ByRunner}) \in Nat
        /\ Cardinality({n \in Dynamics : report[n] \in ByRunner}) \in Nat
    BY FiniteNames, FS_Subset, FS_CardinalityType
  <2> QED BY <2>1, <2>2, <2>3, <2>4, <2>5, <2>6 DEF OneIsBlamed
<1>4. CoreInv => ReportIsTrue
  BY <1>1, <1>2, <1>3 DEF ReportIsTrue
<1> QED BY <1>4, Invariant, PTL

\* A failure of which the main thread learns through a flag is in the report.
THEOREM FailuresAreTold == Spec => []NoFailureIsLost
<1>1. ASSUME CoreInv PROVE NoFailureIsLost
  <2>1. \A n \in Names \cup Dynamics : report[n] = Now(context, n)
    BY <1>1, ContextRead, ReportNow
  <2>2. ContainerTellsFailure
    BY <1>1, <2>1 DEF CoreInv, ContainerInv, ContainerTellsFailure, Dynamics
  <2>3. ThreadFailureCounts
    BY <1>1, <2>1 DEF CoreInv, TypeOK, SuspectInv, ThreadFailureCounts
  <2> QED BY <2>2, <2>3 DEF NoFailureIsLost
<1> QED BY <1>1, Invariant, PTL

\* The exit code does not contradict the report.
THEOREM ExitCodeTells == Spec => []ExitCodeAgrees
<1>1. ASSUME CoreInv PROVE ExitCodeAgrees
  <2>1. \A n \in Names : report[n] = Now(context, n)
    BY <1>1, ContextRead, ReportNow
  <2> QED BY <1>1, <2>1 DEF CoreInv, Agrees, ExitCodeAgrees
<1> QED BY <1>1, Invariant, PTL

-----------------------------------------------------------------------------
(* Texts.  The text of the current subtest is the part of the buffer from  *)
(* outidx on.  It has one mark of its own while the subtest runs and two   *)
(* at its end, and besides its own lines those of subtests that were cut   *)
(* off by the end of an execution (Lost), whose text nobody asks for.      *)

Lines == [kind : {"mark", "text"}, of : Names]
Lost  == {t \in begun : said[t] = None /\ t # in_subtest}

Part(c)       == c.outidx + 1 .. Len(c.out)
Marks(c, s)   == {i \in Part(c) : c.out[i] = Line("mark", s)}
Owns(c, s, L) == \A i \in Part(c) : c.out[i].of = s \/ c.out[i].of \in L
Single(S)     == \E i \in S : S = {i}
Two(S)        == \E i, j \in S : i # j /\ S = {i, j}

IsText(text, s, L) ==
  /\ Two({i \in DOMAIN text : text[i] = Line("mark", s)})
  /\ \A i \in DOMAIN text : text[i].of = s \/ text[i].of \in L

InSubtest == {"subtest", "dynamic", "between dynamics"}

Buffer(c) ==
  /\ DOMAIN c = Fields /\ c.out \in Seq(Lines) /\ DOMAIN c.texts = Names \cup {Binary}
  /\ c.outidx \in Nat /\ c.nextoutidx \in Nat
  /\ c.outidx <= c.nextoutidx /\ c.nextoutidx <= Len(c.out)

CurrentText ==
  /\ context.state \in {"initial", "exec"} => Owns(context, None, Lost)
  /\ context.state \in InSubtest =>
       /\ context.test = in_subtest
       /\ Owns(context, in_subtest, Lost) /\ Single(Marks(context, in_subtest))
  /\ context.state = "between" =>
       /\ context.nextoutidx = Len(context.out) /\ Owns(context, context.test, Lost)
       /\ Ended(context.test) => Two(Marks(context, context.test))
  /\ context.state = "exited" =>
       \A s \in Names : s = context.test /\ Ended(s) /\ ~Replaced(s) =>
         Owns(context, s, Lost) /\ Two(Marks(context, s))

EndedTexts ==
  \A s \in Names : s # context.test /\ Ended(s) /\ ~Replaced(s) => IsText(context.texts[s].out, s, Lost)

OutInv == Buffer(context) /\ CurrentText /\ EndedTexts

\* What a handler does to the buffer and the texts: nothing; it adds a line; it takes what
\* there is for the text of the current subtest; it adds the mark of an end.
SameOut(c, d) ==
  /\ DOMAIN d = Fields /\ d.out = c.out /\ d.texts = c.texts
  /\ d.outidx = c.outidx /\ d.nextoutidx = c.nextoutidx

AddsLine(c, d, line) ==
  /\ DOMAIN d = Fields /\ d.out = Append(c.out, line) /\ d.texts = c.texts
  /\ d.outidx = c.outidx /\ d.nextoutidx = c.nextoutidx

ClosesText(c, d) ==
  /\ DOMAIN d = Fields /\ d.out = c.out /\ d.outidx = c.nextoutidx /\ d.nextoutidx = c.nextoutidx
  /\ DOMAIN d.texts = DOMAIN c.texts
  /\ \A n \in DOMAIN c.texts :
       d.texts[n].out = IF n = c.test THEN Text(c.out, c.outidx, Len(c.out) - c.outidx) ELSE c.texts[n].out

AddsEnd(c, d, s) ==
  /\ DOMAIN d = Fields /\ d.out = Append(c.out, Line("mark", s)) /\ d.texts = c.texts
  /\ d.outidx = c.outidx /\ d.nextoutidx = Len(d.out)

LEMMA FinishSubtestOut ==
  ASSUME NEW c, DOMAIN c = Fields, c.test \in DOMAIN c.texts PROVE ClosesText(c, FinishSubtest(c))
BY DEF FinishSubtest, Fields, ClosesText

LEMMA FinishAnyDynamicOut ==
  ASSUME NEW c, DOMAIN c = Fields PROVE SameOut(c, FinishAnyDynamic(c)) /\ FinishAnyDynamic(c).test = c.test
BY DEF FinishAnyDynamic, FinishDynamic, Fields, SameOut

LEMMA OverrideOut ==
  ASSUME NEW c, DOMAIN c = Fields, NEW r
  PROVE  LET d == HandleOverride(c, r) IN SameOut(c, d) /\ d.test = c.test /\ d.state = c.state
BY DEF HandleOverride, Fields, SameOut

LEMMA ExitOut ==
  ASSUME NEW c, DOMAIN c = Fields, NEW code
  PROVE  LET d == HandleExit(c, code)
         IN /\ SameOut(c, d) /\ d.state = "exited"
            /\ d.test = IF c.state = "exec" THEN (IF EntryFirst = None THEN Binary ELSE EntryFirst) ELSE c.test
<1> DEFINE t == IF EntryFirst = None THEN Binary ELSE EntryFirst
<1>1. CASE c.state = "exec"
  <2>1. \E r : HandleExit(c, code) = [c EXCEPT !.state = "exited", !.test = t, !.result = r]
    BY <1>1 DEF HandleExit
  <2> HIDE DEF t
  <2>2. LET d == HandleExit(c, code) IN SameOut(c, d) /\ d.state = "exited" /\ d.test = t
    BY <2>1 DEF Fields, SameOut
  <2> QED BY <1>1, <2>2 DEF t
<1>2. CASE c.state # "exec" /\ code = "abort"
  <2>1. HandleExit(c, code) = [c EXCEPT !.state = "exited", !.result = "abort", !.dynamicresult = "abort"]
    BY <1>2 DEF HandleExit
  <2> QED BY <1>2, <2>1 DEF Fields, SameOut
<1>3. CASE c.state # "exec" /\ code # "abort"
  <2>1. HandleExit(c, code) = [c EXCEPT !.state = "exited"]
    BY <1>3 DEF HandleExit
  <2> QED BY <1>3, <2>1 DEF Fields, SameOut
<1> QED BY <1>1, <1>2, <1>3

LEMMA LogOut ==
  ASSUME NEW c, DOMAIN c = Fields, NEW stream, NEW s
  PROVE  LET d == HandleLog(c, stream, s)
         IN /\ d.state = c.state /\ d.test = c.test
            /\ IF stream = "out" THEN AddsLine(c, d, Line("text", s)) ELSE SameOut(c, d)
BY DEF HandleLog, Fields, AddsLine, SameOut

LEMMA ExecOut ==
  ASSUME NEW c, DOMAIN c = Fields, c.test = None <=> c.state \in {"initial", "exec"},
         c.test # None => c.test \in DOMAIN c.texts
  PROVE  LET d == HandleExec(c)
         IN /\ c.state = "initial" => SameOut(c, d)
            /\ c.state = "exec" =>
                 DOMAIN d = Fields /\ d.out = <<>> /\ d.outidx = 0 /\ d.nextoutidx = 0 /\ d.texts = c.texts
            /\ c.state \notin {"initial", "exec"} => ClosesText(c, d)
<1> DEFINE d == HandleExec(c)
<1>1. ASSUME c.state = "initial" PROVE SameOut(c, d)
  <2>1. d = [c EXCEPT !.state = "exec"]
    BY <1>1 DEF HandleExec
  <2> HIDE DEF d
  <2> QED BY <2>1 DEF Fields, SameOut
<1>2. ASSUME c.state = "exec"
      PROVE  DOMAIN d = Fields /\ d.out = <<>> /\ d.outidx = 0 /\ d.nextoutidx = 0 /\ d.texts = c.texts
  <2>1. d = [c EXCEPT !.out = <<>>, !.err = <<>>, !.outidx = 0, !.erridx = 0, !.nextoutidx = 0, !.nexterridx = 0]
    BY <1>2 DEF HandleExec
  <2> HIDE DEF d
  <2> QED BY <2>1 DEF Fields
<1>3. ASSUME c.state \notin {"initial", "exec"} PROVE ClosesText(c, d)
  <2> DEFINE e == FinishSubtest(c)
  <2>1. d = [e EXCEPT !.state = "exec"]
    BY <1>3 DEF HandleExec
  <2>2. ClosesText(c, e)
    BY <1>3, FinishSubtestOut
  <2> HIDE DEF d, e
  <2> QED BY <2>1, <2>2 DEF Fields, ClosesText
<1> HIDE DEF d
<1>4. /\ c.state = "initial" => SameOut(c, d)
      /\ c.state = "exec" =>
           DOMAIN d = Fields /\ d.out = <<>> /\ d.outidx = 0 /\ d.nextoutidx = 0 /\ d.texts = c.texts
      /\ c.state \notin {"initial", "exec"} => ClosesText(c, d)
  BY <1>1, <1>2, <1>3
<1> QED BY <1>4 DEF d

LEMMA StartOut ==
  ASSUME NEW c, DOMAIN c = Fields, c.state \in {"exec", "between"}, NEW s,
         c.state = "between" => c.test \in DOMAIN c.texts
  PROVE  LET d == HandleSubtestStart(c, s)
         IN /\ d.state = "subtest" /\ d.test = s
            /\ c.state = "exec" => AddsLine(c, d, Line("mark", s))
            /\ c.state = "between" => \E e : ClosesText(c, e) /\ AddsLine(e, d, Line("mark", s))
<1> DEFINE d == HandleSubtestStart(c, s)
           start(e) == [Inject(AddSubtest(e, s), s) EXCEPT !.result = None, !.state = "subtest"]
<1>1. ASSUME NEW e, DOMAIN e = Fields
      PROVE  start(e).state = "subtest" /\ start(e).test = s /\ AddsLine(e, start(e), Line("mark", s))
  BY <1>1 DEF Inject, AddSubtest, Fields, AddsLine
<1>2. CASE c.state = "exec"
  <2>1. d = start(c)
    BY <1>2 DEF HandleSubtestStart
  <2> HIDE DEF d, start
  <2>2. d.state = "subtest" /\ d.test = s /\ AddsLine(c, d, Line("mark", s))
    BY <1>1, <2>1
  <2> QED BY <1>2, <2>2 DEF d
<1>3. CASE c.state = "between"
  <2> DEFINE a == FinishAnyDynamic(c)
             e == FinishSubtest(a)
  <2>1. d = start(e)
    BY <1>3 DEF HandleSubtestStart
  <2>2. SameOut(c, a) /\ a.test = c.test
    BY FinishAnyDynamicOut
  <2> HIDE DEF a
  <2>3. ClosesText(a, e)
    BY <1>3, <2>2, FinishSubtestOut DEF SameOut
  <2> HIDE DEF d, e, start
  <2>4. ClosesText(c, e)
    BY <2>2, <2>3 DEF ClosesText, SameOut
  <2>5. d.state = "subtest" /\ d.test = s /\ AddsLine(e, d, Line("mark", s))
    BY <1>1, <2>1, <2>3 DEF ClosesText
  <2>6. \E f : ClosesText(c, f) /\ AddsLine(f, d, Line("mark", s))
    BY <2>4, <2>5
  <2> QED BY <1>3, <2>5, <2>6 DEF d
<1> QED BY <1>2, <1>3

\* A started subtest may end, as no dynamic subtest of it is running.
Inside(c) == c.state \in {"subtest", "between dynamics"}

LEMMA ResultOut ==
  ASSUME NEW c, DOMAIN c = Fields, c.state \in {"exec", "between"} \/ Inside(c), NEW s, NEW r,
         c.state = "between" => c.test \in DOMAIN c.texts, NEW d, d = HandleSubtestResult(c, s, r)
  PROVE  /\ d.state = "between"
         /\ Inside(c) => d.test = c.test /\ AddsEnd(c, d, s)
         /\ c.state = "exec" => d.test = s /\ AddsEnd(c, d, s)
         /\ c.state = "between" => d.test = s /\ \E e : ClosesText(c, e) /\ AddsEnd(e, d, s)
<1> DEFINE end(f) == LET e == Inject(f, s)
                     IN [e EXCEPT !.nextoutidx = Len(e.out), !.nexterridx = Len(e.err),
                                  !.result = IF e.result = None THEN Mapped(r) ELSE e.result,
                                  !.state = "between"]
<1>1. ASSUME NEW f, DOMAIN f = Fields
      PROVE  end(f).state = "between" /\ end(f).test = f.test /\ AddsEnd(f, end(f), s)
  <2> DEFINE e == Inject(f, s)
  <2>1. DOMAIN e = Fields /\ e.out = Append(f.out, Line("mark", s)) /\ e.texts = f.texts /\ e.outidx = f.outidx
        /\ e.test = f.test
    BY <1>1 DEF Inject, Fields
  <2> HIDE DEF e
  <2>2. \E x, y : end(f) = [e EXCEPT !.nextoutidx = Len(e.out), !.nexterridx = x, !.result = y, !.state = "between"]
    BY DEF e
  <2> HIDE DEF end
  <2> QED BY <2>1, <2>2 DEF Fields, AddsEnd
<1>2. ASSUME NEW f, DOMAIN f = Fields
      PROVE  LET g == AddSubtest(f, s) IN SameOut(f, g) /\ g.test = s
  BY <1>2 DEF AddSubtest, Fields, SameOut
<1>3. CASE Inside(c)
  <2>1. d = end(c)
    BY <1>3 DEF HandleSubtestResult, Inside
  <2> HIDE DEF end
  <2>2. d.state = "between" /\ d.test = c.test /\ AddsEnd(c, d, s)
    BY <1>1, <2>1
  <2>3. c.state # "exec" /\ c.state # "between"
    BY <1>3 DEF Inside
  <2> QED BY <2>2, <2>3
<1>4. CASE c.state = "exec"
  <2> DEFINE g == AddSubtest(c, s)
  <2>1. d = end(g)
    BY <1>4 DEF HandleSubtestResult
  <2>2. SameOut(c, g) /\ g.test = s
    BY <1>2
  <2> HIDE DEF end, g
  <2>3. d.state = "between" /\ d.test = s /\ AddsEnd(g, d, s)
    BY <1>1, <2>1, <2>2 DEF SameOut
  <2>4. AddsEnd(c, d, s)
    BY <2>2, <2>3 DEF SameOut, AddsEnd
  <2>5. ~Inside(c)
    BY <1>4 DEF Inside
  <2> QED BY <1>4, <2>3, <2>4, <2>5
<1>5. CASE c.state = "between"
  <2> DEFINE f == FinishSubtest(c)
             g == AddSubtest(f, s)
  <2>1. d = end(g)
    BY <1>5 DEF HandleSubtestResult
  <2>2. ClosesText(c, f)
    BY <1>5, FinishSubtestOut
  <2> HIDE DEF f
  <2>3. SameOut(f, g) /\ g.test = s
    BY <1>2, <2>2 DEF ClosesText
  <2> HIDE DEF end, g
  <2>4. d.state = "between" /\ d.test = s /\ AddsEnd(g, d, s)
    BY <1>1, <2>1, <2>3 DEF SameOut
  <2>5. ClosesText(c, g)
    BY <2>2, <2>3 DEF SameOut, ClosesText
  <2>6. \E e : ClosesText(c, e) /\ AddsEnd(e, d, s)
    BY <2>4, <2>5
  <2>7. ~Inside(c)
    BY <1>5 DEF Inside
  <2> QED BY <1>5, <2>4, <2>6, <2>7
<1> QED BY <1>3, <1>4, <1>5

LEMMA DynamicOut ==
  ASSUME NEW c, DOMAIN c = Fields, NEW k, NEW r
  PROVE  /\ c.state \in {"subtest", "between dynamics"} =>
              LET d == HandleDynamicStart(c, k) IN SameOut(c, d) /\ d.state = "dynamic" /\ d.test = c.test
         /\ c.state = "dynamic" =>
              LET d == HandleDynamicResult(c, k, r) IN SameOut(c, d) /\ d.state = "between dynamics" /\ d.test = c.test
<1> DEFINE start(f) == [AddDynamic(f, k) EXCEPT !.dynamicresult = None, !.state = "dynamic"]
<1>1. ASSUME NEW f, DOMAIN f = Fields
      PROVE  SameOut(f, start(f)) /\ start(f).state = "dynamic" /\ start(f).test = f.test
  BY <1>1 DEF AddDynamic, Fields, SameOut
<1>2. CASE c.state = "subtest"
  <2>1. HandleDynamicStart(c, k) = start(c)
    BY <1>2 DEF HandleDynamicStart
  <2> HIDE DEF start
  <2> QED BY <1>1, <1>2, <2>1
<1>3. CASE c.state = "between dynamics"
  <2> DEFINE f == FinishDynamic(c)
  <2>1. HandleDynamicStart(c, k) = start(f)
    BY <1>3 DEF HandleDynamicStart
  <2>2. SameOut(c, f) /\ f.test = c.test
    BY DEF FinishDynamic, SameOut, Fields
  <2> HIDE DEF start, f
  <2>3. SameOut(f, start(f)) /\ start(f).state = "dynamic" /\ start(f).test = f.test
    BY <1>1, <2>2 DEF SameOut
  <2>4. SameOut(c, start(f))
    BY <2>2, <2>3 DEF SameOut
  <2> QED BY <1>3, <2>1, <2>2, <2>3, <2>4
<1>4. CASE c.state = "dynamic"
  <2>1. \E x : HandleDynamicResult(c, k, r) = [c EXCEPT !.dynamicresult = x, !.state = "between dynamics"]
    BY <1>4 DEF HandleDynamicResult
  <2> QED BY <1>4, <2>1 DEF SameOut, Fields
<1> QED BY <1>2, <1>3, <1>4

-----------------------------------------------------------------------------
(* What that does to the part that is the current text.                    *)

LEMMA BufferTypes ==
  ASSUME NEW c, Buffer(c)
  PROVE  /\ Len(c.out) \in Nat /\ c.outidx \in Nat /\ c.nextoutidx \in Nat
         /\ DOMAIN c.out = 1..Len(c.out)
         /\ \A i \in 1..Len(c.out) : c.out[i] \in Lines
         /\ \A i \in Part(c) : i \in 1..Len(c.out)
BY DEF Buffer, Part

\* The line that is added is the last of the part.
Longer(c, d, line) == d.out = Append(c.out, line) /\ d.outidx = c.outidx

LEMMA AddsPart ==
  ASSUME NEW c, NEW d, Buffer(c), NEW line \in Lines, Longer(c, d, line)
  PROVE  /\ d.out \in Seq(Lines) /\ Len(d.out) = Len(c.out) + 1
         /\ Len(d.out) \notin Part(c) /\ Part(d) = Part(c) \cup {Len(d.out)}
         /\ d.out[Len(d.out)] = line /\ \A i \in Part(c) : d.out[i] = c.out[i]
<1>1. /\ Len(c.out) \in Nat /\ c.outidx \in Nat /\ c.outidx <= Len(c.out) /\ c.out \in Seq(Lines)
  BY DEF Buffer
<1>2. d.out \in Seq(Lines) /\ Len(d.out) = Len(c.out) + 1 /\ d.out[Len(c.out) + 1] = line
      /\ \A i \in 1..Len(c.out) : d.out[i] = c.out[i]
  BY <1>1 DEF Longer
<1>3. Part(d) = Part(c) \cup {Len(c.out) + 1} /\ Len(c.out) + 1 \notin Part(c)
  BY <1>1, <1>2 DEF Part, Longer
<1> QED BY <1>1, <1>2, <1>3 DEF Part

LEMMA OwnsMore ==
  ASSUME NEW c, NEW d, Buffer(c), NEW line \in Lines, Longer(c, d, line),
         NEW s, NEW L, \A i \in Part(c) : c.out[i].of = s \/ c.out[i].of \in L, line.of = s \/ line.of \in L
  PROVE  Owns(d, s, L)
<1>1. /\ Part(d) = Part(c) \cup {Len(d.out)}
      /\ d.out[Len(d.out)] = line /\ \A i \in Part(c) : d.out[i] = c.out[i]
  BY AddsPart
<1> QED BY <1>1 DEF Owns

LEMMA TextKeepsMarks ==
  ASSUME NEW c, NEW d, Buffer(c), NEW s \in Names, Longer(c, d, Line("text", s)), NEW n
  PROVE  Marks(d, n) = Marks(c, n)
<1>1. Line("text", s) \in Lines /\ Line("text", s) # Line("mark", n)
  BY DEF Line, Lines
<1>2. /\ Part(d) = Part(c) \cup {Len(d.out)}
      /\ d.out[Len(d.out)] = Line("text", s) /\ \A i \in Part(c) : d.out[i] = c.out[i]
  BY <1>1, AddsPart
<1> QED BY <1>1, <1>2 DEF Marks

LEMMA MarkAdds ==
  ASSUME NEW c, NEW d, Buffer(c), NEW s \in Names, Longer(c, d, Line("mark", s))
  PROVE  /\ Marks(c, s) = {} => Single(Marks(d, s))
         /\ Single(Marks(c, s)) => Two(Marks(d, s))
<1>1. Line("mark", s) \in Lines
  BY DEF Line, Lines
<1>2. Marks(d, s) = Marks(c, s) \cup {Len(d.out)} /\ Len(d.out) \notin Marks(c, s)
  <2>1. /\ Len(d.out) \notin Part(c) /\ Part(d) = Part(c) \cup {Len(d.out)}
        /\ d.out[Len(d.out)] = Line("mark", s) /\ \A i \in Part(c) : d.out[i] = c.out[i]
    BY <1>1, AddsPart
  <2> QED BY <2>1 DEF Marks
<1>3. ASSUME Marks(c, s) = {} PROVE Single(Marks(d, s))
  BY <1>2, <1>3 DEF Single
<1>4. ASSUME Single(Marks(c, s)) PROVE Two(Marks(d, s))
  <2>1. PICK i \in Marks(c, s) : Marks(c, s) = {i}
    BY <1>4 DEF Single
  <2>2. i # Len(d.out) /\ Marks(d, s) = {i, Len(d.out)}
    BY <1>2, <2>1
  <2> QED BY <2>2 DEF Two
<1> QED BY <1>3, <1>4

\* Where the lines of others are, there is no mark of s.
LEMMA NoMarks ==
  ASSUME NEW c, NEW s, NEW L, s \notin L, s # None, Owns(c, None, L) PROVE Marks(c, s) = {}
BY DEF Owns, Marks, Line

\* After the text is taken, the part begins where the last mark ended.
LEMMA ClosedPart ==
  ASSUME NEW c, NEW d, Buffer(c), ClosesText(c, d)
  PROVE  /\ Buffer(d)
         /\ \A i \in Part(d) : i \in Part(c) /\ d.out[i] = c.out[i]
         /\ c.nextoutidx = Len(c.out) => Part(d) = {}
<1>1. /\ Len(c.out) \in Nat /\ c.outidx \in Nat /\ c.nextoutidx \in Nat /\ c.outidx <= c.nextoutidx
      /\ c.nextoutidx <= Len(c.out) /\ d.out = c.out /\ d.outidx = c.nextoutidx /\ d.nextoutidx = c.nextoutidx
  BY DEF Buffer, ClosesText
<1>2. Buffer(d)
  BY <1>1 DEF Buffer, ClosesText
<1>3. \A i \in Part(d) : i \in Part(c)
  BY <1>1 DEF Part
<1>4. c.nextoutidx = Len(c.out) => Part(d) = {}
  BY <1>1 DEF Part
<1> QED BY <1>1, <1>2, <1>3, <1>4

\* What is taken is the part.
LEMMA PartIsText ==
  ASSUME NEW c, Buffer(c), NEW s, NEW L, Owns(c, s, L), Two(Marks(c, s))
  PROVE  IsText(Text(c.out, c.outidx, Len(c.out) - c.outidx), s, L)
<1> DEFINE text == Text(c.out, c.outidx, Len(c.out) - c.outidx)
           o == c.outidx
           n == Len(c.out)
<1>1. o \in Nat /\ n \in Nat /\ o <= n /\ DOMAIN c.out = 1..n
  BY DEF Buffer
<1>2. Part(c) = o + 1 .. n
  BY DEF Part
<1>3. DOMAIN text = 1..(n - o) /\ \A i \in 1..(n - o) : text[i] = c.out[o + i] /\ o + i \in Part(c)
  <2>1. \A i \in 1..(n - o) : o + i \in DOMAIN c.out /\ o + i \in Part(c)
    BY <1>1, <1>2
  <2> QED BY <2>1 DEF Text
<1> HIDE DEF text
<1>4. \A j \in Part(c) : j - o \in 1..(n - o) /\ o + (j - o) = j
  BY <1>1, <1>2
<1>5. \A i \in DOMAIN text : text[i].of = s \/ text[i].of \in L
  BY <1>3 DEF Owns
<1>6. PICK i, j \in Marks(c, s) : i # j /\ Marks(c, s) = {i, j}
  BY DEF Two
<1>7. i \in Part(c) /\ j \in Part(c) /\ i - o # j - o
  BY <1>1, <1>2, <1>6 DEF Marks
<1> DEFINE S == {k \in DOMAIN text : text[k] = Line("mark", s)}
<1>8. i - o \in S /\ j - o \in S
  BY <1>3, <1>4, <1>6, <1>7 DEF Marks
<1>9. ASSUME NEW k \in S PROVE k = i - o \/ k = j - o
  <2>1. k \in 1..(n - o) /\ o + k \in Marks(c, s)
    BY <1>3 DEF Marks
  <2>2. o + k = i \/ o + k = j
    BY <1>6, <2>1
  <2> QED BY <1>1, <1>2, <1>7, <2>1, <2>2
<1>10. S = {i - o, j - o}
  BY <1>8, <1>9
<1>11. Two(S)
  BY <1>7, <1>8, <1>10 DEF Two
<1> QED BY <1>5, <1>11 DEF IsText, text

\* Of more that is lost, more may be in a text.
LEMMA MoreLost ==
  ASSUME NEW L, NEW M, L \subseteq M
  PROVE  /\ \A c, s : Owns(c, s, L) => Owns(c, s, M)
         /\ \A text, s : IsText(text, s, L) => IsText(text, s, M)
BY DEF Owns, IsText

LEMMA SameParts ==
  ASSUME NEW c, NEW d, SameOut(c, d)
  PROVE  /\ Buffer(c) => Buffer(d)
         /\ \A s, L : Owns(c, s, L) => Owns(d, s, L)
         /\ \A s : Marks(d, s) = Marks(c, s)
<1>1. Part(d) = Part(c)
  BY DEF SameOut, Part
<1> QED BY <1>1 DEF SameOut, Buffer, Owns, Marks

-----------------------------------------------------------------------------
(* The steps.                                                              *)

\* The buffer stays, and the place of the parser but for dynamic subtests.
Near(state, after) == state = after \/ {state, after} \subseteq InSubtest

LEMMA OutKept ==
  ASSUME OutInv, TypeOK, SameOut(context, context'), context'.test = context.test,
         Near(context.state, context'.state), UNCHANGED <<in_subtest, begun, resumes>>,
         \A s \in Names : said'[s] = said[s]
  PROVE  OutInv'
<1>1. Lost' = Lost
  BY DEF Lost, TypeOK
<1>2. \A s \in Names : (Ended(s)' <=> Ended(s)) /\ (Replaced(s)' <=> Replaced(s))
  BY DEF Ended, Replaced
<1>3. /\ \A s, L : Owns(context, s, L) => Owns(context', s, L)
      /\ \A s : Marks(context', s) = Marks(context, s)
      /\ Buffer(context')
  BY SameParts DEF OutInv
<1>4. context'.texts = context.texts /\ context'.nextoutidx = context.nextoutidx /\ context'.out = context.out
  BY DEF SameOut
<1>5. Ended(context.test)' => Ended(context.test)
  BY <1>2 DEF Ended, TypeOK
<1>6. CurrentText'
  BY <1>1, <1>2, <1>3, <1>4, <1>5 DEF OutInv, CurrentText, Near, InSubtest
<1>7. EndedTexts'
  BY <1>1, <1>2, <1>4 DEF OutInv, EndedTexts
<1> QED BY <1>3, <1>6, <1>7 DEF OutInv

LEMMA OutOfInv == ASSUME CoreInv PROVE TypeOK /\ PlaceInv /\ FreshInv /\ ContextInv /\ FirstInv /\ resumes \in Nat
BY StillRunning DEF CoreInv

LEMMA QuietOut ==
  ASSUME CoreInv, OutInv, UNCHANGED <<in_subtest, begun, resumes, said, context>> PROVE OutInv'
<1>1. SameOut(context, context')
  BY DEF SameOut, OutInv, Buffer
<1> QED BY <1>1, OutOfInv, OutKept DEF Near

LEMMA OverridesOut ==
  ASSUME CoreInv, OutInv, Interrupt \/ AbortAfter PROVE OutInv'
<1>1. UNCHANGED <<in_subtest, begun, resumes, said>>
  BY DEF Interrupt, AbortAfter, place, threads, bounds
<1>2. PICK r : context' = HandleOverride(context, r)
  BY ContextRead, Dispatch DEF Interrupt, AbortAfter, Write
<1>3. SameOut(context, context') /\ context'.test = context.test /\ context'.state = context.state
  BY <1>2, OverrideOut DEF OutInv, Buffer
<1> QED BY <1>1, <1>3, OutOfInv, OutKept DEF Near

\* What the packet of a start is handled on.
LEMMA SentOut ==
  ASSUME CoreInv, OutInv, NEW p, SendStart(p)
  PROVE  \E d : /\ SameOut(context, d) /\ d.test = context.test /\ d.state = context.state
                /\ context' = Handle(d, p)
<1>1. DOMAIN context = Fields
  BY DEF OutInv, Buffer
<1>2. CASE Send(p)
  BY <1>1, <1>2 DEF Send, Write, SameOut
<1>3. CASE AbortBefore(p)
  <2>1. context' = Handle(HandleOverride(context, "abort"), p)
    BY <1>3, ContextRead, Dispatch DEF AbortBefore
  <2> QED BY <1>1, <2>1, OverrideOut
<1> QED BY <1>2, <1>3 DEF SendStart

LEMMA RunDynamicOut == ASSUME CoreInv, OutInv, RunDynamic PROVE OutInv'
<1> DEFINE k == entered + 1
           p == Packet("dynamic start", k, None)
<1>1. SendStart(p) /\ UNCHANGED <<in_subtest, begun, resumes, said>> /\ InContainer /\ Running
  BY DEF RunDynamic, bounds
<1>2. context.state \in {"subtest", "between dynamics"}
  BY <1>1, OutOfInv, StillRunning DEF PlaceInv, InContainer
<1>3. PICK d : /\ SameOut(context, d) /\ d.test = context.test /\ d.state = context.state
               /\ context' = Handle(d, p)
  BY <1>1, SentOut
<1>4. context' = HandleDynamicStart(d, k)
  <2>1. Readable(d)
    BY <1>2, <1>3 DEF Readable
  <2> QED BY <1>3, <2>1, Dispatch
<1>5. SameOut(d, context') /\ context'.state = "dynamic" /\ context'.test = d.test
  <2>1. DOMAIN d = Fields /\ d.state \in {"subtest", "between dynamics"}
    BY <1>2, <1>3 DEF SameOut
  <2> QED BY <1>4, <2>1, DynamicOut
<1>6. SameOut(context, context') /\ Near(context.state, context'.state)
  BY <1>2, <1>3, <1>5 DEF SameOut, Near, InSubtest
<1> QED BY <1>1, <1>3, <1>5, <1>6, OutOfInv, OutKept

LEMMA DynamicEndOut ==
  ASSUME CoreInv, OutInv, Running, in_subtest # None, in_dynamic_subtest # None,
         NEW r, NEW count, ExitSubtest(r, count)
  PROVE  OutInv'
<1>1. /\ UNCHANGED <<in_subtest, begun, resumes>>
      /\ said' = [said EXCEPT ![<<in_subtest, in_dynamic_subtest>>] = Mapped(r)]
      /\ context' = Handle(context, Packet("dynamic result", in_dynamic_subtest, r))
  BY DEF ExitSubtest, Here, Send, Write, bounds
<1>2. \A s \in Names : said'[s] = said[s]
  <2>1. TypeOK
    BY OutOfInv
  <2>2. <<in_subtest, in_dynamic_subtest>> \in Dynamics
    BY <2>1 DEF TypeOK, Dynamics
  <2> QED BY <1>1, <2>1, <2>2, NamesApart DEF TypeOK
<1>3. context.state = "dynamic"
  BY OutOfInv, StillRunning DEF PlaceInv
<1>4. context' = HandleDynamicResult(context, in_dynamic_subtest, r)
  BY <1>1, ContextRead, Dispatch
<1>5. SameOut(context, context') /\ context'.state = "between dynamics" /\ context'.test = context.test
  BY <1>3, <1>4, DynamicOut DEF OutInv, Buffer
<1>6. Near(context.state, context'.state)
  BY <1>3, <1>5 DEF Near, InSubtest
<1> QED BY <1>1, <1>2, <1>5, <1>6, OutOfInv, OutKept

LEMMA LogsOut == ASSUME CoreInv, OutInv, NEW stream, Log(stream) PROVE OutInv'
<1>1. /\ UNCHANGED <<in_subtest, begun, resumes, said>> /\ Running /\ in_subtest # None
      /\ context' = Handle(context, LogPacket(stream, in_subtest))
  BY DEF Log, Send, Write, place, threads
<1>2. context' = HandleLog(context, stream, in_subtest)
  BY <1>1, ContextRead, Dispatch
<1>3. /\ context'.state = context.state /\ context'.test = context.test
      /\ IF stream = "out" THEN AddsLine(context, context', Line("text", in_subtest)) ELSE SameOut(context, context')
  BY <1>2, LogOut DEF OutInv, Buffer
<1>4. CASE stream # "out"
  BY <1>1, <1>3, <1>4, OutOfInv, OutKept DEF Near
<1>5. CASE stream = "out"
  <2>1. AddsLine(context, context', Line("text", in_subtest)) /\ in_subtest \in Names
    BY <1>1, <1>3, <1>5, OutOfInv DEF TypeOK
  <2>2. Line("text", in_subtest) \in Lines /\ Line("text", in_subtest).of = in_subtest
    BY <2>1 DEF Line, Lines
  <2>3. context.state \in InSubtest /\ context.test = in_subtest
    BY <1>1, OutOfInv, StillRunning DEF PlaceInv, InSubtest
  <2>4. Owns(context, in_subtest, Lost) /\ Single(Marks(context, in_subtest)) /\ Buffer(context)
    BY <2>3 DEF OutInv, CurrentText
  <2>5. Longer(context, context', Line("text", in_subtest)) /\ context'.outidx = context.outidx
        /\ context'.nextoutidx = context.nextoutidx /\ context'.texts = context.texts /\ DOMAIN context' = Fields
    BY <2>1 DEF AddsLine, Longer
  <2>6. Buffer(context')
    <3>1. context'.out \in Seq(Lines) /\ Len(context'.out) = Len(context.out) + 1
      BY <2>2, <2>4, <2>5, AddsPart
    <3> QED BY <2>4, <2>5, <3>1 DEF Buffer
  <2>7. Owns(context', in_subtest, Lost)
    <3>1. \A i \in Part(context) : context.out[i].of = in_subtest \/ context.out[i].of \in Lost
      BY <2>4 DEF Owns
    <3> QED BY <2>2, <2>4, <2>5, <3>1, OwnsMore
  <2>8. Marks(context', in_subtest) = Marks(context, in_subtest)
    BY <2>1, <2>4, <2>5, TextKeepsMarks
  <2>9. Lost' = Lost /\ \A s \in Names : (Ended(s)' <=> Ended(s)) /\ (Replaced(s)' <=> Replaced(s))
    BY <1>1 DEF Lost, Ended, Replaced
  <2>10. CurrentText'
    BY <1>1, <1>3, <2>3, <2>4, <2>7, <2>8, <2>9 DEF CurrentText, InSubtest
  <2>11. EndedTexts'
    BY <1>3, <2>5, <2>9 DEF OutInv, EndedTexts
  <2> QED BY <2>6, <2>10, <2>11 DEF OutInv
<1> QED BY <1>4, <1>5

\* The second mark.
LEMMA SubtestEndOut ==
  ASSUME CoreInv, OutInv, Running, in_subtest # None, in_dynamic_subtest = None,
         NEW r \in {"SUCCESS", "SKIP", "FAIL", "CRASH"}, NEW count, ExitSubtest(r, count)
  PROVE  OutInv'
<1> DEFINE s == in_subtest
<1>1. /\ in_subtest' = None /\ UNCHANGED <<begun, resumes>> /\ said' = [said EXCEPT ![s] = Mapped(r)]
      /\ context' = Handle(context, Packet("subtest result", s, r))
  BY DEF ExitSubtest, Here, Send, Write, bounds
<1>2. TypeOK /\ PlaceInv /\ FreshInv /\ ~reaped
  BY OutOfInv, StillRunning
<1>3. s \in Names /\ s \in begun /\ said[s] = None /\ context.test = s
      /\ context.state \in {"subtest", "between dynamics"}
  BY <1>2 DEF TypeOK, PlaceInv, FreshInv
<1>4. context' = HandleSubtestResult(context, s, r)
  BY <1>1, ContextRead, Dispatch
<1>5. context'.state = "between" /\ context'.test = s /\ AddsEnd(context, context', s)
  <2>1. DOMAIN context = Fields /\ Inside(context) /\ context.state # "between"
    BY <1>3 DEF OutInv, Buffer, Inside
  <2>2. context.test = s
    BY <1>3
  <2> QED BY <1>4, <2>1, <2>2, ResultOut
<1>6. Owns(context, s, Lost) /\ Single(Marks(context, s)) /\ Buffer(context)
  BY <1>3 DEF OutInv, CurrentText, InSubtest
<1>7. Line("mark", s) \in Lines /\ Line("mark", s).of = s
  BY <1>3 DEF Line, Lines
<1>8. /\ Longer(context, context', Line("mark", s)) /\ context'.outidx = context.outidx
      /\ context'.nextoutidx = Len(context'.out) /\ context'.texts = context.texts /\ DOMAIN context' = Fields
  BY <1>5 DEF AddsEnd, Longer
<1>9. Buffer(context')
  <2>1. context'.out \in Seq(Lines) /\ Len(context'.out) = Len(context.out) + 1
    BY <1>6, <1>7, <1>8, AddsPart
  <2> QED BY <1>6, <1>8, <2>1 DEF Buffer
<1>10. Owns(context', s, Lost)
  <2>1. \A i \in Part(context) : context.out[i].of = s \/ context.out[i].of \in Lost
    BY <1>6 DEF Owns
  <2> QED BY <1>6, <1>7, <1>8, <2>1, OwnsMore
<1>11. Two(Marks(context', s))
  BY <1>3, <1>6, <1>8, MarkAdds
<1>12. Mapped(r) # None
  BY MappedResult, NamesApart
<1>13. \A n \in Names : said'[n] = IF n = s THEN Mapped(r) ELSE said[n]
  BY <1>1, <1>2 DEF TypeOK
<1>14. Lost' = Lost
  BY <1>1, <1>2, <1>3, <1>12, <1>13, NamesApart DEF Lost, TypeOK
<1>15. \A n \in Names : n # s => (Ended(n)' <=> Ended(n)) /\ (Replaced(n)' <=> Replaced(n))
  BY <1>1, <1>13 DEF Ended, Replaced
<1>16. CurrentText'
  BY <1>5, <1>8, <1>10, <1>11, <1>14 DEF CurrentText, InSubtest
<1>17. EndedTexts'
  BY <1>3, <1>5, <1>8, <1>14, <1>15 DEF OutInv, EndedTexts
<1> QED BY <1>9, <1>16, <1>17 DEF OutInv

LEMMA EndOut ==
  ASSUME CoreInv, OutInv, Running, in_subtest # None,
         NEW r \in {"SUCCESS", "SKIP", "FAIL", "CRASH"}, NEW count, ExitSubtest(r, count)
  PROVE  OutInv'
BY SubtestEndOut, DynamicEndOut

\* Between two subtests, the text that is taken is that of the one before.
LEMMA TakesText ==
  ASSUME CoreInv, OutInv, context.state = "between", NEW e, ClosesText(context, e)
  PROVE  /\ Buffer(e) /\ Part(e) = {}
         /\ \A s \in Names : Ended(s) /\ ~Replaced(s) => IsText(e.texts[s].out, s, Lost)
<1>1. Buffer(context) /\ context.nextoutidx = Len(context.out)
  BY DEF OutInv, CurrentText
<1>2. Buffer(e) /\ Part(e) = {}
  BY <1>1, ClosedPart
<1>3. ASSUME NEW s \in Names, Ended(s), ~Replaced(s) PROVE IsText(e.texts[s].out, s, Lost)
  <2>1. s \in DOMAIN context.texts
    BY <1>1 DEF Buffer
  <2>2. CASE s = context.test
    <3>1. Owns(context, s, Lost) /\ Two(Marks(context, s))
      BY <1>3, <2>2 DEF OutInv, CurrentText
    <3>2. IsText(Text(context.out, context.outidx, Len(context.out) - context.outidx), s, Lost)
      BY <1>1, <3>1, PartIsText
    <3> QED BY <2>1, <2>2, <3>2 DEF ClosesText
  <2>3. CASE s # context.test
    <3>1. e.texts[s].out = context.texts[s].out
      BY <2>1, <2>3 DEF ClosesText
    <3> QED BY <1>3, <2>3, <3>1 DEF OutInv, EndedTexts
  <2> QED BY <2>2, <2>3
<1> QED BY <1>2, <1>3

\* The buffer a new subtest begins in: that of the one before is taken, if there is one.
LEMMA FreshPart ==
  ASSUME CoreInv, OutInv, NEW i, Comes(i), NEW d, SameOut(context, d), d.test = context.test,
         NEW f, (context.state = "exec" /\ f = d) \/ (context.state = "between" /\ ClosesText(d, f))
  PROVE  /\ Buffer(f) /\ Marks(f, Subtests[i]) = {}
         /\ \A j \in Part(f) : f.out[j].of \in Lost
         /\ \A s \in Names : Ended(s) /\ ~Replaced(s) => IsText(f.texts[s].out, s, Lost)
<1> DEFINE s == Subtests[i]
<1>1. s \in Names /\ s # None /\ s \notin begun /\ (context.test = None <=> context.state = "exec")
  BY NewSubtest
<1>2. Buffer(context)
  BY DEF OutInv
<1>3. CASE context.state = "exec" /\ f = d
  <2>1. Buffer(d) /\ Owns(d, None, Lost)
    <3>1. Owns(context, None, Lost)
      BY <1>3 DEF OutInv, CurrentText
    <3> QED BY <1>2, <3>1, SameParts
  <2>2. s \notin Lost
    BY <1>1 DEF Lost
  <2>3. Marks(d, s) = {}
    BY <1>1, <2>1, <2>2, NoMarks
  <2>4. \A j \in Part(d) : d.out[j].of \in Lost
    <3>1. \A j \in Part(d) : d.out[j] \in Lines
      BY <2>1, BufferTypes
    <3> QED BY <2>1, <3>1, NamesApart DEF Owns, Lines
  <2>5. \A n \in Names : Ended(n) /\ ~Replaced(n) => IsText(d.texts[n].out, n, Lost)
    BY <1>1, <1>3, NamesApart DEF OutInv, EndedTexts, SameOut
  <2> QED BY <1>3, <2>1, <2>3, <2>4, <2>5
<1>4. CASE context.state = "between" /\ ClosesText(d, f)
  <2>1. ClosesText(context, f)
    BY <1>4 DEF ClosesText, SameOut
  <2>2. Part(f) = {} /\ Buffer(f) /\ \A n \in Names : Ended(n) /\ ~Replaced(n) => IsText(f.texts[n].out, n, Lost)
    BY <1>4, <2>1, TakesText
  <2> QED BY <2>2 DEF Marks
<1> QED BY <1>3, <1>4

\* A result without a start: the mark of its end is all of its text.
LEMMA SkipSubtestOut == ASSUME CoreInv, OutInv, NEW i, SkipSubtest(i) PROVE OutInv'
<1> DEFINE s == Subtests[i]
<1>1. /\ Comes(i) /\ UNCHANGED <<in_subtest, begun, resumes>> /\ said' = [said EXCEPT ![s] = Mapped(henceforth)]
      /\ context' = Handle(context, Packet("subtest result", s, henceforth))
  BY DEF SkipSubtest, Send, Write, place, bounds
<1>2. /\ s \in Names /\ s \notin begun /\ context.state \in {"exec", "between"}
      /\ (context.test = None <=> context.state = "exec") /\ IsContext(context)
  BY <1>1, NewSubtest
<1>3. context' = HandleSubtestResult(context, s, henceforth)
  BY <1>1, ContextRead, Dispatch
<1>4. Buffer(context) /\ DOMAIN context = Fields
  BY DEF OutInv, Buffer
<1>5. context.state = "between" => context.test \in DOMAIN context.texts
  BY <1>2, <1>4 DEF IsContext, Buffer
<1>6. /\ context'.state = "between" /\ context'.test = s
      /\ context.state = "exec" => AddsEnd(context, context', s)
      /\ context.state = "between" => \E e : ClosesText(context, e) /\ AddsEnd(e, context', s)
  <2>1. context.state \in {"exec", "between"}
    BY <1>2
  <2> QED BY <1>3, <1>4, <1>5, <2>1, ResultOut
<1>7. PICK f : /\ (context.state = "exec" /\ f = context) \/ (context.state = "between" /\ ClosesText(context, f))
               /\ AddsEnd(f, context', s)
  BY <1>2, <1>6
<1>8. SameOut(context, context)
  BY <1>4 DEF SameOut
<1>9. /\ Buffer(f) /\ \A j \in Part(f) : f.out[j].of \in Lost
      /\ \A n \in Names : Ended(n) /\ ~Replaced(n) => IsText(f.texts[n].out, n, Lost)
  BY <1>1, <1>7, <1>8, FreshPart
<1>10. Line("mark", s) \in Lines /\ Line("mark", s).of = s
  BY <1>2 DEF Line, Lines
<1>11. /\ Longer(f, context', Line("mark", s)) /\ context'.outidx = f.outidx
       /\ context'.nextoutidx = Len(context'.out) /\ context'.texts = f.texts /\ DOMAIN context' = Fields
  BY <1>7 DEF AddsEnd, Longer
<1>12. Buffer(context')
  <2>1. context'.out \in Seq(Lines) /\ Len(context'.out) = Len(f.out) + 1
    BY <1>9, <1>10, <1>11, AddsPart
  <2> QED BY <1>9, <1>11, <2>1 DEF Buffer
<1>13. Owns(context', s, Lost)
  BY <1>9, <1>10, <1>11, OwnsMore
<1>14. \A n \in Names : n # s => said'[n] = said[n]
  BY <1>1, OutOfInv DEF TypeOK
<1>15. Lost' = Lost
  BY <1>1, <1>2, <1>14, OutOfInv DEF Lost, TypeOK
<1>16. \A n \in Names : n # s => (Ended(n)' <=> Ended(n)) /\ (Replaced(n)' <=> Replaced(n))
  BY <1>1, <1>14 DEF Ended, Replaced
<1>17. ~Ended(s)'
  BY <1>1, <1>2 DEF Ended
<1>18. CurrentText'
  BY <1>6, <1>11, <1>13, <1>15, <1>17 DEF CurrentText, InSubtest
<1>19. EndedTexts'
  BY <1>6, <1>9, <1>11, <1>15, <1>16 DEF EndedTexts
<1> QED BY <1>12, <1>18, <1>19 DEF OutInv

\* The first mark.
LEMMA RunSubtestOut == ASSUME CoreInv, OutInv, NEW i, RunSubtest(i) PROVE OutInv'
<1> DEFINE s == Subtests[i]
           p == Packet("subtest start", s, None)
<1>1. /\ Comes(i) /\ in_subtest' = s /\ begun' = begun \cup {s} /\ said' = [said EXCEPT ![s] = None]
      /\ resumes' = resumes /\ SendStart(p)
  BY DEF RunSubtest, bounds
<1>2. /\ s \in Names /\ s # None /\ s \notin begun /\ context.state \in {"exec", "between"}
      /\ (context.test = None <=> context.state = "exec") /\ IsContext(context) /\ in_subtest = None
  BY <1>1, NewSubtest
<1>3. PICK d : /\ SameOut(context, d) /\ d.test = context.test /\ d.state = context.state
               /\ context' = Handle(d, p)
  BY <1>1, SentOut
<1>4. context' = HandleSubtestStart(d, s)
  <2>1. Readable(d)
    BY <1>2, <1>3 DEF Readable
  <2> QED BY <1>3, <2>1, Dispatch
<1>5. DOMAIN d = Fields /\ (d.state = "between" => d.test \in DOMAIN d.texts)
  BY <1>2, <1>3 DEF SameOut, OutInv, Buffer, IsContext
<1>6. /\ context'.state = "subtest" /\ context'.test = s
      /\ d.state = "exec" => AddsLine(d, context', Line("mark", s))
      /\ d.state = "between" => \E e : ClosesText(d, e) /\ AddsLine(e, context', Line("mark", s))
  <2>1. d.state \in {"exec", "between"}
    BY <1>2, <1>3
  <2> QED BY <1>4, <1>5, <2>1, StartOut
<1>7. PICK f : /\ (context.state = "exec" /\ f = d) \/ (context.state = "between" /\ ClosesText(d, f))
               /\ AddsLine(f, context', Line("mark", s))
  BY <1>2, <1>3, <1>6
<1>8. /\ Buffer(f) /\ Marks(f, s) = {} /\ \A j \in Part(f) : f.out[j].of \in Lost
      /\ \A n \in Names : Ended(n) /\ ~Replaced(n) => IsText(f.texts[n].out, n, Lost)
  BY <1>1, <1>3, <1>7, FreshPart
<1>9. Line("mark", s) \in Lines /\ Line("mark", s).of = s
  BY <1>2 DEF Line, Lines
<1>10. /\ Longer(f, context', Line("mark", s)) /\ context'.outidx = f.outidx
       /\ context'.nextoutidx = f.nextoutidx /\ context'.texts = f.texts /\ DOMAIN context' = Fields
  BY <1>7 DEF AddsLine, Longer
<1>11. Buffer(context')
  <2>1. context'.out \in Seq(Lines) /\ Len(context'.out) = Len(f.out) + 1
    BY <1>8, <1>9, <1>10, AddsPart
  <2> QED BY <1>8, <1>10, <2>1 DEF Buffer
<1>12. Owns(context', s, Lost)
  BY <1>8, <1>9, <1>10, OwnsMore
<1>13. Single(Marks(context', s))
  BY <1>2, <1>8, <1>10, MarkAdds
<1>14. \A n \in Names : said'[n] = IF n = s THEN None ELSE said[n]
  BY <1>1, OutOfInv DEF TypeOK
<1>15. Lost' = Lost
  <2>1. begun \subseteq Names /\ None \notin Names
    BY OutOfInv, NamesApart DEF TypeOK
  <2> QED BY <1>1, <1>2, <1>14, <2>1 DEF Lost
<1>16. \A n \in Names : n # s => (Ended(n)' <=> Ended(n)) /\ (Replaced(n)' <=> Replaced(n))
  BY <1>1, <1>14 DEF Ended, Replaced
<1>17. CurrentText'
  BY <1>1, <1>6, <1>12, <1>13, <1>15 DEF CurrentText, InSubtest
<1>18. EndedTexts'
  BY <1>6, <1>8, <1>10, <1>15, <1>16 DEF EndedTexts
<1> QED BY <1>11, <1>17, <1>18 DEF OutInv

\* A new execution: who was in a subtest is lost.
LEMMA ExecutesOut ==
  ASSUME CoreInv, OutInv, NEW left, Exec(left), ~reaped, resumes' \in Nat, resumes' >= resumes PROVE OutInv'
<1>1. /\ context' = HandleExec(context) /\ in_subtest' = None /\ UNCHANGED <<said, begun>>
  BY ContextRead, Dispatch DEF Exec, Write
<1>2. TypeOK /\ PlaceInv /\ FreshInv /\ ContextInv /\ resumes \in Nat
  BY OutOfInv
<1>3. Buffer(context) /\ DOMAIN context = Fields
  BY DEF OutInv, Buffer
<1>4. /\ context.test = None <=> context.state \in {"initial", "exec"}
      /\ context.test # None => context.test \in DOMAIN context.texts
  BY <1>2, <1>3 DEF ContextInv, IsContext, Buffer
<1>5. context'.state = "exec" /\ context'.test = None
  BY <1>1, <1>4, ContextRead, ExecHandled
<1>6. /\ context.state = "initial" => SameOut(context, context')
      /\ context.state = "exec" =>
           /\ DOMAIN context' = Fields /\ context'.out = <<>> /\ context'.outidx = 0 /\ context'.nextoutidx = 0
           /\ context'.texts = context.texts
      /\ context.state \notin {"initial", "exec"} => ClosesText(context, context')
  BY <1>1, <1>3, <1>4, ExecOut
<1>7. Lost \subseteq Lost'
  BY <1>1, <1>2, NamesApart DEF Lost, TypeOK
<1>8. \A s \in Names : (Ended(s)' <=> Ended(s)) /\ (~Replaced(s)' => ~Replaced(s))
  BY <1>1, <1>2 DEF Ended, Replaced
<1>9. context.state \in {"initial", "exec", "between"} \cup InSubtest
  BY <1>2 DEF ContextInv, PlaceInv, InSubtest
<1>10. /\ Buffer(context') /\ Owns(context', None, Lost')
       /\ \A s \in Names : Ended(s) /\ ~Replaced(s) => IsText(context'.texts[s].out, s, Lost)
  <2>1. CASE context.state = "initial"
    <3>1. Buffer(context') /\ Owns(context', None, Lost)
      <4>1. Owns(context, None, Lost)
        BY <2>1 DEF OutInv, CurrentText
      <4> QED BY <1>3, <1>6, <2>1, <4>1, SameParts
    <3>2. \A s \in Names : Ended(s) /\ ~Replaced(s) => IsText(context'.texts[s].out, s, Lost)
      BY <1>4, <1>6, <2>1, NamesApart DEF OutInv, EndedTexts, SameOut
    <3> QED BY <1>7, <3>1, <3>2, MoreLost
  <2>2. CASE context.state = "exec"
    <3>1. context'.out = <<>> /\ context'.outidx = 0 /\ context'.nextoutidx = 0 /\ context'.texts = context.texts
          /\ DOMAIN context' = Fields
      BY <1>6, <2>2
    <3>2. Buffer(context')
      BY <1>3, <3>1 DEF Buffer
    <3>3. Owns(context', None, Lost')
      BY <3>1 DEF Owns, Part
    <3>4. \A s \in Names : Ended(s) /\ ~Replaced(s) => IsText(context'.texts[s].out, s, Lost)
      BY <1>4, <2>2, <3>1, NamesApart DEF OutInv, EndedTexts
    <3> QED BY <3>2, <3>3, <3>4
  <2>3. CASE context.state = "between"
    <3>1. Buffer(context') /\ Part(context') = {}
          /\ \A s \in Names : Ended(s) /\ ~Replaced(s) => IsText(context'.texts[s].out, s, Lost)
      BY <1>6, <2>3, TakesText
    <3> QED BY <3>1 DEF Owns
  <2>4. CASE context.state \in InSubtest
    <3>1. ClosesText(context, context')
      BY <1>6, <2>4 DEF InSubtest
    <3>2. context.test = in_subtest /\ context.test # None /\ Owns(context, in_subtest, Lost)
      BY <1>4, <2>4 DEF OutInv, CurrentText, InSubtest
    <3>3. in_subtest \in begun /\ said[in_subtest] = None /\ in_subtest \in Names
      BY <1>2, <3>2 DEF FreshInv, TypeOK
    <3>4. in_subtest \in Lost'
      BY <1>1, <3>2, <3>3 DEF Lost
    <3>5. Buffer(context') /\ \A j \in Part(context') : j \in Part(context) /\ context'.out[j] = context.out[j]
      BY <1>3, <3>1, ClosedPart
    <3>6. Owns(context', None, Lost')
      BY <1>7, <3>2, <3>4, <3>5 DEF Owns
    <3>7. \A s \in Names : Ended(s) /\ ~Replaced(s) => s # context.test /\ s \in DOMAIN context.texts
      BY <1>3, <3>2, <3>3 DEF Ended, Buffer
    <3>8. \A s \in Names : Ended(s) /\ ~Replaced(s) => IsText(context'.texts[s].out, s, Lost)
      BY <3>1, <3>7 DEF OutInv, EndedTexts, ClosesText
    <3> QED BY <3>5, <3>6, <3>8
  <2> QED BY <1>9, <2>1, <2>2, <2>3, <2>4
<1>11. CurrentText'
  BY <1>5, <1>10 DEF CurrentText, InSubtest
<1>12. EndedTexts'
  BY <1>7, <1>8, <1>10, MoreLost DEF EndedTexts
<1> QED BY <1>10, <1>11, <1>12 DEF OutInv

LEMMA ReapOut == ASSUME CoreInv, OutInv, NEW timeout \in BOOLEAN, Reap(timeout) PROVE OutInv'
<1>1. /\ UNCHANGED <<in_subtest, begun, resumes, said>> /\ pc = "exited" /\ ~reaped
  BY DEF Reap, place, threads, bounds
<1>2. CASE aborting
  BY <1>1, <1>2, QuietOut DEF Reap
<1>3. CASE ~aborting
  <2> DEFINE c == IF timeout THEN HandleOverride(context, "timeout") ELSE context
  <2>1. context' = Handle(c, ExitPacket(exitcode))
    BY <1>3, ContextRead, Dispatch DEF Reap
  <2>2. SameOut(context, c) /\ c.test = context.test /\ c.state = context.state
    BY OverrideOut DEF OutInv, Buffer, SameOut
  <2> HIDE DEF c
  <2>3. context' = HandleExit(c, exitcode)
    <3>1. Readable(c)
      BY <2>2, ContextRead DEF Readable
    <3> QED BY <2>1, <3>1, Dispatch
  <2> DEFINE t == IF EntryFirst = None THEN Binary ELSE EntryFirst
  <2>4. SameOut(c, context') /\ context'.state = "exited" /\ context'.test = IF c.state = "exec" THEN t ELSE c.test
    BY <2>2, <2>3, ExitOut DEF SameOut
  <2>5. SameOut(context, context')
    BY <2>2, <2>4 DEF SameOut
  <2>6. context'.test = IF context.state = "exec" THEN t ELSE context.test
    BY <2>2, <2>4
  <2>7. TypeOK /\ PlaceInv /\ FreshInv /\ ContextInv /\ FirstInv /\ resumes \in Nat
    BY OutOfInv
  <2>8. context.state \in {"exec", "between"} \cup InSubtest
    BY <1>1, <2>7 DEF ContextInv, PlaceInv, InSubtest
  <2>9. Lost' = Lost /\ \A s \in Names : (Ended(s)' <=> Ended(s)) /\ (Replaced(s)' <=> Replaced(s))
    BY <1>1 DEF Lost, Ended, Replaced
  <2>10. Buffer(context') /\ (\A s, L : Owns(context, s, L) => Owns(context', s, L))
         /\ (\A s : Marks(context', s) = Marks(context, s)) /\ context'.texts = context.texts
    BY <2>5, SameParts DEF OutInv, SameOut
  <2>11. ASSUME NEW s \in Names, s = context'.test, Ended(s), ~Replaced(s)
         PROVE  Owns(context, s, Lost) /\ Two(Marks(context, s))
    <3>1. CASE context.state = "exec"
      <4>1. s = EntryFirst
        BY <2>6, <2>11, <3>1, NamesApart
      <4>2. resumes = 0
        BY <2>7, <2>11, <4>1 DEF Replaced
      <4> QED BY <2>7, <2>11, <3>1, <4>2 DEF FirstInv, Ended
    <3>2. CASE context.state = "between"
      BY <2>6, <2>11, <3>2 DEF OutInv, CurrentText
    <3>3. CASE context.state \in InSubtest
      <4>1. s = in_subtest
        BY <2>6, <2>11, <3>3 DEF OutInv, CurrentText, InSubtest
      <4> QED BY <2>7, <2>11, <4>1, NamesApart DEF FreshInv, Ended
    <3> QED BY <2>8, <3>1, <3>2, <3>3
  <2>12. CurrentText'
    BY <2>4, <2>9, <2>10, <2>11 DEF CurrentText, InSubtest
  <2>13. \A s \in Names : s # context'.test => s # context.test
    BY <2>6, <2>7, NamesApart DEF ContextInv
  <2>14. EndedTexts'
    BY <2>9, <2>10, <2>13 DEF OutInv, EndedTexts
  <2> QED BY <2>10, <2>12, <2>14 DEF OutInv
<1> QED BY <1>2, <1>3

LEMMA InitOut == Init => OutInv
<1> SUFFICES ASSUME Init PROVE OutInv
  OBVIOUS
<1>1. context = NewContext /\ begun = {}
  BY DEF Init
<1>2. /\ DOMAIN context = Fields /\ context.out = <<>> /\ context.outidx = 0 /\ context.nextoutidx = 0
      /\ context.state = "initial" /\ DOMAIN context.texts = Names \cup {Binary}
  BY <1>1 DEF NewContext, Fields
<1>3. Buffer(context)
  BY <1>2 DEF Buffer
<1>4. CurrentText
  BY <1>2 DEF CurrentText, InSubtest, Owns, Part
<1>5. EndedTexts
  BY <1>1 DEF EndedTexts, Ended
<1> QED BY <1>3, <1>4, <1>5 DEF OutInv

LEMMA NextOut == CoreInv /\ OutInv /\ [Next]_vars => OutInv'
<1> SUFFICES ASSUME CoreInv, OutInv, [Next]_vars PROVE OutInv'
  OBVIOUS
<1>1. CASE TestStep
  <2>1. CASE Fixture \/ FixtureComplete \/ SkipFixture \/ FailFixture \/ GroupSave \/ GroupRestore \/ ThreadFails
    BY <2>1, QuietOut DEF Fixture, FixtureComplete, SkipFixture, FailFixture, GroupSave, GroupRestore, ThreadFails,
                          Silent, place, threads, bounds
  <2>2. CASE \E i \in DOMAIN Subtests : SkipSubtest(i) \/ RunSubtest(i)
    BY <2>2, SkipSubtestOut, RunSubtestOut
  <2>3. CASE RunDynamic
    BY <2>3, RunDynamicOut
  <2>4. CASE \E stream \in Streams : Log(stream)
    BY <2>4, LogsOut
  <2>5. CASE (Running /\ in_subtest # None /\ Skip) \/ SuccessSkips
    BY <2>5, EndOut DEF Skip, SuccessSkips, InContainer
  <2>6. CASE Assert \/ Success \/ Crash \/ SuccessFailsForDynamic
    BY <2>6, EndOut DEF Assert, Success, Crash, SuccessFailsForDynamic, Fail, InContainer
  <2>7. CASE SuccessFailsForThread
    <3>1. CASE InContainer /\ ~dynamic_failed_one
      BY <2>7, <3>1, QuietOut DEF SuccessFailsForThread, Dies, Silent, place, threads, bounds
    <3>2. CASE ~(InContainer /\ ~dynamic_failed_one)
      BY <2>7, <3>2, EndOut DEF SuccessFailsForThread, Fail
    <3> QED BY <3>1, <3>2
  <2>8. CASE igt_exit \/ Abort \/ Killed
    BY <2>8, QuietOut DEF igt_exit, Abort, Killed, Dies, Silent, place, threads, bounds
  <2> QED BY <1>1, <2>1, <2>2, <2>3, <2>4, <2>5, <2>6, <2>7, <2>8 DEF TestStep
<1>2. CASE RunnerStep
  <2>1. CASE Start
    <3>1. ~reaped /\ resumes' = resumes /\ resumes \in Nat
      BY <2>1, OutOfInv DEF Start, PlaceInv
    <3> QED BY <2>1, <3>1, ExecutesOut DEF Start
  <2>2. CASE Resume
    <3>1. ~reaped /\ resumes' = resumes + 1 /\ resumes \in Nat
      BY <2>2, OutOfInv DEF Resume
    <3> QED BY <2>2, <3>1, ExecutesOut DEF Resume
  <2>3. CASE Interrupt \/ AbortAfter
    BY <2>3, OverridesOut
  <2>4. CASE \E timeout \in BOOLEAN : Reap(timeout)
    BY <2>4, ReapOut
  <2> QED BY <1>2, <2>1, <2>2, <2>3, <2>4 DEF RunnerStep
<1>3. CASE Done \/ UNCHANGED vars
  BY <1>3, QuietOut DEF Done, vars, place, threads, bounds
<1> QED BY <1>1, <1>2, <1>3 DEF Next

\* The text of a subtest has the two marks of it, and besides the lines logged in it
\* only such as were logged in a subtest that never came to its end.
THEOREM TextsAreOwn == Spec => []OutIsOwn
<1>1. ASSUME CoreInv, OutInv PROVE OutIsOwn
  <2> DEFINE d == FinishAnyDynamic(context)
             end == IF d.test = None THEN d ELSE FinishSubtest(d)
  <2>1. end = Finished(context)
    BY DEF Finished
  <2> SUFFICES ASSUME NEW s \in Names, Ended(s), ~Replaced(s)
               PROVE  LET text == end.texts[s].out
                      IN /\ Cardinality({i \in DOMAIN text : text[i] = Line("mark", s)}) = 2
                         /\ \A i \in DOMAIN text : text[i].of # s => text[i].of \in begun /\ said[text[i].of] = None
    BY <2>1 DEF OutIsOwn
  <2>2. SameOut(context, d) /\ d.test = context.test
    BY <1>1, FinishAnyDynamicOut DEF OutInv, Buffer
  <2> HIDE DEF d
  <2>3. Buffer(context) /\ ContextInv /\ FreshInv /\ TypeOK
    BY <1>1, OutOfInv DEF OutInv
  <2>4. end.texts[s].out = IF s = context.test THEN Text(context.out, context.outidx, Len(context.out) - context.outidx)
                           ELSE context.texts[s].out
    <3>1. CASE d.test = None
      BY <2>2, <3>1, NamesApart DEF SameOut
    <3>2. CASE d.test # None
      <4>1. d.test \in DOMAIN d.texts /\ s \in DOMAIN d.texts
        BY <2>2, <2>3, <3>2 DEF SameOut, Buffer, ContextInv, IsContext
      <4>2. ClosesText(d, FinishSubtest(d))
        BY <2>2, <4>1, FinishSubtestOut DEF SameOut
      <4> QED BY <2>2, <3>2, <4>1, <4>2 DEF ClosesText, SameOut
    <3> QED BY <3>1, <3>2
  <2> HIDE DEF end
  <2>5. IsText(end.texts[s].out, s, Lost)
    <3>1. CASE s # context.test
      BY <1>1, <2>4, <3>1 DEF OutInv, EndedTexts
    <3>2. CASE s = context.test
      <4>1. context.state \in InSubtest \cup {"between", "exited"}
        BY <2>3, <3>2, NamesApart DEF ContextInv, InSubtest
      <4>2. context.state \notin InSubtest
        BY <1>1, <2>3, <3>2, NamesApart DEF OutInv, CurrentText, InSubtest, FreshInv, Ended
      <4>3. Owns(context, s, Lost) /\ Two(Marks(context, s))
        BY <1>1, <3>2, <4>1, <4>2 DEF OutInv, CurrentText
      <4> QED BY <2>3, <2>4, <3>2, <4>3, PartIsText
    <3> QED BY <3>1, <3>2
  <2> DEFINE text == end.texts[s].out
             marks == {i \in DOMAIN text : text[i] = Line("mark", s)}
  <2>6. \A i \in DOMAIN text : text[i].of # s => text[i].of \in begun /\ said[text[i].of] = None
    BY <2>5 DEF IsText, Lost
  <2>7. PICK i, j \in marks : i # j /\ marks = {i, j}
    BY <2>5 DEF IsText, Two
  <2> HIDE DEF marks
  <2>8. Cardinality(marks) = 2
    <3>1. IsFiniteSet({i}) /\ Cardinality({i}) = 1
      BY FS_Singleton
    <3>2. Cardinality({i} \cup {j}) = Cardinality({i}) + 1
      BY <2>7, <3>1, FS_AddElement
    <3>3. marks = {i} \cup {j}
      BY <2>7
    <3> QED BY <3>1, <3>2, <3>3
  <2> QED BY <2>6, <2>8 DEF marks
<1>2. Spec => []OutInv
  BY InitOut, NextOut, Invariant, PTL DEF Spec
<1> QED BY <1>1, <1>2, Invariant, PTL
=============================================================================
