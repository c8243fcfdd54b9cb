----------------------------- MODULE IgtForkProofs -----------------------------
(***************************************************************************)
(* Theorems about the processes of a test, for any number of helpers,      *)
(* children, forks and subtests: no child outlives its subtest, the wait   *)
(* for the children is right about them, and the records of the helpers    *)
(* are right until the exit handler has ended the last of them.            *)
(***************************************************************************)
EXTENDS IgtFork, FiniteSetTheorems, TLAPS

-----------------------------------------------------------------------------
(* The invariant.                                                          *)

Running     == {h \in Helpers : helper[h].pid # None}
Ending      == pc \in {"handlers", "exited"}
Child(p)    == p \in Elements(children)
Gone        == {p \in Elements(children) : state[p] = "gone"}

\* A process is a child once or a helper once, and was started.
ProcessInv ==
  /\ IsInjective(children)
  /\ \A p \in Pids : Child(p) => state[p] # "none" /\ \A h \in Helpers : helper[h].pid # p
  /\ \A h \in Running : state[helper[h].pid] # "none" /\ \A g \in Running : helper[g].pid = helper[h].pid => g = h
  /\ \A p \in Pids : state[p] = "none" => status[p] = "ok"

\* Whoever is alive is a child or a helper, until the test ends.
AliveInv ==
  /\ ~Ending => \A p \in Pids : Alive(p) => Child(p) \/ \E h \in Helpers : helper[h].pid = p
  /\ pc = "outside" => children = <<>>

\* Of a subtest that does not wait no child is collected, and as long as none is known
\* to have failed, none is killed.
WaitInv ==
  /\ pc = "subtest" => \A p \in Pids : Child(p) => state[p] # "gone"
  /\ pc = "waiting" => count = Cardinality(Gone)
  /\ pc = "waiting" /\ err = "ok" => \A p \in Gone : status[p] = "ok"
  /\ pc = "subtest" \/ (pc = "waiting" /\ err = "ok") => \A p \in Pids : Child(p) => status[p] # "killed"
  /\ pc = "waiting" => err # "killed"

\* The slots are those of the helpers.
SlotInv ==
  /\ \A h \in Running : helper_process_pids[helper[h].id] = helper[h].pid
  /\ \A i \in 1..MaxHelpers : helper_process_pids[i] # None =>
       \E h \in Running : helper[h].id = i /\ helper[h].pid = helper_process_pids[i]

\* The handler for the helpers is installed once, with the first of them, and done with
\* them when it has run.
HandlerInv ==
  /\ IsInjective(handlers)
  /\ ~Ending \/ "helpers" \in Elements(handlers) => helper_process_count = Cardinality(Running)
  /\ "helpers" \notin Elements(handlers) =>
       /\ helper_process_count = 0
       /\ \A p \in HelperPids : ~Alive(p)
       /\ ~Ending => Running = {}
  /\ pc = "exited" => handlers = <<>>

ForkInv == TypeOK /\ ProcessInv /\ AliveInv /\ WaitInv /\ SlotInv /\ HandlerInv

-----------------------------------------------------------------------------
(* Sequences without repetition.                                           *)

\* What a sequence of S holds is of S.
LEMMA ElementsFit == ASSUME NEW S, NEW s \in Seq(S) PROVE Elements(s) \subseteq S
BY DEF Elements

\* A member is added at the end.
LEMMA AppendElements ==
  ASSUME NEW S, NEW s \in Seq(S), NEW x \in S
  PROVE  /\ Append(s, x) \in Seq(S) /\ Len(Append(s, x)) = Len(s) + 1
         /\ Elements(Append(s, x)) = Elements(s) \cup {x}
         /\ IsInjective(s) /\ x \notin Elements(s) => IsInjective(Append(s, x))
<1> DEFINE a == Append(s, x)
<1>1. /\ a \in Seq(S) /\ Len(a) = Len(s) + 1 /\ DOMAIN a = 1..Len(s) + 1 /\ DOMAIN s = 1..Len(s)
      /\ Len(s) \in Nat /\ \A i \in 1..Len(s) : a[i] = s[i]
      /\ a[Len(s) + 1] = x
  OBVIOUS
<1> HIDE DEF a
<1>2. Elements(a) = Elements(s) \cup {x}
  <2>1. ASSUME NEW y \in Elements(a) PROVE y \in Elements(s) \cup {x}
    <3>1. PICK i \in DOMAIN a : y = a[i]
      BY DEF Elements
    <3>2. i = Len(s) + 1 \/ i \in DOMAIN s
      BY <1>1
    <3> QED
      BY <1>1, <3>1, <3>2 DEF Elements
  <2>2. ASSUME NEW y \in Elements(s) PROVE y \in Elements(a)
    BY <1>1 DEF Elements
  <2>3. x \in Elements(a)
    BY <1>1 DEF Elements
  <2> QED
    BY <2>1, <2>2, <2>3
<1>3. ASSUME IsInjective(s), x \notin Elements(s) PROVE IsInjective(a)
  BY <1>1, <1>3 DEF IsInjective, Elements
<1> QED
  BY <1>1, <1>2, <1>3 DEF a

\* The last one is taken away.
LEMMA FrontElements ==
  ASSUME NEW S, NEW s \in Seq(S), s # <<>>, IsInjective(s)
  PROVE  LET front == SubSeq(s, 1, Len(s) - 1)
         IN  /\ front \in Seq(S) /\ IsInjective(front)
             /\ Elements(front) = Elements(s) \ {s[Len(s)]}
<1> DEFINE f == SubSeq(s, 1, Len(s) - 1)
<1>1. /\ f \in Seq(S) /\ Len(s) \in Nat /\ Len(s) > 0 /\ DOMAIN f = 1..Len(s) - 1 /\ DOMAIN s = 1..Len(s)
      /\ \A i \in 1..Len(s) - 1 : f[i] = s[i]
  OBVIOUS
<1> HIDE DEF f
<1>2. IsInjective(f)
  BY <1>1 DEF IsInjective
<1>3. Elements(f) = Elements(s) \ {s[Len(s)]}
  <2>1. ASSUME NEW y \in Elements(f) PROVE y \in Elements(s) \ {s[Len(s)]}
    <3>1. PICK i \in DOMAIN f : y = f[i]
      BY DEF Elements
    <3>2. i \in DOMAIN s /\ i # Len(s) /\ y = s[i] /\ Len(s) \in DOMAIN s
      BY <3>1, <1>1
    <3> QED
      BY <3>2 DEF Elements, IsInjective
  <2>2. ASSUME NEW y \in Elements(s) \ {s[Len(s)]} PROVE y \in Elements(f)
    BY <1>1 DEF Elements
  <2> QED
    BY <2>1, <2>2
<1> QED
  BY <1>1, <1>2, <1>3 DEF f

\* It has as many members as it is long.
LEMMA ElementsCount ==
  ASSUME NEW S, NEW s \in Seq(S), IsInjective(s)
  PROVE  IsFiniteSet(Elements(s)) /\ Cardinality(Elements(s)) = Len(s)
<1>1. Len(s) \in Nat /\ DOMAIN s = 1..Len(s)
  OBVIOUS
<1>2. s \in Bijection(1..Len(s), Elements(s))
  <2>1. s \in [1..Len(s) -> Elements(s)]
    BY <1>1 DEF Elements
  <2>2. \A y \in Elements(s) : \E i \in 1..Len(s) : s[i] = y
    BY <1>1 DEF Elements
  <2> QED
    BY <2>1, <2>2, <1>1 DEF Bijection, Injection, Surjection, IsInjective
<1>3. ExistsBijection(1..Len(s), Elements(s))
  BY <1>2 DEF ExistsBijection
<1> QED
  BY <1>1, <1>3, FS_CountingElements, FS_NatBijection

-----------------------------------------------------------------------------
(* The sets of the invariant.                                              *)

LEMMA Pid == None \notin Pids /\ IsFiniteSet(Pids)
BY IgtForkAssumption, FS_Interval DEF IgtForkAssumption, Pids, None

LEMMA ChildrenCount ==
  ASSUME TypeOK, ProcessInv
  PROVE  /\ Elements(children) \subseteq Pids /\ IsFiniteSet(Elements(children))
         /\ Cardinality(Elements(children)) = Len(children) /\ Len(children) \in Nat
         /\ IsFiniteSet(Gone) /\ Cardinality(Gone) \in Nat
<1>1. children \in Seq(Pids) /\ IsInjective(children)
  BY DEF TypeOK, ProcessInv
<1>2. /\ Elements(children) \subseteq Pids /\ IsFiniteSet(Elements(children))
      /\ Cardinality(Elements(children)) = Len(children) /\ Len(children) \in Nat
  BY <1>1, ElementsFit, ElementsCount
<1>3. Gone \in SUBSET Elements(children)
  BY DEF Gone
<1> QED
  BY <1>2, <1>3, FS_Subset, FS_CardinalityType

LEMMA RunningCount == IsFiniteSet(Running) /\ Cardinality(Running) \in Nat
<1>1. Running \in SUBSET Helpers
  BY DEF Running
<1> QED
  BY <1>1, FS_Subset, FS_CardinalityType, IgtForkAssumption DEF IgtForkAssumption

\* As many slots are taken as helpers run.
LEMMA SlotsCount ==
  ASSUME TypeOK, ProcessInv, SlotInv
  PROVE  Cardinality({i \in 1..MaxHelpers : helper_process_pids[i] # None}) = Cardinality(Running)
<1> DEFINE T == {i \in 1..MaxHelpers : helper_process_pids[i] # None}
           f == [h \in Running |-> helper[h].id]
<1>0. /\ \A h \in Helpers : helper[h].id \in 1..MaxHelpers
      /\ Running \subseteq Helpers /\ \A h \in Running : helper[h].pid # None
  BY DEF TypeOK, Running
<1>1. f \in [Running -> T]
  BY <1>0 DEF SlotInv
<1>2. \A g, h \in Running : f[g] = f[h] => g = h
  <2>1. SUFFICES ASSUME NEW g \in Running, NEW h \in Running, f[g] = f[h] PROVE g = h
    OBVIOUS
  <2>2. helper[g].id = helper[h].id
    BY <2>1
  <2>3. helper[g].pid = helper[h].pid
    BY <2>2 DEF SlotInv
  <2> QED
    BY <2>3 DEF ProcessInv
<1>3. \A i \in T : \E h \in Running : f[h] = i
  BY DEF SlotInv
<1>4. f \in Bijection(Running, T)
  BY <1>1, <1>2, <1>3 DEF Bijection, Injection, Surjection, IsInjective
<1>5. ExistsBijection(Running, T)
  BY <1>4 DEF ExistsBijection
<1> QED
  BY <1>5, RunningCount, FS_Bijection

-----------------------------------------------------------------------------
(* Steps of the processes.                                                 *)

\* Processes go astray, end, or are killed: none starts, is collected or comes back to life.
Moves == \A p \in Pids :
  /\ state'[p] = "none" <=> state[p] = "none"
  /\ state'[p] = "gone" <=> state[p] = "gone"
  /\ Alive(p)' => Alive(p)
  /\ ~Alive(p) => status'[p] = status[p]

\* Nor is any killed as a child of the main process.
Spares == \A p \in Pids : status'[p] = "killed" => status[p] = "killed"

Records == <<subtests, children, count, err, help, handlers>>

LEMMA MovesKeep ==
  ASSUME ForkInv, TypeOK', Moves, UNCHANGED Records,
         (pc' = pc /\ Spares) \/ pc' = "handlers"
  PROVE  ForkInv'
<1>a. TypeOK /\ ProcessInv /\ AliveInv /\ WaitInv /\ SlotInv /\ HandlerInv
  BY DEF ForkInv
<1>b. /\ \A p : Child(p)' <=> Child(p)
      /\ \A p : Child(p) => p \in Pids
      /\ \A h \in Helpers : helper[h].pid # None => helper[h].pid \in Pids
      /\ Running' = Running
      /\ children' = children /\ count' = count /\ err' = err /\ helper' = helper
  BY <1>a, ChildrenCount DEF Records, help, Child, Running, TypeOK
<1>1. ProcessInv'
  <2>1. \A p \in Pids : state'[p] = "none" => status'[p] = "ok"
    BY <1>a DEF Moves, Alive, ProcessInv
  <2>2. \A p \in Pids : Child(p)' => state'[p] # "none" /\ \A h \in Helpers : helper'[h].pid # p
    BY <1>a, <1>b DEF Moves, ProcessInv
  <2>3. \A h \in Running : state'[helper[h].pid] # "none"
    BY <1>a, <1>b DEF Moves, ProcessInv, Running
  <2> QED
    BY <1>a, <1>b, <2>1, <2>2, <2>3 DEF ProcessInv
<1>2. AliveInv'
  BY <1>a, <1>b DEF AliveInv, Moves, Ending
<1>3. WaitInv'
  <2>1. CASE pc' = "handlers"
    BY <2>1 DEF WaitInv
  <2>2. CASE pc' = pc /\ Spares
    <3>1. Gone' = Gone
      BY <1>b DEF Gone, Moves, Child
    <3>2. \A p \in Gone : p \in Pids /\ status'[p] = status[p]
      BY <1>b DEF Gone, Moves, Child, Alive
    <3> QED
      BY <1>a, <1>b, <2>2, <3>1, <3>2 DEF WaitInv, Moves, Spares
  <2> QED
    BY <2>1, <2>2
<1>4. SlotInv'
  BY <1>a, <1>b DEF SlotInv, Records, help
<1>5. HandlerInv'
  <2>1. Ending' \/ ~Ending'
    OBVIOUS
  <2>2. HelperPids \subseteq Pids /\ HelperPids' = HelperPids
    BY <1>a DEF HelperPids, Elements, TypeOK, Records, help
  <2>3. \A p \in HelperPids : Alive(p)' => Alive(p)
    BY <2>2 DEF Moves
  <2>4. (Ending => Ending') /\ (pc' = "exited" => pc = "exited")
    BY DEF Ending
  <2>5. helper_process_count' = helper_process_count /\ handlers' = handlers
    BY DEF Records, help
  <2> QED
    BY <1>a, <1>b, <2>2, <2>3, <2>4, <2>5 DEF HandlerInv
<1> QED
  BY <1>1, <1>2, <1>3, <1>4, <1>5 DEF ForkInv

LEMMA EndsKeeps ==
  ASSUME ForkInv, NEW p \in Pids, NEW how \in {"ok", "fail", "signal"}, Ends(p, how)
  PROVE  ForkInv'
<1>1. TypeOK /\ UNCHANGED <<main, help, handlers, left, inherited>>
  BY DEF Ends, ForkInv
<1>2. TypeOK'
  BY <1>1 DEF TypeOK, Ends, main, help
<1>3. Moves /\ Spares
  BY <1>1 DEF Ends, TypeOK, Moves, Spares, Alive
<1> QED
  BY <1>1, <1>2, <1>3, MovesKeep DEF Records, main

LEMMA RogueEndsKeeps ==
  ASSUME ForkInv, NEW p \in Pids, RogueEnds(p)
  PROVE  ForkInv'
<1>1. TypeOK /\ UNCHANGED <<main, help, handlers, left, inherited>>
  BY DEF RogueEnds, ForkInv
<1>2. TypeOK'
  BY <1>1 DEF TypeOK, RogueEnds, main, help
<1>3. Moves /\ Spares
  BY <1>1 DEF RogueEnds, TypeOK, Moves, Spares, Alive
<1> QED
  BY <1>1, <1>2, <1>3, MovesKeep DEF Records, main

LEMMA StraysKeeps ==
  ASSUME ForkInv, NEW p \in Pids, Strays(p)
  PROVE  ForkInv'
<1>1. TypeOK /\ UNCHANGED <<main, help, handlers, left, inherited>>
  BY DEF Strays, ForkInv
<1>2. PICK known \in SUBSET {q \in Pids : Alive(q)} :
        /\ state'  = [q \in Pids |-> IF q = p THEN "rogue" ELSE IF q \in known THEN "zombie" ELSE state[q]]
        /\ status' = [q \in Pids |-> IF q \in known THEN "stray" ELSE status[q]]
  <2>1. inherited[p] \in Seq(Pids)
    BY <1>1 DEF TypeOK
  <2>2. {q \in Elements(inherited[p]) : Alive(q)} \in SUBSET {q \in Pids : Alive(q)}
    BY <2>1, ElementsFit
  <2> QED
    BY <2>2 DEF Strays
<1>3. TypeOK'
  BY <1>1, <1>2 DEF TypeOK, main, help
<1>4. Moves /\ Spares
  BY <1>1, <1>2 DEF TypeOK, Strays, Moves, Spares, Alive
<1> QED
  BY <1>1, <1>3, <1>4, MovesKeep DEF Records, main

LEMMA AlarmKeeps ==
  ASSUME ForkInv, igt_alarm_killchildren
  PROVE  ForkInv'
<1>1. TypeOK /\ UNCHANGED <<pc, subtests, children, count, err, help, handlers, left, inherited>> /\ alarm' = FALSE
  BY DEF igt_alarm_killchildren, ForkInv
<1>2. KillAll(Elements(children), "alarm")
  BY DEF igt_alarm_killchildren
<1>3. TypeOK'
  BY <1>1, <1>2 DEF TypeOK, help, KillAll
<1>4. Moves /\ Spares
  BY <1>1, <1>2 DEF TypeOK, KillAll, Moves, Spares, Alive
<1> QED
  BY <1>1, <1>3, <1>4, MovesKeep DEF Records

LEMMA AbortKeeps ==
  ASSUME ForkInv, __igt_abort
  PROVE  ForkInv'
<1>1. /\ TypeOK /\ UNCHANGED <<subtests, children, count, err, alarm, help, handlers, inherited>>
      /\ pc' = "handlers" /\ left' = Len(children)
  BY DEF __igt_abort, Exits, ForkInv
<1>2. KillAll(Elements(children), "killed")
  BY DEF __igt_abort
<1>3. TypeOK'
  BY <1>1, <1>2 DEF TypeOK, help, KillAll
<1>4. Moves
  BY <1>1, <1>2 DEF TypeOK, KillAll, Moves, Alive
<1> QED
  BY <1>1, <1>3, <1>4, MovesKeep DEF Records

\* The exit handlers run, with the processes as they are.
LEMMA ExitsKeeps ==
  ASSUME ForkInv, Exits, UNCHANGED <<subtests, children, count, err, alarm, help, handlers, procs>>
  PROVE  ForkInv'
<1>1. TypeOK /\ Len(children) \in 0..MaxChildren
  BY IgtForkAssumption DEF ForkInv, TypeOK, IgtForkAssumption
<1>2. TypeOK'
  BY <1>1 DEF TypeOK, help, procs, Exits
<1>3. Moves
  BY <1>1 DEF TypeOK, procs, Moves, Alive
<1> QED
  BY <1>2, <1>3, MovesKeep DEF Records, Exits

-----------------------------------------------------------------------------
(* Steps of the main process that leave the helpers alone.                 *)

LEMMA HelpersLeft ==
  ASSUME TypeOK, SlotInv, HandlerInv, UNCHANGED <<help, handlers>>, ~Ending, ~Ending',
         \A p \in Pids : Alive(p)' => Alive(p)
  PROVE  SlotInv' /\ HandlerInv'
<1>1. Running' = Running /\ helper' = helper /\ helper_process_pids' = helper_process_pids
  BY DEF Running, help
<1>2. SlotInv'
  BY <1>1 DEF SlotInv
<1>3. HelperPids \subseteq Pids /\ HelperPids' = HelperPids
  BY <1>1 DEF HelperPids, Elements, TypeOK
<1>4. pc' # "exited" /\ helper_process_count' = helper_process_count /\ handlers' = handlers
  BY DEF Ending, help
<1>5. HandlerInv'
  BY <1>1, <1>3, <1>4 DEF HandlerInv
<1> QED
  BY <1>2, <1>5

LEMMA NoChildren == Elements(<<>>) = {} /\ IsInjective(<<>>) /\ <<>> \in Seq(Pids) /\ Len(<<>>) = 0
BY DEF Elements, IsInjective

LEMMA BeginSubtestKeeps == ASSUME ForkInv, BeginSubtest PROVE ForkInv'
<1>a. TypeOK /\ ProcessInv /\ AliveInv /\ WaitInv /\ SlotInv /\ HandlerInv
  BY DEF ForkInv
<1>1. /\ UNCHANGED <<children, count, err, alarm, help, handlers, left, procs>> /\ pc = "outside" /\ pc' = "subtest"
      /\ subtests < MaxSubtests /\ subtests' = subtests + 1
  BY DEF BeginSubtest
<1>2. TypeOK'
  BY <1>a, <1>1, IgtForkAssumption DEF TypeOK, help, procs, IgtForkAssumption
<1>3. ProcessInv' /\ AliveInv'
  BY <1>a, <1>1 DEF ProcessInv, AliveInv, Child, Alive, Running, Ending, help, procs
<1>4. \A p : ~Child(p)'
  BY <1>a, <1>1, NoChildren DEF Child, AliveInv
<1>5. WaitInv'
  BY <1>1, <1>4 DEF WaitInv
<1>6. SlotInv' /\ HandlerInv'
  BY <1>a, <1>1, HelpersLeft DEF Ending, Alive, procs
<1> QED
  BY <1>2, <1>3, <1>5, <1>6 DEF ForkInv

LEMMA EndSubtestKeeps == ASSUME ForkInv, EndSubtest PROVE ForkInv'
<1>a. TypeOK /\ ProcessInv /\ AliveInv /\ WaitInv /\ SlotInv /\ HandlerInv
  BY DEF ForkInv
<1>1. /\ UNCHANGED <<subtests, children, count, err, alarm, help, handlers, left, procs>>
      /\ pc = "subtest" /\ pc' = "exit_subtest"
  BY DEF EndSubtest
<1>2. TypeOK'
  BY <1>a, <1>1 DEF TypeOK, help, procs
<1>3. ProcessInv' /\ AliveInv'
  BY <1>a, <1>1 DEF ProcessInv, AliveInv, Child, Alive, Running, Ending, help, procs
<1>5. WaitInv'
  BY <1>1 DEF WaitInv
<1>6. SlotInv' /\ HandlerInv'
  BY <1>a, <1>1, HelpersLeft DEF Ending, Alive, procs
<1> QED
  BY <1>2, <1>3, <1>5, <1>6 DEF ForkInv

LEMMA WaitChildrenKeeps ==
  ASSUME ForkInv, NEW timeout \in BOOLEAN, igt_waitchildren(timeout)
  PROVE  ForkInv'
<1>a. TypeOK /\ ProcessInv /\ AliveInv /\ WaitInv /\ SlotInv /\ HandlerInv
  BY DEF ForkInv
<1>1. /\ UNCHANGED <<subtests, children, help, handlers, left, procs>>
      /\ pc = "subtest" /\ pc' = "waiting" /\ count' = 0 /\ err' = "ok" /\ alarm' = timeout
  BY DEF igt_waitchildren
<1>2. TypeOK'
  BY <1>a, <1>1, IgtForkAssumption DEF TypeOK, help, procs, IgtForkAssumption
<1>3. ProcessInv' /\ AliveInv'
  BY <1>a, <1>1 DEF ProcessInv, AliveInv, Child, Alive, Running, Ending, help, procs
<1>4. Gone' = {}
  BY <1>a, <1>1, ChildrenCount DEF WaitInv, Gone, Child, procs
<1>5. \A p \in Pids : Child(p)' => status'[p] # "killed"
  BY <1>a, <1>1 DEF WaitInv, Child, procs
<1>6. WaitInv'
  BY <1>1, <1>4, <1>5, FS_EmptySet DEF WaitInv
<1>7. SlotInv' /\ HandlerInv'
  BY <1>a, <1>1, HelpersLeft DEF Ending, Alive, procs
<1> QED
  BY <1>2, <1>3, <1>6, <1>7 DEF ForkInv

\* The children that are waited for are gone when they have been counted.
LEMMA AllGone ==
  ASSUME TypeOK, ProcessInv, WaitInv, pc = "waiting", count = Len(children)
  PROVE  \A p \in Elements(children) : state[p] = "gone"
<1>1. Gone \in SUBSET Elements(children) /\ Cardinality(Gone) = Len(children)
  BY DEF WaitInv, Gone
<1>2. Gone = Elements(children)
  BY <1>1, ChildrenCount, FS_Subset
<1> QED
  BY <1>2 DEF Gone

LEMMA WaitedKeeps == ASSUME ForkInv, Waited PROVE ForkInv'
<1>a. TypeOK /\ ProcessInv /\ AliveInv /\ WaitInv /\ SlotInv /\ HandlerInv
  BY DEF ForkInv
<1>1. /\ UNCHANGED <<subtests, count, err, help, handlers, left, procs>> /\ pc = "waiting" /\ count = Len(children)
      /\ children' = <<>> /\ alarm' = FALSE /\ pc' \in {"subtest", "exit_subtest"}
  BY DEF Waited
<1>2. TypeOK'
  <2>1. children' \in Seq(Pids) /\ Len(children') <= MaxChildren
    BY <1>1, NoChildren, IgtForkAssumption DEF IgtForkAssumption
  <2> QED
    BY <1>a, <1>1, <2>1 DEF TypeOK, help, procs
<1>3. \A p : ~Child(p)'
  BY <1>1, NoChildren DEF Child
<1>4. ProcessInv'
  BY <1>a, <1>1, <1>3, NoChildren DEF ProcessInv, Running, help, procs
<1>5. AliveInv'
  <2>1. \A p \in Pids : Alive(p) => ~Child(p)
    BY <1>a, <1>1, AllGone DEF Alive, Child
  <2> QED
    BY <1>a, <1>1, <2>1 DEF AliveInv, Ending, Alive, help, procs
<1>6. WaitInv'
  BY <1>1, <1>3 DEF WaitInv
<1>7. SlotInv' /\ HandlerInv'
  BY <1>a, <1>1, HelpersLeft DEF Ending, Alive, procs
<1> QED
  BY <1>2, <1>4, <1>5, <1>6, <1>7 DEF ForkInv

LEMMA ExitSubtestKeeps == ASSUME ForkInv, exit_subtest PROVE ForkInv'
<1>a. TypeOK /\ ProcessInv /\ AliveInv /\ WaitInv /\ SlotInv /\ HandlerInv
  BY DEF ForkInv
<1>1. /\ UNCHANGED <<subtests, count, err, alarm, help, handlers, left, inherited>>
      /\ pc = "exit_subtest" /\ pc' = "outside" /\ children' = <<>>
      /\ KillAndReap(Elements(children))
  BY DEF exit_subtest
<1>2. TypeOK'
  <2>1. children' \in Seq(Pids) /\ Len(children') <= MaxChildren
    BY <1>1, NoChildren, IgtForkAssumption DEF IgtForkAssumption
  <2> QED
    BY <1>a, <1>1, <2>1 DEF TypeOK, help, KillAndReap
<1>3. \A p : ~Child(p)'
  BY <1>1, NoChildren DEF Child
<1>4. \A p \in Pids :
        /\ Child(p) => state'[p] = "gone"
        /\ ~Child(p) => state'[p] = state[p] /\ status'[p] = status[p]
  BY <1>a, <1>1 DEF KillAndReap, Child
<1>5. ProcessInv'
  <2>1. \A h \in Running : helper[h].pid \in Pids
    BY <1>a DEF TypeOK, Running
  <2>2. \A h \in Running : state'[helper[h].pid] # "none"
    BY <1>a, <1>4, <2>1 DEF ProcessInv
  <2> QED
    BY <1>a, <1>1, <1>3, <1>4, <2>2, NoChildren DEF ProcessInv, Running, help
<1>6. AliveInv'
  <2>1. \A p \in Pids : Alive(p)' => ~Child(p) /\ Alive(p)
    BY <1>4 DEF Alive
  <2> QED
    BY <1>a, <1>1, <2>1 DEF AliveInv, Ending, help
<1>7. WaitInv'
  BY <1>1 DEF WaitInv
<1>8. SlotInv' /\ HandlerInv'
  <2>1. \A p \in Pids : Alive(p)' => Alive(p)
    BY <1>4 DEF Alive
  <2> QED
    BY <2>1, <1>a, <1>1, HelpersLeft DEF Ending
<1> QED
  BY <1>2, <1>5, <1>6, <1>7, <1>8 DEF ForkInv

LEMMA ExitKeeps == ASSUME ForkInv, Exit PROVE ForkInv'
<1>a. TypeOK /\ ProcessInv /\ AliveInv /\ WaitInv /\ SlotInv /\ HandlerInv
  BY DEF ForkInv
<1>1. /\ UNCHANGED <<subtests, children, count, err, alarm, help, handlers, left, procs>>
      /\ pc = "handlers" /\ handlers = <<>> /\ pc' = "exited"
  BY DEF Exit
<1>2. TypeOK'
  BY <1>a, <1>1 DEF TypeOK, help, procs
<1>3. ProcessInv' /\ AliveInv' /\ WaitInv'
  BY <1>a, <1>1 DEF ProcessInv, AliveInv, WaitInv, Child, Alive, Running, Ending, help, procs
<1>4. SlotInv' /\ Running' = Running /\ HelperPids' = HelperPids
  BY <1>a, <1>1 DEF SlotInv, Running, HelperPids, help
<1>5. HandlerInv'
  BY <1>a, <1>1, <1>4 DEF HandlerInv, Ending, Alive, help, procs
<1> QED
  BY <1>2, <1>3, <1>4, <1>5 DEF ForkInv

\* wait() returned p, a child or not.
LEMMA CollectKeeps == ASSUME ForkInv, NEW p \in Pids, Collect(p) PROVE ForkInv'
<1> DEFINE ours  == Child(p)
           first == ours /\ err = "ok" /\ status[p] # "ok"
<1>a. TypeOK /\ ProcessInv /\ AliveInv /\ WaitInv /\ SlotInv /\ HandlerInv
  BY DEF ForkInv
<1>1. /\ UNCHANGED <<pc, subtests, children, alarm, help, handlers, left, inherited>>
      /\ pc = "waiting" /\ count < Len(children) /\ state[p] = "zombie"
      /\ count' = IF ours THEN count + 1 ELSE count
      /\ err' = IF first THEN status[p] ELSE err
  BY DEF Collect, Child
<1>2. /\ state' = [q \in Pids |-> IF q = p THEN "gone" ELSE IF first /\ Child(q) /\ Alive(q) THEN "zombie" ELSE state[q]]
      /\ status' = [q \in Pids |-> IF q # p /\ first /\ Child(q) /\ Alive(q) THEN "killed" ELSE status[q]]
  BY DEF Collect, Child
<1>3. /\ \A q \in Pids : q # p => /\ state'[q] = "none" <=> state[q] = "none"
                                  /\ state'[q] = "gone" <=> state[q] = "gone"
      /\ \A q \in Pids : Alive(q)' => Alive(q)
      /\ \A q \in Pids : ~first \/ ~Alive(q) => status'[q] = status[q]
      /\ state'[p] = "gone" /\ ~Alive(p)
  BY <1>1, <1>2 DEF Alive
<1> HIDE DEF first
<1>4. TypeOK'
  <2>1. state' \in [Pids -> {"none", "running", "rogue", "zombie", "gone"}]
    BY <1>a, <1>2 DEF TypeOK
  <2>2. status' \in [Pids -> {"ok", "fail", "signal", "alarm", "stray", "killed"}]
    BY <1>a, <1>2 DEF TypeOK
  <2>3. count' \in 0..MaxChildren
    BY <1>a, <1>1, IgtForkAssumption DEF TypeOK, IgtForkAssumption
  <2>4. err' \in {"ok", "fail", "signal", "alarm", "stray", "killed"}
    BY <1>a, <1>1 DEF TypeOK
  <2> QED
    BY <1>a, <1>1, <2>1, <2>2, <2>3, <2>4 DEF TypeOK, help
<1>5. ProcessInv'
  <2>1. \A q \in Pids : state'[q] = "none" => q # p /\ state[q] = "none" /\ ~Alive(q)
    BY <1>3 DEF Alive
  <2>2. \A h \in Running : state'[helper[h].pid] # "none"
    BY <1>a, <2>1 DEF ProcessInv, Running, TypeOK
  <2>3. \A q \in Pids : state'[q] = "none" => status'[q] = "ok"
    BY <1>a, <1>3, <2>1 DEF ProcessInv
  <2>4. \A q \in Pids : Child(q) => state'[q] # "none"
    BY <1>a, <2>1 DEF ProcessInv
  <2> QED
    BY <1>a, <1>1, <2>2, <2>3, <2>4 DEF ProcessInv, Child, Running, help
<1>6. AliveInv'
  BY <1>a, <1>1, <1>3 DEF AliveInv, Ending, Child, help
<1>7. WaitInv'
  <2>1. /\ ours => Gone' = Gone \cup {p} /\ p \notin Gone
        /\ ~ours => Gone' = Gone
    BY <1>a, <1>1, <1>3, ChildrenCount DEF Gone, Child
  <2>2. count' = Cardinality(Gone')
    BY <1>a, <1>1, <2>1, ChildrenCount, FS_AddElement DEF WaitInv
  <2>3. ASSUME err' = "ok" PROVE err = "ok" /\ ~first /\ (ours => status[p] = "ok")
    BY <2>3, <1>1 DEF first
  <2>4. ASSUME err' = "ok", NEW q \in Gone' PROVE status'[q] = "ok"
    <3>1. q \in Pids /\ status'[q] = status[q]
      BY <2>1, <2>3, <2>4, <1>a, <1>3, ChildrenCount DEF Gone
    <3>2. q \in Gone \/ (ours /\ q = p)
      BY <2>1, <2>4
    <3> QED
      BY <3>1, <3>2, <2>3, <2>4, <1>a, <1>1 DEF WaitInv
  <2>5. ASSUME err' = "ok", NEW q \in Pids, Child(q) PROVE status'[q] # "killed"
    BY <2>3, <2>5, <1>a, <1>1, <1>3 DEF WaitInv
  <2>6. err' # "killed"
    BY <1>a, <1>1 DEF WaitInv, first
  <2>7. \A q : Child(q)' <=> Child(q)
    BY <1>1 DEF Child
  <2> QED
    BY <1>1, <2>2, <2>4, <2>5, <2>6, <2>7 DEF WaitInv
<1>8. SlotInv' /\ HandlerInv'
  BY <1>a, <1>1, <1>3, HelpersLeft DEF Ending
<1> QED
  BY <1>4, <1>5, <1>6, <1>7, <1>8 DEF ForkInv

LEMMA InstallTypes ==
  ASSUME TypeOK, ProcessInv, IsInjective(handlers), NEW handler \in {"children", "helpers"}, Install(handler)
  PROVE  /\ handlers' \in Seq({"children", "helpers"}) /\ IsInjective(handlers')
         /\ Elements(handlers') = Elements(handlers) \cup {handler}
<1>1. handlers \in Seq({"children", "helpers"})
  BY DEF TypeOK
<1>2. CASE handler \in Elements(handlers)
  BY <1>1, <1>2 DEF Install
<1>3. CASE handler \notin Elements(handlers)
  <2>1. handlers' = Append(handlers, handler)
    BY <1>3 DEF Install
  <2> QED
    BY <1>1, <1>3, <2>1, AppendElements
<1> QED
  BY <1>2, <1>3

LEMMA StartTypes ==
  ASSUME TypeOK, NEW p \in Pids, Start(p)
  PROVE  /\ state' \in [Pids -> {"none", "running", "rogue", "zombie", "gone"}]
         /\ inherited' \in [Pids -> Seq(Pids)] /\ status' = status
         /\ state[p] = "none" /\ state'[p] = "running"
         /\ \A q \in Pids : q # p => state'[q] = state[q]
BY DEF TypeOK, Start

LEMMA ForkKeeps == ASSUME ForkInv, NEW p \in Pids, __igt_fork(p) PROVE ForkInv'
<1>a. TypeOK /\ ProcessInv /\ AliveInv /\ WaitInv /\ SlotInv /\ HandlerInv
  BY DEF ForkInv
<1>1. /\ UNCHANGED <<pc, subtests, count, err, alarm, help, left>> /\ pc = "subtest"
      /\ Len(children) < MaxChildren /\ Start(p) /\ children' = Append(children, p) /\ Install("children")
  BY DEF __igt_fork
<1>2. /\ state[p] = "none" /\ state'[p] = "running" /\ status' = status
      /\ \A q \in Pids : q # p => state'[q] = state[q]
  BY <1>a, <1>1, StartTypes
<1>3. ~Child(p) /\ (\A h \in Helpers : helper[h].pid # p) /\ status[p] = "ok"
  <2>1. \A h \in Helpers : helper[h].pid = p => h \in Running
    BY Pid DEF Running
  <2> QED
    BY <1>a, <1>2, <2>1 DEF ProcessInv
<1>4. /\ children' \in Seq(Pids) /\ Len(children') <= MaxChildren
      /\ IsInjective(children') /\ \A q : Child(q)' <=> (Child(q) \/ q = p)
  <2>1. /\ children' \in Seq(Pids) /\ Len(children') = Len(children) + 1
        /\ Elements(children') = Elements(children) \cup {p}
        /\ IsInjective(children')
    BY <1>a, <1>1, <1>3, AppendElements DEF TypeOK, ProcessInv, Child
  <2>2. Len(children) \in Nat
    BY <1>a, ChildrenCount
  <2> QED
    BY <1>1, <2>1, <2>2, IgtForkAssumption DEF Child, IgtForkAssumption
<1>5. /\ handlers' \in Seq({"children", "helpers"}) /\ IsInjective(handlers')
      /\ "helpers" \in Elements(handlers') <=> "helpers" \in Elements(handlers)
  <2>1. Elements(handlers') = Elements(handlers) \cup {"children"}
    BY <1>a, <1>1, InstallTypes DEF HandlerInv
  <2> QED
    BY <2>1, <1>a, <1>1, InstallTypes DEF HandlerInv
<1>6. TypeOK'
  <2>1. /\ state' \in [Pids -> {"none", "running", "rogue", "zombie", "gone"}]
        /\ inherited' \in [Pids -> Seq(Pids)]
    BY <1>a, <1>1, StartTypes
  <2> QED
    BY <2>1, <1>a, <1>1, <1>2, <1>4, <1>5 DEF TypeOK, help
<1>7. Running' = Running /\ helper' = helper /\ ~Ending /\ ~Ending'
  BY <1>1 DEF Running, help, Ending
<1>8. ProcessInv'
  <2>1. \A h \in Running : helper[h].pid \in Pids /\ helper[h].pid # p
    BY <1>a, <1>3 DEF TypeOK, Running
  <2>2. \A h \in Running : state'[helper[h].pid] # "none"
    BY <1>a, <1>2, <2>1 DEF ProcessInv
  <2>3. \A q \in Pids : state'[q] = "none" => status'[q] = "ok"
    BY <1>a, <1>2 DEF ProcessInv
  <2>4. \A q \in Pids : Child(q)' => state'[q] # "none" /\ \A h \in Helpers : helper[h].pid # q
    BY <1>a, <1>2, <1>3, <1>4 DEF ProcessInv
  <2> QED
    BY <1>a, <1>4, <1>7, <2>2, <2>3, <2>4 DEF ProcessInv
<1>9. AliveInv'
  BY <1>a, <1>1, <1>2, <1>4, <1>7 DEF AliveInv, Alive
<1>10. WaitInv'
  BY <1>a, <1>1, <1>2, <1>3, <1>4 DEF WaitInv
<1>11. SlotInv'
  BY <1>a, <1>1, <1>7 DEF SlotInv, help
<1>12. HandlerInv'
  <2>1. HelperPids' = HelperPids /\ helper_process_count' = helper_process_count /\ pc' # "exited"
    BY <1>1 DEF HelperPids, help
  <2>2. "helpers" \notin Elements(handlers) => HelperPids = {}
    BY <1>a, <1>7 DEF HandlerInv, SlotInv, HelperPids, Elements, TypeOK
  <2> QED
    BY <1>a, <1>5, <1>7, <2>1, <2>2 DEF HandlerInv
<1> QED
  BY <1>6, <1>8, <1>9, <1>10, <1>11, <1>12 DEF ForkInv

-----------------------------------------------------------------------------
(* Steps of the main process with helpers.                                 *)

LEMMA ForkHelperKeeps ==
  ASSUME ForkInv, NEW h \in Helpers, NEW p \in Pids, __igt_fork_helper(h, p)
  PROVE  ForkInv'
<1>a. TypeOK /\ ProcessInv /\ AliveInv /\ WaitInv /\ SlotInv /\ HandlerInv
  BY DEF ForkInv
<1>1. /\ UNCHANGED <<main, left>> /\ pc \in {"outside", "subtest"} /\ helper[h].pid = None
      /\ helper_process_count < MaxHelpers /\ helper_process_count' = helper_process_count + 1
      /\ Start(p) /\ Install("helpers")
  BY DEF __igt_fork_helper
<1>2. PICK id \in 1..MaxHelpers :
        /\ helper_process_pids[id] = None
        /\ helper' = [helper EXCEPT ![h] = [pid |-> p, id |-> id]]
        /\ helper_process_pids' = [helper_process_pids EXCEPT ![id] = p]
  BY DEF __igt_fork_helper, FreeSlot
<1>3. /\ state[p] = "none" /\ state'[p] = "running" /\ status' = status
      /\ \A q \in Pids : q # p => state'[q] = state[q]
  BY <1>a, <1>1, StartTypes
<1>4. ~Child(p) /\ (\A g \in Helpers : helper[g].pid # p) /\ status[p] = "ok" /\ p # None
  <2>1. \A g \in Helpers : helper[g].pid = p => g \in Running
    BY Pid DEF Running
  <2> QED
    BY <1>a, <1>3, <2>1, Pid DEF ProcessInv
<1>5. /\ helper'[h].pid = p /\ helper'[h].id = id /\ \A g \in Helpers : g # h => helper'[g] = helper[g]
      /\ helper_process_pids'[id] = p /\ \A i \in 1..MaxHelpers : i # id => helper_process_pids'[i] = helper_process_pids[i]
  BY <1>a, <1>2 DEF TypeOK
<1>6. Running' = Running \cup {h} /\ h \notin Running
  BY <1>1, <1>4, <1>5 DEF Running
<1>7. /\ handlers' \in Seq({"children", "helpers"}) /\ IsInjective(handlers') /\ "helpers" \in Elements(handlers')
  <2>1. Elements(handlers') = Elements(handlers) \cup {"helpers"}
    BY <1>a, <1>1, InstallTypes DEF HandlerInv
  <2> QED
    BY <2>1, <1>a, <1>1, InstallTypes DEF HandlerInv
<1>8. TypeOK'
  <2>1. /\ state' \in [Pids -> {"none", "running", "rogue", "zombie", "gone"}]
        /\ inherited' \in [Pids -> Seq(Pids)]
    BY <1>a, <1>1, StartTypes
  <2>2. helper' \in [Helpers -> [pid : Pids \cup {None}, id : 1..MaxHelpers]]
    BY <1>a, <1>2 DEF TypeOK
  <2>3. helper_process_pids' \in [1..MaxHelpers -> Pids \cup {None}]
    BY <1>a, <1>2 DEF TypeOK
  <2>4. helper_process_count' \in 0..MaxHelpers
    BY <1>a, <1>1, IgtForkAssumption DEF TypeOK, IgtForkAssumption
  <2> QED
    BY <1>a, <1>1, <1>3, <1>7, <2>1, <2>2, <2>3, <2>4 DEF TypeOK, main
<1>9. children' = children /\ pc' = pc /\ ~Ending /\ ~Ending' /\ pc' # "exited" /\ (\A q : Child(q)' <=> Child(q))
  BY <1>1 DEF main, Ending, Child
<1>10. ProcessInv'
  <2>1. \A q \in Pids : Child(q) => state'[q] # "none" /\ \A g \in Helpers : helper'[g].pid # q
    BY <1>a, <1>3, <1>4, <1>5 DEF ProcessInv
  <2>2. ASSUME NEW g \in Running'
        PROVE  state'[helper'[g].pid] # "none" /\ \A f \in Running' : helper'[f].pid = helper'[g].pid => f = g
    <3>1. CASE g = h
      BY <3>1, <1>3, <1>4, <1>5, <1>6 DEF Running
    <3>2. CASE g # h
      <4>1. g \in Running /\ helper'[g] = helper[g] /\ helper[g].pid \in Pids /\ helper[g].pid # p
        BY <2>2, <3>2, <1>a, <1>4, <1>5, <1>6 DEF Running, TypeOK
      <4>2. state[helper[g].pid] # "none" /\ \A f \in Running : helper[f].pid = helper[g].pid => f = g
        BY <4>1, <1>a DEF ProcessInv
      <4>3. \A f \in Running : helper'[f] = helper[f]
        BY <1>5, <1>6 DEF Running
      <4> QED
        BY <4>1, <4>2, <4>3, <1>3, <1>5, <1>6
    <3> QED
      BY <3>1, <3>2
  <2>3. \A q \in Pids : state'[q] = "none" => status'[q] = "ok"
    BY <1>a, <1>3 DEF ProcessInv
  <2> QED
    BY <1>a, <1>9, <2>1, <2>2, <2>3 DEF ProcessInv
<1>11. AliveInv'
  <2>1. ASSUME NEW q \in Pids, Alive(q)' PROVE Child(q) \/ \E g \in Helpers : helper'[g].pid = q
    <3>1. CASE q = p
      BY <3>1, <1>5
    <3>2. CASE q # p
      <4>1. Alive(q)
        BY <2>1, <3>2, <1>3 DEF Alive
      <4>2. Child(q) \/ \E g \in Helpers : g # h /\ helper[g].pid = q
        BY <4>1, <1>a, <1>1, <1>9, Pid DEF AliveInv
      <4> QED
        BY <4>2, <1>5
    <3> QED
      BY <3>1, <3>2
  <2> QED
    BY <1>a, <1>9, <2>1 DEF AliveInv
<1>12. WaitInv'
  BY <1>a, <1>1, <1>3, <1>4, <1>9 DEF WaitInv
<1>13. SlotInv'
  <2>1. ASSUME NEW g \in Running' PROVE helper_process_pids'[helper'[g].id] = helper'[g].pid
    <3>1. CASE g = h
      BY <3>1, <1>5
    <3>2. CASE g # h
      <4>1. g \in Running /\ helper'[g] = helper[g] /\ helper[g].id \in 1..MaxHelpers /\ helper[g].pid # None
        BY <2>1, <3>2, <1>a, <1>5, <1>6 DEF Running, TypeOK
      <4>2. helper_process_pids[helper[g].id] = helper[g].pid
        BY <4>1, <1>a DEF SlotInv
      <4> QED
        BY <4>1, <4>2, <1>2, <1>5
    <3> QED
      BY <3>1, <3>2
  <2>2. ASSUME NEW i \in 1..MaxHelpers, helper_process_pids'[i] # None
        PROVE  \E g \in Running' : helper'[g].id = i /\ helper'[g].pid = helper_process_pids'[i]
    <3>1. CASE i = id
      BY <3>1, <1>5, <1>6
    <3>2. CASE i # id
      <4>1. PICK g \in Running : helper[g].id = i /\ helper[g].pid = helper_process_pids[i]
        BY <2>2, <3>2, <1>a, <1>5 DEF SlotInv
      <4>2. g \in Running' /\ helper'[g] = helper[g]
        BY <1>5, <1>6 DEF Running
      <4> QED
        BY <4>1, <4>2, <3>2, <1>5
    <3> QED
      BY <3>1, <3>2
  <2> QED
    BY <2>1, <2>2 DEF SlotInv
<1>14. HandlerInv'
  <2>1. helper_process_count = Cardinality(Running)
    BY <1>a, <1>9 DEF HandlerInv
  <2>2. Cardinality(Running') = Cardinality(Running) + 1
    BY <1>6, RunningCount, FS_AddElement
  <2> QED
    BY <1>1, <1>7, <1>9, <2>1, <2>2 DEF HandlerInv
<1> QED
  BY <1>8, <1>10, <1>11, <1>12, <1>13, <1>14 DEF ForkInv

\* A helper that has ended, or was killed, is collected and its slot freed.
LEMMA ReleaseKeeps ==
  ASSUME ForkInv, ~Ending, NEW h \in Running, Release(h), pc' = pc \/ pc' = "handlers",
         UNCHANGED <<subtests, children, count, err, alarm, handlers, inherited>>, left' \in 0..MaxChildren,
         state' \in [Pids -> {"none", "running", "rogue", "zombie", "gone"}],
         status' \in [Pids -> {"ok", "fail", "signal", "alarm", "stray", "killed"}],
         state'[helper[h].pid] = "gone",
         \A q \in Pids : q # helper[h].pid => state'[q] = state[q] /\ status'[q] = status[q]
  PROVE  ForkInv'
<1> DEFINE p  == helper[h].pid
           id == helper[h].id
<1>a. TypeOK /\ ProcessInv /\ AliveInv /\ WaitInv /\ SlotInv /\ HandlerInv
  BY DEF ForkInv
<1>1. p \in Pids /\ p # None /\ id \in 1..MaxHelpers /\ h \in Helpers
  BY <1>a DEF TypeOK, Running
<1>2. /\ helper'[h].pid = None /\ \A g \in Helpers : helper'[g].id = helper[g].id /\ (g # h => helper'[g] = helper[g])
      /\ helper_process_pids'[id] = None /\ \A i \in 1..MaxHelpers : i # id => helper_process_pids'[i] = helper_process_pids[i]
  BY <1>a, <1>1 DEF TypeOK, Release
<1>3. Running' = Running \ {h}
  BY <1>1, <1>2 DEF Running
<1>4. helper_process_count = Cardinality(Running) /\ helper_process_count' = Cardinality(Running')
  <2>1. helper_process_count = Cardinality(Running)
    BY <1>a DEF HandlerInv
  <2>2. Cardinality(Running') = Cardinality(Running) - 1
    BY <1>3, RunningCount, FS_RemoveElement
  <2> QED
    BY <2>1, <2>2 DEF Release
<1>5. TypeOK'
  <2>1. helper' \in [Helpers -> [pid : Pids \cup {None}, id : 1..MaxHelpers]]
    <3>1. helper[h] \in [pid : Pids \cup {None}, id : 1..MaxHelpers]
      BY <1>a, <1>1 DEF TypeOK
    <3>2. [helper[h] EXCEPT !.pid = None] \in [pid : Pids \cup {None}, id : 1..MaxHelpers]
      BY <3>1
    <3>3. helper' = [helper EXCEPT ![h] = [helper[h] EXCEPT !.pid = None]]
      BY <1>a, <1>1 DEF TypeOK, Release
    <3> QED
      BY <3>2, <3>3, <1>a, <1>1 DEF TypeOK
  <2>2. helper_process_pids' \in [1..MaxHelpers -> Pids \cup {None}]
    BY <1>a DEF TypeOK, Release
  <2>3. helper_process_count' \in Nat /\ helper_process_count' = helper_process_count - 1
    <3>1. IsFiniteSet(Running') /\ Cardinality(Running') \in Nat
      BY <1>3, RunningCount, FS_RemoveElement, FS_CardinalityType
    <3> QED
      BY <3>1, <1>4 DEF Release
  <2>4. helper_process_count' \in 0..MaxHelpers
    BY <1>a, <2>3, IgtForkAssumption DEF TypeOK, IgtForkAssumption
  <2> QED
    BY <1>a, <2>1, <2>2, <2>4 DEF TypeOK
<1>6. /\ \A q : Child(q)' <=> Child(q)
      /\ ~Child(p) /\ \A q : Child(q) => q \in Pids
  BY <1>a, <1>1, ChildrenCount DEF Child, ProcessInv
<1>7. ProcessInv'
  <2>1. \A q \in Pids : Child(q) => state'[q] # "none" /\ \A g \in Helpers : helper'[g].pid # q
    BY <1>a, <1>2, <1>6, Pid DEF ProcessInv
  <2>2. ASSUME NEW g \in Running'
        PROVE  state'[helper'[g].pid] # "none" /\ \A f \in Running' : helper'[f].pid = helper'[g].pid => f = g
    <3>1. g \in Running /\ helper'[g] = helper[g] /\ helper[g].pid \in Pids
      BY <2>2, <1>a, <1>2, <1>3 DEF Running, TypeOK
    <3>2. state[helper[g].pid] # "none" /\ \A f \in Running : helper[f].pid = helper[g].pid => f = g
      BY <3>1, <1>a DEF ProcessInv
    <3>3. \A f \in Running' : f \in Running /\ helper'[f] = helper[f]
      BY <1>2, <1>3 DEF Running
    <3>4. state'[helper[g].pid] # "none"
      BY <3>1, <3>2
    <3> QED
      BY <3>1, <3>2, <3>3, <3>4
  <2>3. \A q \in Pids : state'[q] = "none" => status'[q] = "ok"
    BY <1>a DEF ProcessInv
  <2> QED
    BY <1>a, <1>6, <2>1, <2>2, <2>3 DEF ProcessInv
<1>8. AliveInv'
  <2>1. ASSUME NEW q \in Pids, Alive(q)' PROVE Child(q) \/ \E g \in Helpers : helper'[g].pid = q
    <3>1. q # p /\ Alive(q)
      BY <2>1 DEF Alive
    <3>2. Child(q) \/ \E g \in Helpers : g # h /\ helper[g].pid = q
      BY <3>1, <1>a DEF AliveInv
    <3> QED
      BY <3>2, <1>2
  <2> QED
    BY <1>a, <1>6, <2>1 DEF AliveInv
<1>9. WaitInv'
  <2>1. CASE pc' = "handlers"
    BY <2>1 DEF WaitInv
  <2>2. CASE pc' = pc
    <3>1. Gone' = Gone /\ p \notin Gone
      BY <1>6 DEF Gone, Child
    <3>2. \A q : Child(q) => state'[q] = state[q] /\ status'[q] = status[q]
      BY <1>6
    <3>3. \A q \in Gone : Child(q)
      BY DEF Gone, Child
    <3> QED
      BY <1>a, <1>6, <2>2, <3>1, <3>2, <3>3 DEF WaitInv
  <2> QED
    BY <2>1, <2>2
<1>10. SlotInv'
  <2>1. ASSUME NEW g \in Running' PROVE helper_process_pids'[helper'[g].id] = helper'[g].pid
    <3>1. g \in Running /\ g # h /\ helper'[g] = helper[g] /\ helper[g].id \in 1..MaxHelpers
      BY <2>1, <1>a, <1>2, <1>3 DEF Running, TypeOK
    <3>2. helper_process_pids[helper[g].id] = helper[g].pid /\ helper_process_pids[id] = p
      BY <3>1, <1>a DEF SlotInv
    <3>3. helper[g].id # id
      BY <3>1, <3>2, <1>a DEF ProcessInv
    <3> QED
      BY <3>1, <3>2, <3>3, <1>2
  <2>2. ASSUME NEW i \in 1..MaxHelpers, helper_process_pids'[i] # None
        PROVE  \E g \in Running' : helper'[g].id = i /\ helper'[g].pid = helper_process_pids'[i]
    <3>1. i # id /\ helper_process_pids'[i] = helper_process_pids[i]
      BY <2>2, <1>2
    <3>2. PICK g \in Running : helper[g].id = i /\ helper[g].pid = helper_process_pids[i]
      BY <2>2, <3>1, <1>a DEF SlotInv
    <3>3. g \in Running' /\ helper'[g] = helper[g]
      BY <3>1, <3>2, <1>2, <1>3 DEF Running
    <3> QED
      BY <3>1, <3>2, <3>3
  <2> QED
    BY <2>1, <2>2 DEF SlotInv
<1>11. HandlerInv'
  <2>1. "helpers" \in Elements(handlers) /\ handlers' = handlers
    BY <1>a DEF HandlerInv
  <2>2. pc' # "exited"
    BY DEF Ending
  <2> QED
    BY <1>a, <1>4, <2>1, <2>2 DEF HandlerInv
<1> QED
  BY <1>5, <1>7, <1>8, <1>9, <1>10, <1>11 DEF ForkInv

LEMMA WaitHelperKeeps == ASSUME ForkInv, NEW h \in Helpers, igt_wait_helper(h) PROVE ForkInv'
<1>1. /\ UNCHANGED <<main, handlers, left, status, inherited>> /\ pc \in {"outside", "subtest"} /\ Release(h)
      /\ helper[h].pid # None /\ state' = [state EXCEPT ![helper[h].pid] = "gone"]
  BY DEF igt_wait_helper
<1>2. TypeOK /\ h \in Running /\ ~Ending
  BY <1>1 DEF ForkInv, Running, Ending
<1>3. helper[h].pid \in Pids
  BY <1>1, <1>2 DEF TypeOK
<1>4. /\ state' \in [Pids -> {"none", "running", "rogue", "zombie", "gone"}]
      /\ status' \in [Pids -> {"ok", "fail", "signal", "alarm", "stray", "killed"}]
      /\ state'[helper[h].pid] = "gone" /\ left' \in 0..MaxChildren
      /\ \A q \in Pids : q # helper[h].pid => state'[q] = state[q] /\ status'[q] = status[q]
  BY <1>1, <1>2, <1>3 DEF TypeOK
<1> QED
  BY <1>1, <1>2, <1>4, ReleaseKeeps DEF main

LEMMA StopHelperKeeps == ASSUME ForkInv, NEW h \in Helpers, igt_stop_helper(h) PROVE ForkInv'
<1>1. /\ UNCHANGED <<subtests, children, count, err, alarm, handlers, inherited>>
      /\ pc \in {"outside", "subtest"} /\ helper[h].pid # None /\ Release(h)
      /\ KillAndReap({helper[h].pid})
      /\ (pc' = pc /\ left' = left) \/ (pc' = "handlers" /\ left' = Len(children))
  BY DEF igt_stop_helper, Exits
<1>2. TypeOK /\ h \in Running /\ ~Ending
  BY <1>1 DEF ForkInv, Running, Ending
<1>3. helper[h].pid \in Pids /\ left' \in 0..MaxChildren
  <2>1. Len(children) \in 0..MaxChildren
    BY <1>2, IgtForkAssumption DEF TypeOK, IgtForkAssumption
  <2> QED
    BY <1>1, <1>2, <2>1 DEF TypeOK
<1>4. /\ state' \in [Pids -> {"none", "running", "rogue", "zombie", "gone"}]
      /\ status' \in [Pids -> {"ok", "fail", "signal", "alarm", "stray", "killed"}]
      /\ state'[helper[h].pid] = "gone"
      /\ \A q \in Pids : q # helper[h].pid => state'[q] = state[q] /\ status'[q] = status[q]
  BY <1>1, <1>2, <1>3 DEF TypeOK, KillAndReap
<1> QED
  BY <1>1, <1>2, <1>3, <1>4, ReleaseKeeps

-----------------------------------------------------------------------------
(* The exit handlers.                                                      *)

\* A handler has processes collected or killed, and others go on.
LEMMA HandlersKeep ==
  ASSUME ForkInv, TypeOK', pc = "handlers", UNCHANGED <<main, helper, helper_process_pids>>,
         \A p \in Pids : /\ state'[p] = "none" <=> state[p] = "none"
                         /\ Alive(p)' => Alive(p)
                         /\ ~Alive(p) => status'[p] = status[p],
         HandlerInv'
  PROVE  ForkInv'
<1>a. TypeOK /\ ProcessInv /\ AliveInv /\ WaitInv /\ SlotInv /\ HandlerInv
  BY DEF ForkInv
<1>1. Running' = Running /\ helper' = helper /\ children' = children /\ pc' = "handlers" /\ Ending'
  BY DEF Running, main, Ending
<1>2. ProcessInv'
  <2>1. \A q \in Pids : state'[q] = "none" => status'[q] = "ok"
    BY <1>a DEF ProcessInv, Alive
  <2>2. \A h \in Running : state'[helper[h].pid] # "none"
    BY <1>a DEF ProcessInv, Running, TypeOK
  <2>3. \A p : Child(p)' <=> Child(p)
    BY <1>1 DEF Child
  <2> QED
    BY <1>a, <1>1, <2>1, <2>2, <2>3 DEF ProcessInv
<1>3. AliveInv' /\ WaitInv'
  BY <1>1 DEF AliveInv, WaitInv
<1>4. SlotInv'
  BY <1>a, <1>1 DEF SlotInv
<1> QED
  BY <1>2, <1>3, <1>4 DEF ForkInv

\* The last handler was called, and is none any more.
LEMMA HandlerDoneTypes ==
  ASSUME TypeOK, HandlerInv, NEW handler \in {"children", "helpers"}, LastHandler(handler), HandlerDone
  PROVE  /\ handlers' \in Seq({"children", "helpers"}) /\ IsInjective(handlers')
         /\ Elements(handlers') = Elements(handlers) \ {handler}
         /\ handler \in Elements(handlers)
<1>1. handlers \in Seq({"children", "helpers"}) /\ handlers # <<>> /\ handlers[Len(handlers)] = handler
  BY DEF TypeOK, LastHandler
<1>2. handler \in Elements(handlers)
  <2>1. Len(handlers) \in DOMAIN handlers
    BY <1>1
  <2> QED
    BY <1>1, <2>1 DEF Elements
<1> QED
  BY <1>1, <1>2, FrontElements DEF HandlerDone, HandlerInv

LEMMA ChildrenHandlerKeeps == ASSUME ForkInv, children_exit_handler PROVE ForkInv'
<1>a. TypeOK /\ ProcessInv /\ AliveInv /\ WaitInv /\ SlotInv /\ HandlerInv
  BY DEF ForkInv
<1>1. /\ UNCHANGED <<main, help, status, inherited>> /\ LastHandler("children") /\ pc = "handlers"
  BY DEF children_exit_handler, LastHandler
<1>2. /\ left' \in 0..MaxChildren
      /\ \/ HandlerDone /\ UNCHANGED state
         \/ /\ handlers' = handlers
            /\ \/ \E p \in Pids : state[p] = "zombie" /\ state' = [state EXCEPT ![p] = "gone"]
               \/ state' = state
  <2>1. CASE left = 0
    BY <2>1, <1>a DEF children_exit_handler, TypeOK
  <2>2. CASE left # 0
    <3>1. left' = left - 1 /\ left \in 0..MaxChildren
      BY <2>2, <1>a DEF children_exit_handler, TypeOK
    <3>2. left' \in 0..MaxChildren
      BY <2>2, <3>1, IgtForkAssumption DEF IgtForkAssumption
    <3> QED
      BY <2>2, <3>2 DEF children_exit_handler
  <2> QED
    BY <2>1, <2>2
<1>3. /\ handlers' \in Seq({"children", "helpers"}) /\ IsInjective(handlers')
      /\ "helpers" \in Elements(handlers') <=> "helpers" \in Elements(handlers)
  <2>1. CASE handlers' = handlers
    BY <2>1, <1>a DEF TypeOK, HandlerInv
  <2>2. CASE HandlerDone
    <3>1. Elements(handlers') = Elements(handlers) \ {"children"}
      BY <2>2, <1>a, <1>1, HandlerDoneTypes
    <3> QED
      BY <2>2, <3>1, <1>a, <1>1, HandlerDoneTypes
  <2> QED
    BY <1>2, <2>1, <2>2
<1>4. /\ state' \in [Pids -> {"none", "running", "rogue", "zombie", "gone"}] /\ status' = status
      /\ \A q \in Pids : (state'[q] = "none" <=> state[q] = "none") /\ (Alive(q)' => Alive(q))
  <2>1. CASE state' = state
    BY <2>1, <1>a, <1>1 DEF TypeOK, Alive
  <2>2. ASSUME NEW p \in Pids, state[p] = "zombie", state' = [state EXCEPT ![p] = "gone"]
        PROVE  /\ state' \in [Pids -> {"none", "running", "rogue", "zombie", "gone"}]
               /\ \A q \in Pids : (state'[q] = "none" <=> state[q] = "none") /\ (Alive(q)' => Alive(q))
    BY <2>2, <1>a DEF TypeOK, Alive
  <2> QED
    BY <1>1, <1>2, <2>1, <2>2
<1>5. TypeOK'
  BY <1>a, <1>1, <1>2, <1>3, <1>4 DEF TypeOK, main, help
<1>6. HandlerInv'
  <2>1. HelperPids \subseteq Pids /\ HelperPids' = HelperPids /\ Running' = Running
    BY <1>a, <1>1 DEF HelperPids, Elements, TypeOK, help, Running
  <2>2. Ending /\ Ending' /\ pc' = "handlers" /\ helper_process_count' = helper_process_count
    BY <1>1 DEF Ending, main, help
  <2> QED
    BY <1>a, <1>3, <1>4, <2>1, <2>2 DEF HandlerInv
<1> QED
  BY <1>1, <1>4, <1>5, <1>6, HandlersKeep DEF help

LEMMA HelperHandlerKeeps == ASSUME ForkInv, fork_helper_exit_handler PROVE ForkInv'
<1>a. TypeOK /\ ProcessInv /\ AliveInv /\ WaitInv /\ SlotInv /\ HandlerInv
  BY DEF ForkInv
<1>1. /\ UNCHANGED <<main, helper, helper_process_pids, left, inherited>> /\ pc = "handlers"
      /\ LastHandler("helpers") /\ HandlerDone /\ KillAndReap(HelperPids)
      /\ helper_process_count' =
           helper_process_count - Cardinality({i \in 1..MaxHelpers : helper_process_pids[i] # None})
  BY DEF fork_helper_exit_handler, LastHandler, HelperPids
<1>2. /\ handlers' \in Seq({"children", "helpers"}) /\ IsInjective(handlers')
      /\ "helpers" \in Elements(handlers) /\ "helpers" \notin Elements(handlers')
  <2>1. Elements(handlers') = Elements(handlers) \ {"helpers"}
    BY <1>a, <1>1, HandlerDoneTypes
  <2> QED
    BY <2>1, <1>a, <1>1, HandlerDoneTypes
<1>3. helper_process_count' = 0
  BY <1>a, <1>1, <1>2, SlotsCount, RunningCount DEF HandlerInv
<1>4. /\ state' \in [Pids -> {"none", "running", "rogue", "zombie", "gone"}]
      /\ status' \in [Pids -> {"ok", "fail", "signal", "alarm", "stray", "killed"}]
      /\ \A q \in Pids : q \in HelperPids => state'[q] = "gone"
      /\ \A q \in Pids : q \notin HelperPids => state'[q] = state[q] /\ status'[q] = status[q]
      /\ \A q \in Pids : ~Alive(q) => status'[q] = status[q]
  BY <1>a, <1>1 DEF TypeOK, KillAndReap
<1>5. \A q \in HelperPids : q \in Pids /\ state[q] # "none"
  <2>1. SUFFICES ASSUME NEW q \in HelperPids PROVE q \in Pids /\ state[q] # "none"
    OBVIOUS
  <2>2. PICK i \in 1..MaxHelpers : helper_process_pids[i] = q /\ q # None
    BY <1>a DEF HelperPids, Elements, TypeOK
  <2>3. PICK h \in Running : helper[h].pid = q
    BY <2>2, <1>a DEF SlotInv
  <2> QED
    BY <2>3, <1>a DEF ProcessInv, Running, TypeOK
<1>6. TypeOK'
  BY <1>a, <1>1, <1>2, <1>3, <1>4, IgtForkAssumption DEF TypeOK, main, IgtForkAssumption
<1>7. HandlerInv'
  <2>1. HelperPids' = HelperPids /\ Ending' /\ pc' # "exited"
    BY <1>1 DEF HelperPids, main, Ending
  <2>2. \A p \in HelperPids : ~Alive(p)'
    BY <1>4, <1>5 DEF Alive
  <2> QED
    BY <1>2, <1>3, <2>1, <2>2 DEF HandlerInv
<1>8. \A q \in Pids : (state'[q] = "none" <=> state[q] = "none") /\ (Alive(q)' => Alive(q))
  BY <1>4, <1>5 DEF Alive
<1> QED
  BY <1>1, <1>4, <1>6, <1>7, <1>8, HandlersKeep

-----------------------------------------------------------------------------
(* The theorems.                                                           *)

LEMMA InitFork == Init => ForkInv
<1> SUFFICES ASSUME Init PROVE ForkInv
  OBVIOUS
<1>1. TypeOK
  <2>1. 1 \in 1..MaxHelpers /\ 0 \in 0..MaxHelpers /\ 0 \in 0..MaxChildren /\ 0 \in 0..MaxSubtests
    BY IgtForkAssumption DEF IgtForkAssumption
  <2>2. helper \in [Helpers -> [pid : Pids \cup {None}, id : 1..MaxHelpers]]
    BY <2>1 DEF Init
  <2>3. /\ children \in Seq(Pids) /\ Len(children) <= MaxChildren
        /\ handlers \in Seq({"children", "helpers"})
    BY IgtForkAssumption DEF Init, IgtForkAssumption
  <2>4. inherited \in [Pids -> Seq(Pids)] /\ helper_process_pids \in [1..MaxHelpers -> Pids \cup {None}]
    BY DEF Init
  <2>5. state \in [Pids -> {"none", "running", "rogue", "zombie", "gone"}]
    BY DEF Init
  <2>6. status \in [Pids -> {"ok", "fail", "signal", "alarm", "stray", "killed"}]
    BY DEF Init
  <2>7. pc = "outside" /\ subtests = 0 /\ count = 0 /\ err = "ok" /\ alarm = FALSE /\ helper_process_count = 0 /\ left = 0
    BY DEF Init
  <2> QED
    BY <2>1, <2>2, <2>3, <2>4, <2>5, <2>6, <2>7 DEF TypeOK
<1>2. (\A p : ~Child(p)) /\ Running = {} /\ HelperPids = {} /\ \A p \in Pids : ~Alive(p)
  BY NoChildren DEF Init, Child, Running, HelperPids, Elements, Alive
<1>3. ProcessInv /\ AliveInv
  BY <1>2, NoChildren DEF Init, ProcessInv, AliveInv
<1>4. WaitInv /\ SlotInv
  BY <1>2 DEF Init, WaitInv, SlotInv
<1>5. HandlerInv
  BY <1>2, NoChildren, FS_EmptySet DEF Init, HandlerInv
<1> QED
  BY <1>1, <1>3, <1>4, <1>5 DEF ForkInv

LEMMA StutterFork == ASSUME ForkInv, UNCHANGED vars PROVE ForkInv'
<1>1. TypeOK' /\ Moves /\ Spares
  BY DEF ForkInv, TypeOK, Moves, Spares, Alive, vars, main, help, procs
<1> QED
  BY <1>1, MovesKeep DEF Records, vars, main

LEMMA MainStepKeeps == ASSUME ForkInv, MainStep PROVE ForkInv'
<1>1. CASE BeginSubtest \/ EndSubtest \/ exit_subtest \/ Waited \/ Exit
  BY <1>1, BeginSubtestKeeps, EndSubtestKeeps, ExitSubtestKeeps, WaitedKeeps, ExitKeeps
<1>2. CASE igt_exit \/ Signal \/ \E h \in Helpers : ForkHelperFails(h)
  <2>1. Exits /\ UNCHANGED <<subtests, children, count, err, alarm, help, handlers, procs>>
    BY <1>2 DEF igt_exit, Signal, ForkHelperFails
  <2> QED
    BY <2>1, ExitsKeeps
<1>3. CASE __igt_abort \/ (\E timeout \in BOOLEAN : igt_waitchildren(timeout))
  BY <1>3, AbortKeeps, WaitChildrenKeeps
<1>4. CASE \E h \in Helpers : igt_wait_helper(h) \/ igt_stop_helper(h)
  BY <1>4, WaitHelperKeeps, StopHelperKeeps
<1>5. CASE children_exit_handler \/ fork_helper_exit_handler
  BY <1>5, ChildrenHandlerKeeps, HelperHandlerKeeps
<1> QED
  BY <1>1, <1>2, <1>3, <1>4, <1>5 DEF MainStep

LEMMA ProcessStepKeeps == ASSUME ForkInv, ProcessStep PROVE ForkInv'
BY ForkKeeps, ForkHelperKeeps, CollectKeeps, StraysKeeps, RogueEndsKeeps, EndsKeeps DEF ProcessStep

LEMMA NextFork == ForkInv /\ [Next]_vars => ForkInv'
BY MainStepKeeps, ProcessStepKeeps, AlarmKeeps, StutterFork DEF Next, Done

LEMMA ForkIsKept == Spec => []ForkInv
BY InitFork, NextFork, PTL DEF Spec

\* Every variable keeps its type: in particular no helper is counted off twice, and no
\* slot outside of helper_process_pids is used.
THEOREM ForkTypes == Spec => []TypeOK
<1>1. ForkInv => TypeOK
  BY DEF ForkInv
<1> QED
  BY <1>1, ForkIsKept, PTL

\* However a subtest ends, its children end before it: what is alive afterwards is a helper.
THEOREM NoChildIsLeft == Spec => []NoChildOutlives
<1>1. ForkInv => NoChildOutlives
  <2>1. pc = "outside" => ~Ending
    BY DEF Ending
  <2> QED
    BY <2>1, NoChildren DEF ForkInv, AliveInv, NoChildOutlives, Child
<1> QED
  BY <1>1, ForkIsKept, PTL

\* igt_waitchildren() counts its children and no others, succeeds only if all of them did,
\* and reports a failure that is a cause, not one of its own kills.
THEOREM WaitTells == Spec => []WaitIsRight
<1>1. ForkInv => WaitIsRight
  <2> SUFFICES ASSUME ForkInv PROVE WaitIsRight
    OBVIOUS
  <2>1. WaitInv /\ Gone = {p \in Elements(children) : state[p] = "gone"}
    BY DEF ForkInv, Gone
  <2> QED
    BY <2>1 DEF WaitInv, WaitIsRight, CountsChildren, WaitTellsTheTruth, ErrorIsTheCause
<1> QED
  BY <1>1, ForkIsKept, PTL

\* The slots and the number of helpers agree with their records in every order of forks,
\* waits and stops, and the exit handler ends the helpers that are left.
THEOREM HelpersEnd == Spec => []HelpersAreKept
<1>1. ForkInv => HelpersAreKept
  <2> SUFFICES ASSUME ForkInv PROVE HelpersAreKept
    OBVIOUS
  <2>1. SlotInv /\ HandlerInv /\ Running = {h \in Helpers : helper[h].pid # None}
    BY DEF ForkInv, Running
  <2>2. SlotsAgree
    BY <2>1, NoChildren DEF SlotInv, HandlerInv, SlotsAgree, Ending
  <2>3. HelpersEndWithTheTest
    BY <2>1, NoChildren DEF HandlerInv, HelpersEndWithTheTest
  <2> QED
    BY <2>2, <2>3 DEF HelpersAreKept
<1> QED
  BY <1>1, ForkIsKept, PTL
=============================================================================
