------------------------ MODULE BindTrackingProofs ------------------------
(***************************************************************************)
(* Theorems about the tracking of addresses to bind, for all sets of       *)
(* threads, objects and addresses: what bind_map says is bound is mapped,  *)
(* and no mapping is forgotten, as long as the callers are careful.        *)
(***************************************************************************)
EXTENDS BindTracking, TLAPS

-----------------------------------------------------------------------------
(* The invariant.                                                          *)

\* A thread in alloc() or free() works on an object of its own.
CallInv == \A t \in Threads :
  /\ pc[t] \in {"track alloc", "track free"} => call[t].object \in Objects /\ Owner[call[t].object] = t
  /\ pc[t] \notin {"track alloc", "track free"} => call[t].object = None
  /\ pc[t] # "bind" => ops[t] = {}
TypeInv == TypeOK /\ CallInv

\* An object in use somewhere, be it given, tracked or on its way to the kernel, has one
\* address, and is the only one there.
InFlightAt(o, x) == \E t \in Threads : \E op \in ops[t] : op.object = o /\ op.entry.offset = x
Uses(o, x) == given[o] = x \/ bind_map[o].offset = x \/ InFlightAt(o, x)
Apart == \A o, p \in Objects : \A x, y \in Addresses : Uses(o, x) /\ Uses(p, y) => (x = y <=> o = p)

\* One thread binds at a time; what it has to bind or unbind is recorded as done, and
\* may at most have been freed since.
OneBinds == \A t, u \in Threads : pc[t] = "bind" /\ pc[u] = "bind" => t = u
FlightInv == \A t \in Threads : \A op \in ops[t] :
  /\ op.entry.op \in {"TO_BIND", "TO_UNBIND"}
  /\ op.entry.op = "TO_BIND" => /\ bind_map[op.object].op \in {"BOUND", "TO_UNBIND"}
                                /\ bind_map[op.object].offset = op.entry.offset
  /\ op.entry.op = "TO_UNBIND" => bind_map[op.object] = NoEntry

\* An object that is being allocated waits for no unbind.
AllocInv == \A t \in Threads : pc[t] = "track alloc" =>
  /\ given[call[t].object] = call[t].offset /\ bind_map[call[t].object].op # "TO_UNBIND"
  /\ \A u \in Threads : \A op \in ops[u] : op.object = call[t].object => op.entry.op # "TO_UNBIND"

\* What is mapped at an address is recorded there, or about to be unmapped.
MapInv == \A x \in Addresses : vm[x] # None =>
  \/ bind_map[vm[x]].offset = x /\ bind_map[vm[x]].op \in {"BOUND", "TO_UNBIND"}
  \/ InFlightAt(vm[x], x)

BindInv == TypeInv /\ Apart /\ OneBinds /\ FlightInv /\ AllocInv /\ BoundIsMapped /\ MapInv /\ TrackingAgrees

-----------------------------------------------------------------------------
(* Types.                                                                  *)

LEMMA NoneIsApart == None \notin Addresses /\ None \notin Objects
BY BindTrackingAssumption DEF BindTrackingAssumption

\* What is recorded of an object, in a step of any kind.
LEMMA EntriesFit ==
  /\ NoEntry \in Entries
  /\ \A x \in Addresses, op \in {"TO_BIND", "BOUND", "TO_UNBIND"} : Entry(op, x) \in Entries
  /\ \A e \in Entries : e.offset \in AddressOrNone
  /\ \A e \in Entries : e.op # "none" => e.offset \in Addresses
  /\ \A e \in Entries : e.op = "none" => e = NoEntry /\ e.offset = None
  /\ \A e \in Entries : e.op \in {"none", "TO_BIND", "BOUND", "TO_UNBIND"}
  /\ \A e \in Entries : Untracked(e) \in Entries
BY DEF Entries, Entry, NoEntry, Untracked, AddressOrNone

LEMMA AllocTypes ==
  ASSUME TypeInv, NEW t \in Threads, NEW o \in Objects, Alloc(t, o)
  PROVE  TypeInv'
<1>1. PICK x \in Offsets(o) :
        /\ given' = [given EXCEPT ![o] = x]
        /\ call' = [call EXCEPT ![t] = [object |-> o, offset |-> x]]
  BY DEF Alloc
<1>2. x \in AddressOrNone
  BY DEF Offsets, FreeAddresses, AddressOrNone, TypeInv, TypeOK
<1>3. TypeOK'
  BY <1>1, <1>2 DEF Alloc, TypeInv, TypeOK
<1>4. CallInv'
  <2>1. /\ pc'[t] = "track alloc" /\ call'[t].object = o /\ Owner[o] = t /\ ops' = ops /\ pc[t] = "idle"
        /\ \A u \in Threads : u # t => pc'[u] = pc[u] /\ call'[u] = call[u]
    BY <1>1 DEF Alloc, TypeInv, TypeOK
  <2>2. ops[t] = {} /\ CallInv
    BY <2>1 DEF TypeInv, CallInv
  <2> QED
    BY <2>1, <2>2 DEF CallInv
<1> QED
  BY <1>3, <1>4 DEF TypeInv

LEMMA FreeTypes ==
  ASSUME TypeInv, NEW t \in Threads, NEW o \in Objects, Free(t, o)
  PROVE  TypeInv'
<1>1. TypeOK'
  BY DEF Free, TypeInv, TypeOK, AddressOrNone
<1>2. CallInv'
  BY DEF Free, TypeInv, TypeOK, CallInv
<1> QED
  BY <1>1, <1>2 DEF TypeInv

LEMMA TrackAllocTypes ==
  ASSUME TypeInv, NEW t \in Threads, TrackAlloc(t)
  PROVE  TypeInv'
<1>1. call[t].object \in Objects /\ call[t].offset \in AddressOrNone
  BY DEF TrackAlloc, TypeInv, TypeOK, CallInv
<1>2. call[t].offset # None => Entry("TO_BIND", call[t].offset) \in Entries
  BY <1>1, EntriesFit DEF AddressOrNone
<1>3. bind_map' \in [Objects -> Entries]
  BY <1>1, <1>2 DEF TrackAlloc, TypeInv, TypeOK
<1>4. NoCall \in [object : Objects \cup {None}, offset : AddressOrNone] /\ NoCall.object = None
  BY DEF NoCall, AddressOrNone
<1>5. TypeOK'
  BY <1>3, <1>4 DEF TrackAlloc, Ends, TypeInv, TypeOK
<1>6. CallInv'
  BY <1>4 DEF TrackAlloc, Ends, TypeInv, TypeOK, CallInv
<1> QED
  BY <1>5, <1>6 DEF TypeInv

LEMMA TrackFreeTypes ==
  ASSUME TypeInv, NEW t \in Threads, TrackFree(t)
  PROVE  TypeInv'
<1>1. call[t].object \in Objects
  BY DEF TrackFree, TypeInv, CallInv
<1>2. Untracked(bind_map[call[t].object]) \in Entries
  BY <1>1, EntriesFit DEF TypeInv, TypeOK
<1>3. bind_map' \in [Objects -> Entries]
  BY <1>1, <1>2 DEF TrackFree, TypeInv, TypeOK
<1>4. NoCall \in [object : Objects \cup {None}, offset : AddressOrNone] /\ NoCall.object = None
  BY DEF NoCall, AddressOrNone
<1>5. TypeOK'
  BY <1>3, <1>4 DEF TrackFree, Ends, TypeInv, TypeOK
<1>6. CallInv'
  BY <1>4 DEF TrackFree, Ends, TypeInv, TypeOK, CallInv
<1> QED
  BY <1>5, <1>6 DEF TypeInv

LEMMA CollectTypes ==
  ASSUME TypeInv, NEW t \in Threads, Collect(t)
  PROVE  TypeInv'
<1>1. \A o \in Objects : bind_map[o].op # "none" => Entry("BOUND", bind_map[o].offset) \in Entries
  BY EntriesFit DEF TypeInv, TypeOK
<1>2. bind_map' \in [Objects -> Entries]
  BY <1>1, EntriesFit DEF Collect, TypeInv, TypeOK
<1>3. ops' \in [Threads -> SUBSET [object : Objects, entry : Entries]]
  <2>1. \A o \in Pending : [object |-> o, entry |-> bind_map[o]] \in [object : Objects, entry : Entries]
    BY DEF Pending, TypeInv, TypeOK
  <2>2. PICK new : new = {[object |-> o, entry |-> bind_map[o]] : o \in Pending}
    OBVIOUS
  <2>3. new \subseteq [object : Objects, entry : Entries]
    BY <2>1, <2>2
  <2>4. ops' = [ops EXCEPT ![t] = new]
    BY <2>2 DEF Collect
  <2> QED
    BY <2>3, <2>4 DEF TypeInv, TypeOK
<1>4. TypeOK'
  BY <1>2, <1>3 DEF Collect, TypeInv, TypeOK
<1>5. CallInv'
  BY DEF Collect, TypeInv, TypeOK, CallInv
<1> QED
  BY <1>4, <1>5 DEF TypeInv

LEMMA BindUnbindTypes ==
  ASSUME TypeInv, NEW t \in Threads, BindUnbind(t)
  PROVE  TypeInv'
<1>1. PICK last \in [{op.entry.offset : op \in ops[t]} -> ops[t]] :
        vm' = [x \in Addresses |-> IF x \in DOMAIN last THEN Leaves(last[x]) ELSE vm[x]]
  BY DEF BindUnbind
<1>2. \A op \in ops[t] : Leaves(op) \in Objects \cup {None}
  <2>1. \A op \in ops[t] : op.object \in Objects
    <3>1. ops[t] \subseteq [object : Objects, entry : Entries]
      BY DEF TypeInv, TypeOK
    <3> QED
      BY <3>1
  <2> QED
    BY <2>1 DEF Leaves
<1>3. TypeOK'
  BY <1>1, <1>2 DEF BindUnbind, TypeInv, TypeOK
<1>4. CallInv'
  BY DEF BindUnbind, TypeInv, TypeOK, CallInv
<1> QED
  BY <1>3, <1>4 DEF TypeInv

LEMMA NextTypes == TypeInv /\ [Next]_vars => TypeInv'
<1> SUFFICES ASSUME TypeInv, [Next]_vars PROVE TypeInv'
  OBVIOUS
<1>1. CASE UNCHANGED vars
  BY <1>1 DEF vars, TypeInv, TypeOK, CallInv
<1>2. CASE Next
  BY <1>2, AllocTypes, FreeTypes, TrackAllocTypes, TrackFreeTypes, CollectTypes, BindUnbindTypes DEF Next
<1> QED
  BY <1>1, <1>2

LEMMA InitTypes == Init => TypeInv
BY DEF Init, TypeInv, TypeOK, CallInv, AddressOrNone, Entries, NoEntry, NoCall

\* TypeOK, whether the callers are careful or not.
THEOREM TrackingTypes == Spec => []TypeOK
<1>1. TypeInv => TypeOK
  BY DEF TypeInv
<1> QED
  BY <1>1, InitTypes, NextTypes, PTL DEF Spec

-----------------------------------------------------------------------------
(* What careful callers may rely on.                                       *)

\* An object whose uses become fewer stays where it is, and alone.
LEMMA FewerUses ==
  ASSUME Apart, \A o \in Objects, x \in Addresses : Uses(o, x)' => Uses(o, x)
  PROVE  Apart'
BY DEF Apart

\* An object is in one call at a time, of its owner.
LEMMA OneCall ==
  ASSUME TypeInv, NEW t \in Threads, NEW u \in Threads, pc[t] \in {"track alloc", "track free"},
         pc[u] \in {"track alloc", "track free"}, call[t].object = call[u].object
  PROVE  t = u
BY DEF TypeInv, CallInv

\* When nobody binds, nothing is on its way to the kernel.
LEMMA Quiet ==
  ASSUME TypeInv, ~Binding
  PROVE  /\ \A u \in Threads : ops[u] = {}
         /\ \A o \in Objects : ~InFlight(o)
         /\ \A o \in Objects, x \in Addresses : ~InFlightAt(o, x)
<1>1. \A u \in Threads : ops[u] = {}
  BY DEF Binding, TypeInv, CallInv
<1> QED
  BY <1>1 DEF InFlight, InFlightAt

\* What is in flight is of an object, at an address.
LEMMA OpsFit ==
  ASSUME TypeInv, FlightInv, NEW t \in Threads, NEW op \in ops[t]
  PROVE  op.object \in Objects /\ op.entry \in Entries /\ op.entry.offset \in Addresses
<1>1. op \in [object : Objects, entry : Entries]
  <2>1. ops[t] \subseteq [object : Objects, entry : Entries]
    BY DEF TypeInv, TypeOK
  <2> QED
    BY <2>1
<1>2. op.entry.op # "none"
  BY DEF FlightInv
<1> QED
  BY <1>1, <1>2, EntriesFit

-----------------------------------------------------------------------------
(* The steps.                                                              *)

LEMMA AllocBinds ==
  ASSUME BindInv, Careful, NEW t \in Threads, NEW o \in Objects, Alloc(t, o)
  PROVE  BindInv'
<1> USE NoneIsApart
<1>0. TypeInv /\ TypeInv'
  BY AllocTypes DEF BindInv
<1>a. Apart /\ OneBinds /\ FlightInv /\ AllocInv /\ BoundIsMapped /\ MapInv /\ TrackedIsGiven /\ AllocNeverFails
  BY DEF BindInv, TrackingAgrees
<1>1. PICK x \in Offsets(o) :
        /\ given' = [given EXCEPT ![o] = x]
        /\ call' = [call EXCEPT ![t] = [object |-> o, offset |-> x]]
  BY DEF Alloc
<1>2. /\ UNCHANGED <<bind_map, vm, ops>> /\ pc[t] = "idle" /\ Owner[o] = t
      /\ pc' = [pc EXCEPT ![t] = "track alloc"] /\ ~Binding /\ ~Freeing
  BY DEF Alloc, MayAlloc
<1>3. /\ \A u \in Threads : u # t => pc'[u] = pc[u] /\ call'[u] = call[u]
      /\ pc'[t] = "track alloc" /\ call'[t].object = o /\ call'[t].offset = x
      /\ given'[o] = x /\ \A p \in Objects : p # o => given'[p] = given[p]
  BY <1>0, <1>1, <1>2 DEF TypeInv, TypeOK
<1>4. /\ \A u \in Threads : ops[u] = {} /\ \A p \in Objects : ~InFlight(p)
      /\ \A p \in Objects, y \in Addresses : ~InFlightAt(p, y)
  BY <1>0, <1>2, Quiet
<1>5. \A p \in Objects : bind_map[p].op # "none" =>
        bind_map[p].op \in {"TO_BIND", "BOUND"} /\ given[p] = bind_map[p].offset
  <2>1. \A p \in Objects : bind_map[p].op \in {"none", "TO_BIND", "BOUND"}
    <3>1. \A p \in Objects : bind_map[p] \in Entries /\ bind_map[p].op # "TO_UNBIND"
      BY <1>0, <1>2 DEF Freeing, TypeInv, TypeOK
    <3> QED
      BY <3>1, EntriesFit
  <2> QED
    BY <2>1, <1>2, <1>a DEF TrackedIsGiven, Freeing
<1>6. \A p \in Objects, y \in Addresses : Uses(p, y) => given[p] = y
  <2>1. \A p \in Objects : bind_map[p].op = "none" => bind_map[p].offset = None
    BY <1>0, EntriesFit DEF TypeInv, TypeOK
  <2> QED
    BY <2>1, <1>4, <1>5 DEF Uses
<1>7. \A p \in Objects, y \in Addresses : Uses(p, y)' => Uses(p, y) \/ (p = o /\ y = x)
  BY <1>2, <1>3 DEF Uses, InFlightAt
<1>8. Apart'
  <2>1. CASE given[o] # None
    <3>1. x = given[o]
      BY <2>1 DEF Offsets
    <3> QED
      BY <3>1, <1>7, FewerUses DEF BindInv, Uses
  <2>2. CASE given[o] = None
    <3>1. x = None \/ x \in FreeAddresses
      BY <2>2 DEF Offsets
    <3>2. \A p \in Objects : x \in Addresses => given[p] # x
      BY <3>1 DEF FreeAddresses
    <3>3. \A y \in Addresses : ~Uses(o, y)
      BY <2>2, <1>6
    <3>4. \A p \in Objects : x \in Addresses => ~Uses(p, x)
      BY <3>2, <1>6
    <3> QED
      BY <3>3, <3>4, <1>7 DEF BindInv, Apart
  <2> QED
    BY <2>1, <2>2
<1>9. OneBinds' /\ FlightInv' /\ BoundIsMapped' /\ MapInv'
  <2>1. OneBinds'
    BY <1>a, <1>3 DEF OneBinds
  <2>2. FlightInv'
    BY <1>2, <1>4 DEF FlightInv
  <2>3. BoundIsMapped'
    BY <1>2, <1>4 DEF BindInv, BoundIsMapped, InFlight
  <2>4. MapInv'
    BY <1>2 DEF BindInv, MapInv, InFlightAt
  <2> QED
    BY <2>1, <2>2, <2>3, <2>4
<1>10. AllocInv'
  <2>1. ASSUME NEW u \in Threads, pc'[u] = "track alloc", u # t
        PROVE  given'[call'[u].object] = call'[u].offset /\ bind_map'[call'[u].object].op # "TO_UNBIND"
    <3>1. pc[u] = "track alloc" /\ call'[u] = call[u]
      BY <2>1, <1>3
    <3>2. call[u].object \in Objects /\ call[u].object # o
      BY <2>1, <3>1, <1>0, <1>2 DEF TypeInv, CallInv
    <3>3. given[call[u].object] = call[u].offset /\ bind_map[call[u].object].op # "TO_UNBIND"
      BY <3>1, <1>a DEF AllocInv
    <3> QED
      BY <3>1, <3>2, <3>3, <1>2, <1>3
  <2>2. bind_map[o].op # "TO_UNBIND"
    BY <1>2 DEF Freeing
  <2> QED
    BY <2>1, <2>2, <1>2, <1>3, <1>4 DEF AllocInv
<1>11. TrackingAgrees'
  <2>1. ASSUME NEW p \in Objects, bind_map'[p].op \in {"TO_BIND", "BOUND"} PROVE given'[p] = bind_map'[p].offset
    <3>1. given[p] = bind_map[p].offset /\ bind_map[p].offset \in Addresses
      BY <2>1, <1>0, <1>2, <1>5, EntriesFit DEF TypeInv, TypeOK
    <3>2. p = o => x = given[o]
      BY <3>1 DEF Offsets
    <3> QED
      BY <3>1, <3>2, <1>2, <1>3
  <2> QED
    BY <2>1, <1>3 DEF BindInv, TrackingAgrees, TrackedIsGiven, AllocNeverFails
<1> QED
  BY <1>0, <1>8, <1>9, <1>10, <1>11 DEF BindInv

LEMMA FreeBinds ==
  ASSUME BindInv, Careful, NEW t \in Threads, NEW o \in Objects, Free(t, o)
  PROVE  BindInv'
<1> USE NoneIsApart
<1>0. TypeInv /\ TypeInv'
  BY FreeTypes DEF BindInv
<1>a. Apart /\ OneBinds /\ FlightInv /\ AllocInv /\ BoundIsMapped /\ MapInv /\ TrackedIsGiven /\ AllocNeverFails
  BY DEF BindInv, TrackingAgrees
<1>1. /\ UNCHANGED <<bind_map, vm, ops>> /\ pc[t] = "idle" /\ Owner[o] = t /\ ~Binding
      /\ given' = [given EXCEPT ![o] = None] /\ pc' = [pc EXCEPT ![t] = "track free"]
      /\ call' = [call EXCEPT ![t] = [object |-> o, offset |-> None]]
  BY DEF Free, MayFree
<1>2. /\ \A u \in Threads : u # t => pc'[u] = pc[u] /\ call'[u] = call[u]
      /\ pc'[t] = "track free" /\ call'[t].object = o
      /\ given'[o] = None /\ \A p \in Objects : p # o => given'[p] = given[p]
  BY <1>0, <1>1 DEF TypeInv, TypeOK
<1>3. Apart'
  <2>1. ASSUME NEW p \in Objects, NEW y \in Addresses, Uses(p, y)' PROVE Uses(p, y)
    <3>1. given'[p] = y => given[p] = y
      BY <1>2
    <3>2. InFlightAt(p, y)' => InFlightAt(p, y)
      BY <1>1 DEF InFlightAt
    <3> QED
      BY <2>1, <3>1, <3>2, <1>1 DEF Uses
  <2> QED
    BY <2>1, FewerUses DEF BindInv
<1>4. OneBinds'
  <2>1. \A u \in Threads : pc'[u] = "bind" => pc[u] = "bind"
    BY <1>2
  <2> QED
    BY <2>1, <1>a DEF OneBinds
<1>5. FlightInv' /\ BoundIsMapped' /\ MapInv'
  <2>1. FlightInv'
    BY <1>a, <1>1 DEF FlightInv
  <2>2. BoundIsMapped'
    BY <1>a, <1>1 DEF BoundIsMapped, InFlight
  <2>3. MapInv'
    BY <1>a, <1>1 DEF MapInv, InFlightAt
  <2> QED
    BY <2>1, <2>2, <2>3
<1>6. AllocInv'
  <2>1. ASSUME NEW u \in Threads, pc'[u] = "track alloc"
        PROVE  /\ pc[u] = "track alloc" /\ call'[u] = call[u] /\ call[u].object # o
               /\ call[u].object \in Objects
    <3>1. pc[u] = "track alloc" /\ call'[u] = call[u] /\ u # t
      BY <2>1, <1>1, <1>2
    <3>2. call[u].object \in Objects /\ Owner[call[u].object] = u
      BY <3>1, <1>0 DEF TypeInv, CallInv
    <3> QED
      BY <3>1, <3>2, <1>1
  <2>2. ASSUME NEW u \in Threads, pc'[u] = "track alloc"
        PROVE  /\ given'[call'[u].object] = call'[u].offset /\ bind_map'[call'[u].object].op # "TO_UNBIND"
               /\ \A q \in Threads : \A op \in ops'[q] :
                    op.object = call'[u].object => op.entry.op # "TO_UNBIND"
    <3>1. /\ given[call[u].object] = call[u].offset /\ bind_map[call[u].object].op # "TO_UNBIND"
          /\ \A q \in Threads : \A op \in ops[q] : op.object = call[u].object => op.entry.op # "TO_UNBIND"
      BY <2>1, <2>2, <1>a DEF AllocInv
    <3>2. call'[u] = call[u] /\ call[u].object \in Objects /\ call[u].object # o
      BY <2>1, <2>2
    <3>3. given'[call[u].object] = given[call[u].object] /\ bind_map' = bind_map /\ ops' = ops
      BY <3>2, <1>1, <1>2
    <3> QED
      BY <3>1, <3>2, <3>3
  <2> QED
    BY <2>2 DEF AllocInv
<1>7. TrackingAgrees'
  <2>1. ASSUME NEW p \in Objects, bind_map'[p].op \in {"TO_BIND", "BOUND"}
        PROVE  given'[p] = bind_map'[p].offset \/ \E u \in Threads : call'[u].object = p /\ pc'[u] = "track free"
    <3>1. CASE p = o
      BY <3>1, <1>2
    <3>2. CASE p # o
      <4>1. \/ given[p] = bind_map[p].offset
            \/ \E u \in Threads : call[u].object = p /\ pc[u] = "track free"
        BY <2>1, <1>1, <1>a DEF TrackedIsGiven
      <4> QED
        BY <3>2, <4>1, <1>1, <1>2
    <3> QED
      BY <3>1, <3>2
  <2> QED
    BY <2>1, <1>2 DEF BindInv, TrackingAgrees, TrackedIsGiven, AllocNeverFails
<1> QED
  BY <1>0, <1>3, <1>4, <1>5, <1>6, <1>7 DEF BindInv

LEMMA TrackAllocBinds ==
  ASSUME BindInv, Careful, NEW t \in Threads, TrackAlloc(t)
  PROVE  BindInv'
<1> DEFINE o == call[t].object
           x == call[t].offset
<1> USE NoneIsApart
<1>0. TypeInv /\ TypeInv'
  BY TrackAllocTypes DEF BindInv
<1>a. Apart /\ OneBinds /\ FlightInv /\ AllocInv /\ BoundIsMapped /\ MapInv /\ TrackedIsGiven /\ AllocNeverFails
  BY DEF BindInv, TrackingAgrees
<1>1. /\ UNCHANGED <<given, vm, ops>> /\ pc[t] = "track alloc" /\ call' = [call EXCEPT ![t] = NoCall]
      /\ bind_map' = IF x # None /\ ~Tracked(o)
                     THEN [bind_map EXCEPT ![o] = Entry("TO_BIND", x)] ELSE bind_map
      /\ pc' = [pc EXCEPT ![t] = IF x # None /\ Tracked(o) /\ ~IsSame(o, x) THEN "failed" ELSE "idle"]
  BY DEF TrackAlloc, Ends
<1>2. o \in Objects /\ x \in AddressOrNone
  BY <1>0, <1>1 DEF TypeInv, TypeOK, CallInv
<1>3. /\ given[o] = x /\ bind_map[o].op # "TO_UNBIND"
      /\ \A u \in Threads : \A op \in ops[u] : op.object = o => op.entry.op # "TO_UNBIND"
  BY <1>1, <1>a DEF AllocInv
<1>4. Tracked(o) => bind_map[o].op \in {"TO_BIND", "BOUND"} /\ bind_map[o].offset = x
  <2>1. bind_map[o].op \in {"none", "TO_BIND", "BOUND", "TO_UNBIND"}
    BY <1>0, <1>2, EntriesFit DEF TypeInv, TypeOK
  <2>2. ~\E u \in Threads : call[u].object = o /\ pc[u] = "track free"
    BY <1>0, <1>1, OneCall
  <2> QED
    BY <2>1, <2>2, <1>2, <1>3, <1>a DEF Tracked, TrackedIsGiven
<1>5. /\ pc'[t] = "idle" /\ \A u \in Threads : u # t => pc'[u] = pc[u] /\ call'[u] = call[u]
      /\ call'[t].object = None
  BY <1>0, <1>1, <1>4 DEF TypeInv, TypeOK, IsSame, NoCall
<1>6. /\ \A p \in Objects : p # o \/ Tracked(o) => bind_map'[p] = bind_map[p]
      /\ bind_map'[o].op # "none" => bind_map'[o].offset = x
      /\ bind_map'[o] = bind_map[o] \/ (bind_map'[o].op = "TO_BIND" /\ bind_map'[o].offset = x)
  <2>1. bind_map[o].op = "none" => bind_map'[o] = bind_map[o] \/ bind_map'[o] = Entry("TO_BIND", x)
    BY <1>0, <1>1, <1>2 DEF TypeInv, TypeOK
  <2>2. Entry("TO_BIND", x).op = "TO_BIND" /\ Entry("TO_BIND", x).offset = x
    BY DEF Entry
  <2>3. \A p \in Objects : p # o \/ Tracked(o) => bind_map'[p] = bind_map[p]
    BY <1>0, <1>1, <1>2 DEF TypeInv, TypeOK
  <2> QED
    BY <2>1, <2>2, <2>3, <1>2, <1>4 DEF Tracked
<1>b. \A p \in Objects : bind_map[p].op # "none" => bind_map'[p] = bind_map[p]
  BY <1>6 DEF Tracked
<1>7. Apart'
  <2>1. \A p \in Objects, y \in Addresses : Uses(p, y)' => Uses(p, y)
    BY <1>1, <1>2, <1>3, <1>6 DEF Uses, InFlightAt
  <2> QED
    BY <2>1, <1>a, FewerUses
<1>8. OneBinds'
  <2>1. \A u \in Threads : pc'[u] = "bind" => pc[u] = "bind"
    BY <1>5
  <2> QED
    BY <2>1, <1>a DEF OneBinds
<1>9. FlightInv'
  <2>1. ASSUME NEW u \in Threads, NEW op \in ops[u]
        PROVE  /\ op.entry.op \in {"TO_BIND", "TO_UNBIND"}
               /\ op.entry.op = "TO_BIND" => /\ bind_map'[op.object].op \in {"BOUND", "TO_UNBIND"}
                                             /\ bind_map'[op.object].offset = op.entry.offset
               /\ op.entry.op = "TO_UNBIND" => bind_map'[op.object] = NoEntry
    <3>1. op.object \in Objects
      BY <1>0, <1>a, OpsFit
    <3>2. CASE op.entry.op = "TO_BIND"
      BY <3>1, <3>2, <1>b, <1>a DEF FlightInv
    <3>3. CASE op.entry.op = "TO_UNBIND"
      <4>1. op.object # o
        BY <3>3, <1>3
      <4> QED
        BY <3>1, <3>3, <4>1, <1>6, <1>a DEF FlightInv
    <3> QED
      BY <3>2, <3>3, <1>a DEF FlightInv
  <2> QED
    BY <2>1, <1>1 DEF FlightInv
<1>10. AllocInv'
  <2>1. ASSUME NEW u \in Threads, pc'[u] = "track alloc"
        PROVE  /\ given'[call'[u].object] = call'[u].offset /\ bind_map'[call'[u].object].op # "TO_UNBIND"
               /\ \A q \in Threads : \A op \in ops'[q] :
                    op.object = call'[u].object => op.entry.op # "TO_UNBIND"
    <3>1. pc[u] = "track alloc" /\ call'[u] = call[u] /\ u # t
      BY <2>1, <1>5
    <3>2. call[u].object \in Objects /\ call[u].object # o
      BY <3>1, <1>0, <1>1, OneCall DEF TypeInv, CallInv
    <3>3. /\ given[call[u].object] = call[u].offset /\ bind_map[call[u].object].op # "TO_UNBIND"
          /\ \A q \in Threads : \A op \in ops[q] : op.object = call[u].object => op.entry.op # "TO_UNBIND"
      BY <3>1, <1>a DEF AllocInv
    <3>4. bind_map'[call[u].object] = bind_map[call[u].object]
      BY <3>2, <1>6
    <3> QED
      BY <3>1, <3>3, <3>4, <1>1
  <2> QED
    BY <2>1 DEF AllocInv
<1>11. BoundIsMapped' /\ MapInv'
  <2>1. BoundIsMapped'
    <3>1. \A p \in Objects : bind_map'[p].op = "BOUND" => bind_map'[p] = bind_map[p]
      BY <1>2, <1>6
    <3> QED
      BY <3>1, <1>1, <1>a DEF BoundIsMapped, InFlight
  <2>2. MapInv'
    <3>1. ASSUME NEW y \in Addresses, vm[y] # None
          PROVE  \/ bind_map'[vm[y]].offset = y /\ bind_map'[vm[y]].op \in {"BOUND", "TO_UNBIND"}
                 \/ InFlightAt(vm[y], y)'
      <4>1. vm[y] \in Objects
        BY <3>1, <1>0 DEF TypeInv, TypeOK
      <4>2. \/ bind_map[vm[y]].offset = y /\ bind_map[vm[y]].op \in {"BOUND", "TO_UNBIND"}
            \/ InFlightAt(vm[y], y)
        BY <3>1, <1>a DEF MapInv
      <4>3. bind_map[vm[y]].op # "none" => bind_map'[vm[y]] = bind_map[vm[y]]
        BY <4>1, <1>b
      <4>4. InFlightAt(vm[y], y) => InFlightAt(vm[y], y)'
        BY <1>1 DEF InFlightAt
      <4> QED
        BY <4>2, <4>3, <4>4
    <3> QED
      BY <3>1, <1>1 DEF MapInv
  <2> QED
    BY <2>1, <2>2
<1>12. TrackingAgrees'
  <2>1. ASSUME NEW p \in Objects, bind_map'[p].op \in {"TO_BIND", "BOUND"}
        PROVE  given'[p] = bind_map'[p].offset \/ \E u \in Threads : call'[u].object = p /\ pc'[u] = "track free"
    <3>1. CASE p = o
      BY <2>1, <3>1, <1>1, <1>3, <1>6
    <3>2. CASE p # o
      <4>1. bind_map'[p] = bind_map[p]
        BY <3>2, <1>6
      <4>2. \/ given[p] = bind_map[p].offset
            \/ \E u \in Threads : u # t /\ call[u].object = p /\ pc[u] = "track free"
        BY <2>1, <4>1, <1>1, <1>a DEF TrackedIsGiven
      <4> QED
        BY <4>1, <4>2, <1>1, <1>5
    <3> QED
      BY <3>1, <3>2
  <2>2. AllocNeverFails'
    BY <1>5, <1>a DEF AllocNeverFails
  <2> QED
    BY <2>1, <2>2 DEF TrackingAgrees, TrackedIsGiven
<1> QED
  BY <1>0, <1>7, <1>8, <1>9, <1>10, <1>11, <1>12 DEF BindInv

LEMMA TrackFreeBinds ==
  ASSUME BindInv, Careful, NEW t \in Threads, TrackFree(t)
  PROVE  BindInv'
<1> DEFINE o == call[t].object
<1> USE NoneIsApart
<1>0. TypeInv /\ TypeInv'
  BY TrackFreeTypes DEF BindInv
<1>a. Apart /\ OneBinds /\ FlightInv /\ AllocInv /\ BoundIsMapped /\ MapInv /\ TrackedIsGiven /\ AllocNeverFails
  BY DEF BindInv, TrackingAgrees
<1>1. /\ UNCHANGED <<given, vm, ops>> /\ pc[t] = "track free" /\ call' = [call EXCEPT ![t] = NoCall]
      /\ bind_map' = [bind_map EXCEPT ![o] = Untracked(@)] /\ pc' = [pc EXCEPT ![t] = "idle"]
  BY DEF TrackFree, Ends
<1>2. o \in Objects /\ bind_map[o] \in Entries
  BY <1>0, <1>1 DEF TypeInv, TypeOK, CallInv
<1>5. /\ pc'[t] = "idle" /\ \A u \in Threads : u # t => pc'[u] = pc[u] /\ call'[u] = call[u]
      /\ call'[t].object = None
  BY <1>0, <1>1 DEF TypeInv, TypeOK, NoCall
<1>6. /\ \A p \in Objects : p # o => bind_map'[p] = bind_map[p]
      /\ bind_map'[o] = Untracked(bind_map[o])
  BY <1>0, <1>1, <1>2 DEF TypeInv, TypeOK
<1>7. /\ bind_map'[o].op \in {"none", "TO_UNBIND"}
      /\ bind_map'[o].offset \in {None, bind_map[o].offset}
      /\ bind_map[o].op \in {"BOUND", "TO_UNBIND"} =>
           bind_map'[o].op = "TO_UNBIND" /\ bind_map'[o].offset = bind_map[o].offset
      /\ bind_map[o] = NoEntry => bind_map'[o] = NoEntry
  <2>1. bind_map[o].op \in {"none", "TO_BIND", "BOUND", "TO_UNBIND"}
    BY <1>2, EntriesFit
  <2> QED
    BY <2>1, <1>6, <1>2 DEF Untracked, Entry, NoEntry
<1>b. Apart'
  <2>1. \A p \in Objects, y \in Addresses : Uses(p, y)' => Uses(p, y)
    BY <1>1, <1>6, <1>7 DEF Uses, InFlightAt
  <2> QED
    BY <2>1, <1>a, FewerUses
<1>8. OneBinds'
  <2>1. \A u \in Threads : pc'[u] = "bind" => pc[u] = "bind"
    BY <1>5
  <2> QED
    BY <2>1, <1>a DEF OneBinds
<1>9. FlightInv'
  <2>1. ASSUME NEW u \in Threads, NEW op \in ops[u]
        PROVE  /\ op.entry.op \in {"TO_BIND", "TO_UNBIND"}
               /\ op.entry.op = "TO_BIND" => /\ bind_map'[op.object].op \in {"BOUND", "TO_UNBIND"}
                                             /\ bind_map'[op.object].offset = op.entry.offset
               /\ op.entry.op = "TO_UNBIND" => bind_map'[op.object] = NoEntry
    <3>1. op.object \in Objects
      BY <1>0, <1>a, OpsFit
    <3>2. /\ op.entry.op \in {"TO_BIND", "TO_UNBIND"}
          /\ op.entry.op = "TO_BIND" => /\ bind_map[op.object].op \in {"BOUND", "TO_UNBIND"}
                                        /\ bind_map[op.object].offset = op.entry.offset
          /\ op.entry.op = "TO_UNBIND" => bind_map[op.object] = NoEntry
      BY <1>a DEF FlightInv
    <3>3. CASE op.object = o
      BY <3>2, <3>3, <1>7
    <3>4. CASE op.object # o
      BY <3>1, <3>2, <3>4, <1>6
    <3> QED
      BY <3>3, <3>4
  <2> QED
    BY <2>1, <1>1 DEF FlightInv
<1>10. AllocInv'
  <2>1. ASSUME NEW u \in Threads, pc'[u] = "track alloc"
        PROVE  /\ given'[call'[u].object] = call'[u].offset /\ bind_map'[call'[u].object].op # "TO_UNBIND"
               /\ \A q \in Threads : \A op \in ops'[q] :
                    op.object = call'[u].object => op.entry.op # "TO_UNBIND"
    <3>1. pc[u] = "track alloc" /\ call'[u] = call[u] /\ u # t
      BY <2>1, <1>5
    <3>2. call[u].object \in Objects /\ call[u].object # o
      BY <3>1, <1>0, <1>1, OneCall DEF TypeInv, CallInv
    <3>3. /\ given[call[u].object] = call[u].offset /\ bind_map[call[u].object].op # "TO_UNBIND"
          /\ \A q \in Threads : \A op \in ops[q] : op.object = call[u].object => op.entry.op # "TO_UNBIND"
      BY <3>1, <1>a DEF AllocInv
    <3>4. bind_map'[call[u].object] = bind_map[call[u].object]
      BY <3>2, <1>6
    <3> QED
      BY <3>1, <3>3, <3>4, <1>1
  <2> QED
    BY <2>1 DEF AllocInv
<1>11. BoundIsMapped' /\ MapInv'
  <2>1. BoundIsMapped'
    <3>1. \A p \in Objects : bind_map'[p].op = "BOUND" => bind_map'[p] = bind_map[p]
      BY <1>6, <1>7
    <3> QED
      BY <3>1, <1>1, <1>a DEF BoundIsMapped, InFlight
  <2>2. MapInv'
    <3>1. \A p \in Objects, y \in Addresses :
            bind_map[p].offset = y /\ bind_map[p].op \in {"BOUND", "TO_UNBIND"} =>
            bind_map'[p].offset = y /\ bind_map'[p].op \in {"BOUND", "TO_UNBIND"}
      BY <1>6, <1>7
    <3>2. ASSUME NEW y \in Addresses, vm[y] # None
          PROVE  \/ bind_map'[vm[y]].offset = y /\ bind_map'[vm[y]].op \in {"BOUND", "TO_UNBIND"}
                 \/ InFlightAt(vm[y], y)'
      <4>1. vm[y] \in Objects
        BY <3>2, <1>0 DEF TypeInv, TypeOK
      <4>2. \/ bind_map[vm[y]].offset = y /\ bind_map[vm[y]].op \in {"BOUND", "TO_UNBIND"}
            \/ InFlightAt(vm[y], y)
        BY <3>2, <1>a DEF MapInv
      <4>3. InFlightAt(vm[y], y) => InFlightAt(vm[y], y)'
        BY <1>1 DEF InFlightAt
      <4> QED
        BY <3>1, <4>1, <4>2, <4>3
    <3> QED
      BY <3>2, <1>1 DEF MapInv
  <2> QED
    BY <2>1, <2>2
<1>12. TrackingAgrees'
  <2>1. ASSUME NEW p \in Objects, bind_map'[p].op \in {"TO_BIND", "BOUND"}
        PROVE  given'[p] = bind_map'[p].offset \/ \E u \in Threads : call'[u].object = p /\ pc'[u] = "track free"
    <3>1. p # o /\ bind_map'[p] = bind_map[p]
      BY <2>1, <1>6, <1>7
    <3>2. \/ given[p] = bind_map[p].offset
          \/ \E u \in Threads : u # t /\ call[u].object = p /\ pc[u] = "track free"
      BY <2>1, <3>1, <1>a DEF TrackedIsGiven
    <3> QED
      BY <3>1, <3>2, <1>1, <1>5
  <2>2. AllocNeverFails'
    BY <1>5, <1>a DEF AllocNeverFails
  <2> QED
    BY <2>1, <2>2 DEF TrackingAgrees, TrackedIsGiven
<1> QED
  BY <1>0, <1>b, <1>8, <1>9, <1>10, <1>11, <1>12 DEF BindInv

LEMMA CollectBinds ==
  ASSUME BindInv, Careful, NEW t \in Threads, Collect(t)
  PROVE  BindInv'
<1> USE NoneIsApart
<1>0. TypeInv /\ TypeInv'
  BY CollectTypes DEF BindInv
<1>a. Apart /\ OneBinds /\ FlightInv /\ AllocInv /\ BoundIsMapped /\ MapInv /\ TrackedIsGiven /\ AllocNeverFails
  BY DEF BindInv, TrackingAgrees
<1>1. PICK new : /\ new = {[object |-> o, entry |-> bind_map[o]] : o \in Pending}
                 /\ ops' = [ops EXCEPT ![t] = new]
  BY DEF Collect
<1>2. /\ UNCHANGED <<given, vm, call>> /\ pc[t] = "idle" /\ pc' = [pc EXCEPT ![t] = "bind"] /\ ~Binding
      /\ bind_map' = [o \in Objects |->
           CASE bind_map[o].op = "TO_BIND"   -> Entry("BOUND", bind_map[o].offset)
             [] bind_map[o].op = "TO_UNBIND" -> NoEntry
             [] OTHER                        -> bind_map[o]]
  BY DEF Collect, MayBind
<1>3. /\ \A u \in Threads : ops[u] = {} /\ \A p \in Objects : ~InFlight(p)
      /\ \A p \in Objects, y \in Addresses : ~InFlightAt(p, y)
  BY <1>0, <1>2, Quiet
<1>4. /\ \A op \in new : op.object \in Pending /\ op.entry = bind_map[op.object]
      /\ \A p \in Pending : \E op \in new : op.object = p /\ op.entry = bind_map[p]
  <2>1. \A op \in new : op.object \in Pending /\ op.entry = bind_map[op.object]
    BY <1>1
  <2>2. ASSUME NEW p \in Pending PROVE \E op \in new : op.object = p /\ op.entry = bind_map[p]
    <3> DEFINE op == [object |-> p, entry |-> bind_map[p]]
    <3>1. op \in new /\ op.object = p /\ op.entry = bind_map[p]
      BY <1>1
    <3> HIDE DEF op
    <3> QED
      BY <3>1
  <2> QED
    BY <2>1, <2>2
<1>5. /\ ops'[t] = new /\ \A u \in Threads : u # t => ops'[u] = {}
      /\ pc'[t] = "bind" /\ \A u \in Threads : u # t => pc'[u] = pc[u]
  BY <1>0, <1>1, <1>2, <1>3 DEF TypeInv, TypeOK
<1>6. \A p \in Objects :
        /\ bind_map[p].op = "TO_BIND" => bind_map'[p].op = "BOUND" /\ bind_map'[p].offset = bind_map[p].offset
        /\ bind_map[p].op = "TO_UNBIND" => bind_map'[p] = NoEntry
        /\ bind_map[p].op \in {"none", "BOUND"} => bind_map'[p] = bind_map[p]
  <2>1. \A y : Entry("BOUND", y).op = "BOUND" /\ Entry("BOUND", y).offset = y
    BY DEF Entry
  <2> QED
    BY <1>2, <2>1
<1>7. /\ \A p \in Objects : bind_map[p].op \in {"none", "TO_BIND", "BOUND", "TO_UNBIND"}
      /\ Pending \subseteq Objects
      /\ \A p \in Objects : p \in Pending <=> bind_map[p].op \in {"TO_BIND", "TO_UNBIND"}
      /\ NoEntry.op = "none" /\ NoEntry.offset = None
  BY <1>0, EntriesFit DEF TypeInv, TypeOK, Pending, NoEntry
<1>8. Apart'
  <2>1. ASSUME NEW p \in Objects, NEW y \in Addresses, Uses(p, y)' PROVE Uses(p, y)
    <3>1. CASE given'[p] = y
      BY <3>1, <1>2 DEF Uses
    <3>2. CASE bind_map'[p].offset = y
      BY <3>2, <1>6, <1>7 DEF Uses
    <3>3. CASE InFlightAt(p, y)'
      <4>1. \E op \in new : op.object = p /\ op.entry.offset = y
        BY <3>3, <1>5 DEF InFlightAt
      <4> QED
        BY <4>1, <1>4 DEF Uses
    <3> QED
      BY <2>1, <3>1, <3>2, <3>3 DEF Uses
  <2> QED
    BY <2>1, <1>a, FewerUses
<1>9. OneBinds'
  BY <1>2, <1>5 DEF OneBinds, Binding
<1>10. FlightInv'
  <2>1. ASSUME NEW op \in new
        PROVE  /\ op.entry.op \in {"TO_BIND", "TO_UNBIND"}
               /\ op.entry.op = "TO_BIND" => /\ bind_map'[op.object].op \in {"BOUND", "TO_UNBIND"}
                                             /\ bind_map'[op.object].offset = op.entry.offset
               /\ op.entry.op = "TO_UNBIND" => bind_map'[op.object] = NoEntry
    BY <1>4, <1>6, <1>7
  <2> QED
    BY <2>1, <1>5 DEF FlightInv
<1>11. AllocInv'
  <2>1. ASSUME NEW u \in Threads, pc'[u] = "track alloc"
        PROVE  /\ given'[call'[u].object] = call'[u].offset /\ bind_map'[call'[u].object].op # "TO_UNBIND"
               /\ \A q \in Threads : \A op \in ops'[q] :
                    op.object = call'[u].object => op.entry.op # "TO_UNBIND"
    <3>1. pc[u] = "track alloc" /\ call' = call /\ given' = given /\ call[u].object \in Objects
      BY <2>1, <1>0, <1>2, <1>5 DEF TypeInv, CallInv
    <3>2. given[call[u].object] = call[u].offset /\ bind_map[call[u].object].op # "TO_UNBIND"
      BY <3>1, <1>a DEF AllocInv
    <3>3. bind_map'[call[u].object].op # "TO_UNBIND"
      BY <3>1, <1>6, <1>7
    <3>4. \A q \in Threads : \A op \in ops'[q] : op.object = call[u].object => op.entry.op # "TO_UNBIND"
      BY <3>2, <1>4, <1>5
    <3> QED
      BY <3>1, <3>2, <3>3, <3>4
  <2> QED
    BY <2>1 DEF AllocInv
<1>12. BoundIsMapped' /\ MapInv'
  <2>1. ASSUME NEW p \in Objects, bind_map'[p].op = "BOUND", ~InFlight(p)' PROVE vm'[bind_map'[p].offset] = p
    <3>1. p \notin Pending
      BY <2>1, <1>4, <1>5 DEF InFlight
    <3>2. bind_map[p].op = "BOUND" /\ bind_map'[p] = bind_map[p]
      BY <2>1, <3>1, <1>6, <1>7
    <3> QED
      BY <3>2, <1>2, <1>3, <1>a DEF BoundIsMapped
  <2>2. ASSUME NEW y \in Addresses, vm[y] # None
        PROVE  \/ bind_map'[vm[y]].offset = y /\ bind_map'[vm[y]].op \in {"BOUND", "TO_UNBIND"}
               \/ InFlightAt(vm[y], y)'
    <3>1. vm[y] \in Objects
      BY <2>2, <1>0 DEF TypeInv, TypeOK
    <3>2. bind_map[vm[y]].offset = y /\ bind_map[vm[y]].op \in {"BOUND", "TO_UNBIND"}
      BY <2>2, <3>1, <1>3, <1>a DEF MapInv
    <3>3. bind_map[vm[y]].op = "TO_UNBIND" => \E op \in new : op.object = vm[y] /\ op.entry.offset = y
      BY <3>1, <3>2, <1>4, <1>7
    <3>4. bind_map[vm[y]].op = "TO_UNBIND" => InFlightAt(vm[y], y)'
      BY <3>3, <1>2, <1>5 DEF InFlightAt
    <3> QED
      BY <3>1, <3>2, <3>4, <1>6
  <2> QED
    BY <2>1, <2>2, <1>2 DEF BoundIsMapped, MapInv
<1>13. TrackingAgrees'
  <2>1. ASSUME NEW p \in Objects, bind_map'[p].op \in {"TO_BIND", "BOUND"}
        PROVE  given'[p] = bind_map'[p].offset \/ \E u \in Threads : call'[u].object = p /\ pc'[u] = "track free"
    <3>1. bind_map[p].op \in {"TO_BIND", "BOUND"} /\ bind_map'[p].offset = bind_map[p].offset
      BY <2>1, <1>6, <1>7
    <3>2. \/ given[p] = bind_map[p].offset
          \/ \E u \in Threads : u # t /\ call[u].object = p /\ pc[u] = "track free"
      BY <3>1, <1>2, <1>a DEF TrackedIsGiven
    <3> QED
      BY <3>1, <3>2, <1>2, <1>5
  <2>2. AllocNeverFails'
    BY <1>5, <1>a DEF AllocNeverFails
  <2> QED
    BY <2>1, <2>2 DEF TrackingAgrees, TrackedIsGiven
<1> QED
  BY <1>0, <1>8, <1>9, <1>10, <1>11, <1>12, <1>13 DEF BindInv

\* Of what is in flight at one address, every operation is of one object, and of one kind:
\* the order of the hash table does not matter to the kernel.
LEMMA OneKindAt ==
  ASSUME TypeInv, Apart, FlightInv, NEW t \in Threads, NEW op \in ops[t], NEW other \in ops[t],
         op.entry.offset = other.entry.offset
  PROVE  op.object = other.object /\ op.entry.op = other.entry.op
<1>1. op.object \in Objects /\ other.object \in Objects /\ op.entry.offset \in Addresses
  BY OpsFit
<1>2. Uses(op.object, op.entry.offset) /\ Uses(other.object, op.entry.offset)
  BY DEF Uses, InFlightAt
<1>3. op.object = other.object
  BY <1>1, <1>2 DEF Apart
<1>4. NoEntry.op = "none"
  BY DEF NoEntry
<1> QED
  BY <1>3, <1>4 DEF FlightInv

LEMMA BindUnbindBinds ==
  ASSUME BindInv, Careful, NEW t \in Threads, BindUnbind(t)
  PROVE  BindInv'
<1> USE NoneIsApart
<1>0. TypeInv /\ TypeInv'
  BY BindUnbindTypes DEF BindInv
<1>a. Apart /\ OneBinds /\ FlightInv /\ AllocInv /\ BoundIsMapped /\ MapInv /\ TrackedIsGiven /\ AllocNeverFails
  BY DEF BindInv, TrackingAgrees
<1>1. PICK last \in [{op.entry.offset : op \in ops[t]} -> ops[t]] :
        /\ \A x \in DOMAIN last : last[x].entry.offset = x
        /\ vm' = [x \in Addresses |-> IF x \in DOMAIN last THEN Leaves(last[x]) ELSE vm[x]]
  BY DEF BindUnbind
<1>2. /\ UNCHANGED <<given, bind_map, call>> /\ pc[t] = "bind"
      /\ pc' = [pc EXCEPT ![t] = "idle"] /\ ops' = [ops EXCEPT ![t] = {}]
  BY DEF BindUnbind
<1>3. \A u \in Threads : u # t => ops[u] = {}
  BY <1>0, <1>2, <1>a DEF OneBinds, TypeInv, CallInv
<1>4. /\ \A u \in Threads : ops'[u] = {}
      /\ pc'[t] = "idle" /\ \A u \in Threads : u # t => pc'[u] = pc[u]
  BY <1>0, <1>2, <1>3 DEF TypeInv, TypeOK
<1>5. /\ \A p : InFlight(p) => \E op \in ops[t] : op.object = p
      /\ \A p, y : InFlightAt(p, y) => \E op \in ops[t] : op.object = p /\ op.entry.offset = y
  BY <1>3 DEF InFlight, InFlightAt
<1>6. /\ \A y \in DOMAIN last : last[y] \in ops[t] /\ last[y].entry.offset = y
      /\ \A op \in ops[t] : op.entry.offset \in DOMAIN last
  BY <1>1
<1>7. \A y \in Addresses : vm'[y] = IF y \in DOMAIN last THEN Leaves(last[y]) ELSE vm[y]
  BY <1>1
<1>8. Apart'
  <2>1. \A p \in Objects, y \in Addresses : Uses(p, y)' => Uses(p, y)
    BY <1>2, <1>4 DEF Uses, InFlightAt
  <2> QED
    BY <2>1, <1>a, FewerUses
<1>9. OneBinds' /\ FlightInv'
  <2>1. \A u \in Threads : pc'[u] = "bind" => pc[u] = "bind"
    BY <1>4
  <2> QED
    BY <2>1, <1>4, <1>a DEF OneBinds, FlightInv
<1>10. AllocInv'
  <2>1. \A u \in Threads : pc'[u] = "track alloc" => pc[u] = "track alloc"
    BY <1>4
  <2> QED
    BY <2>1, <1>2, <1>4, <1>a DEF AllocInv
<1>11. BoundIsMapped'
  <2>1. ASSUME NEW p \in Objects, bind_map[p].op = "BOUND" PROVE vm'[bind_map[p].offset] = p
    <3> DEFINE y == bind_map[p].offset
    <3>1. y \in Addresses /\ Uses(p, y)
      BY <2>1, <1>0, EntriesFit DEF TypeInv, TypeOK, Uses
    <3>2. CASE InFlight(p)
      <4>1. PICK op \in ops[t] : op.object = p
        BY <3>2, <1>5
      <4>2. op.entry.op = "TO_BIND" /\ op.entry.offset = y
        BY <2>1, <4>1, <1>a DEF FlightInv, NoEntry
      <4>3. y \in DOMAIN last /\ last[y] \in ops[t] /\ last[y].entry.offset = op.entry.offset
        BY <4>2, <1>6
      <4>4. last[y].object = p /\ last[y].entry.op = "TO_BIND"
        BY <4>1, <4>2, <4>3, <1>0, <1>a, OneKindAt
      <4> QED
        BY <3>1, <4>3, <4>4, <1>7 DEF Leaves
    <3>3. CASE ~InFlight(p)
      <4>1. ASSUME y \in DOMAIN last PROVE FALSE
        <5>1. last[y] \in ops[t] /\ last[y].entry.offset = y
          BY <4>1, <1>6
        <5>2. last[y].object \in Objects
          BY <5>1, <1>0, <1>a, OpsFit
        <5>3. Uses(last[y].object, y)
          BY <5>1 DEF Uses, InFlightAt
        <5>4. last[y].object = p
          BY <3>1, <5>2, <5>3, <1>a DEF Apart
        <5> QED
          BY <3>3, <5>1, <5>4 DEF InFlight
      <4>2. vm[y] = p
        BY <2>1, <3>3, <1>a DEF BoundIsMapped
      <4> QED
        BY <3>1, <4>1, <4>2, <1>7
    <3> QED
      BY <3>2, <3>3
  <2> QED
    BY <2>1, <1>2 DEF BoundIsMapped
<1>12. MapInv'
  <2>1. ASSUME NEW y \in Addresses, vm'[y] # None
        PROVE  bind_map[vm'[y]].offset = y /\ bind_map[vm'[y]].op \in {"BOUND", "TO_UNBIND"}
    <3>1. CASE y \in DOMAIN last
      <4>1. vm'[y] = Leaves(last[y]) /\ last[y] \in ops[t] /\ last[y].entry.offset = y
        BY <3>1, <1>6, <1>7
      <4>2. last[y].entry.op = "TO_BIND" /\ vm'[y] = last[y].object
        BY <2>1, <4>1 DEF Leaves
      <4> QED
        BY <4>1, <4>2, <1>a DEF FlightInv
    <3>2. CASE y \notin DOMAIN last
      <4>1. vm'[y] = vm[y]
        BY <3>2, <1>7
      <4>2. ~InFlightAt(vm[y], y)
        BY <3>2, <1>5, <1>6
      <4> QED
        BY <2>1, <4>1, <4>2, <1>a DEF MapInv
    <3> QED
      BY <3>1, <3>2
  <2> QED
    BY <2>1, <1>2 DEF MapInv
<1>13. TrackingAgrees'
  <2>1. \A p \in Objects, u \in Threads :
          call[u].object = p /\ pc[u] = "track free" => call'[u].object = p /\ pc'[u] = "track free"
    BY <1>2, <1>4
  <2>2. ASSUME NEW p \in Objects, bind_map'[p].op \in {"TO_BIND", "BOUND"}
        PROVE  given'[p] = bind_map'[p].offset \/ \E u \in Threads : call'[u].object = p /\ pc'[u] = "track free"
    <3>1. \/ given[p] = bind_map[p].offset
          \/ \E u \in Threads : call[u].object = p /\ pc[u] = "track free"
      BY <2>2, <1>2, <1>a DEF TrackedIsGiven
    <3> QED
      BY <2>1, <3>1, <1>2
  <2>3. AllocNeverFails'
    BY <1>4, <1>a DEF AllocNeverFails
  <2> QED
    BY <2>2, <2>3 DEF TrackingAgrees, TrackedIsGiven
<1> QED
  BY <1>0, <1>8, <1>9, <1>10, <1>11, <1>12, <1>13 DEF BindInv

-----------------------------------------------------------------------------
(* The theorems.                                                           *)

LEMMA InitBinds == Init => BindInv
<1> SUFFICES ASSUME Init PROVE BindInv
  OBVIOUS
<1> USE NoneIsApart
<1>1. TypeInv
  BY InitTypes
<1>2. /\ \A o \in Objects : given[o] = None /\ bind_map[o].op = "none" /\ bind_map[o].offset = None
      /\ \A x \in Addresses : vm[x] = None
      /\ \A t \in Threads : pc[t] = "idle" /\ ops[t] = {}
  BY DEF Init, NoEntry
<1>3. Apart
  BY <1>2 DEF Apart, Uses, InFlightAt
<1>4. OneBinds /\ FlightInv /\ AllocInv /\ BoundIsMapped /\ MapInv
  BY <1>2 DEF OneBinds, FlightInv, AllocInv, BoundIsMapped, MapInv
<1>5. TrackingAgrees
  BY <1>2 DEF TrackingAgrees, TrackedIsGiven, AllocNeverFails
<1> QED
  BY <1>1, <1>3, <1>4, <1>5 DEF BindInv

LEMMA StutterBinds == ASSUME BindInv, UNCHANGED vars PROVE BindInv'
<1>1. TypeInv'
  BY NextTypes DEF BindInv
<1>a. Apart /\ OneBinds /\ FlightInv /\ AllocInv /\ BoundIsMapped /\ MapInv /\ TrackedIsGiven /\ AllocNeverFails
  BY DEF BindInv, TrackingAgrees
<1>2. Apart'
  BY <1>a DEF vars, Apart, Uses, InFlightAt
<1>3. OneBinds' /\ FlightInv' /\ AllocInv'
  BY <1>a DEF vars, OneBinds, FlightInv, AllocInv
<1>4. BoundIsMapped' /\ MapInv'
  BY <1>a DEF vars, BoundIsMapped, InFlight, MapInv, InFlightAt
<1>5. TrackingAgrees'
  BY <1>a DEF vars, TrackingAgrees, TrackedIsGiven, AllocNeverFails
<1> QED
  BY <1>1, <1>2, <1>3, <1>4, <1>5 DEF BindInv

LEMMA NextBinds == ASSUME Careful PROVE BindInv /\ [Next]_vars => BindInv'
<1> SUFFICES ASSUME BindInv, [Next]_vars PROVE BindInv'
  OBVIOUS
<1>1. CASE UNCHANGED vars
  BY <1>1, StutterBinds
<1>2. CASE Next
  BY <1>2, AllocBinds, FreeBinds, TrackAllocBinds, TrackFreeBinds, CollectBinds, BindUnbindBinds DEF Next
<1> QED
  BY <1>1, <1>2

\* The invariant, of careful callers.
LEMMA BindsAreKept == Careful => (Spec => []BindInv)
<1> SUFFICES ASSUME Careful PROVE Spec => []BindInv
  OBVIOUS
<1>1. BindInv /\ [Next]_vars => BindInv'
  BY NextBinds
<1> QED
  BY <1>1, InitBinds, PTL DEF Spec

\* bind_map and the kernel's mappings agree both ways when callers bind one at a time, and
\* bind what they free before they allocate: what intel_allocator_bind() records before the
\* ioctl is true after it, whatever alloc() and free() do in between.
THEOREM BoundAreMapped == Careful => (Spec => []BindMapIsTrue)
<1>1. BindInv => BindMapIsTrue
  <2>1. ASSUME NEW o, NEW x, InFlightAt(o, x) PROVE InFlight(o)
    BY <2>1 DEF InFlightAt, InFlight
  <2>2. MapInv => MappedIsTracked
    BY <2>1 DEF MapInv, MappedIsTracked
  <2> QED
    BY <2>2 DEF BindInv, BindMapIsTrue
<1> SUFFICES ASSUME Careful PROVE Spec => []BindMapIsTrue
  OBVIOUS
<1>2. Spec => []BindInv
  BY BindsAreKept
<1> QED
  BY <1>1, <1>2, PTL

\* bind_map and the allocator agree except for calls under way, and the assertion of
\* track_object() holds, for careful callers.
THEOREM TrackedAsGiven == Careful => (Spec => []TrackingAgrees)
<1>1. BindInv => TrackingAgrees
  BY DEF BindInv
<1> SUFFICES ASSUME Careful PROVE Spec => []TrackingAgrees
  OBVIOUS
<1>2. Spec => []BindInv
  BY BindsAreKept
<1> QED
  BY <1>1, <1>2, PTL
=============================================================================
