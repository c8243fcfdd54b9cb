---------------------------- MODULE BindTracking ----------------------------
(***************************************************************************)
(* lib/intel_allocator.c on xe: alloc() and free() of an allocator handle  *)
(* are remembered in bind_map, and intel_allocator_bind() makes the kernel *)
(* map and unmap what was remembered.  The request to the allocator and    *)
(* the entry in bind_map are made under different mutexes; the ioctl is    *)
(* made under none.                                                        *)
(*                                                                         *)
(* An object is as long as the distance of two addresses.  A definition    *)
(* marked "mutant" is a deliberately wrong variant of the one below it.    *)
(***************************************************************************)
EXTENDS Integers, FiniteSets

CONSTANTS
  Threads, Objects, Addresses,
  Owner,    \* the thread that uses an object
  None,     \* no address, no object, ALLOC_INVALID_ADDRESS
  Careful   \* callers bind between free() and alloc(), and one thread at a time

ASSUME BindTrackingAssumption ==
  /\ Owner \in [Objects -> Threads]
  /\ None \notin Addresses \cup Objects
  /\ IsFiniteSet(Objects)
  /\ Careful \in BOOLEAN

VARIABLES
  given,     \* object -> address, in the allocator
  bind_map,  \* object -> what is to be done, or was, and at which address
  vm,        \* address -> object mapped there by the kernel
  pc,        \* of each thread: the next step of the call it is in
  call,      \* the object and address of that call
  ops        \* obj_list of __xe_op_bind()

vars == <<given, bind_map, vm, pc, call, ops>>

NoCall  == [object |-> None, offset |-> None]
NoEntry == [op |-> "none", offset |-> None]
Entry(op, offset) == [op |-> op, offset |-> offset]

Init ==
  /\ given = [o \in Objects |-> None] /\ bind_map = [o \in Objects |-> NoEntry]
  /\ vm = [x \in Addresses |-> None]
  /\ pc = [t \in Threads |-> "idle"] /\ call = [t \in Threads |-> NoCall]
  /\ ops = [t \in Threads |-> {}]

-----------------------------------------------------------------------------
(***************************************************************************)
(* What careful callers wait for.                                          *)
(***************************************************************************)
Binding == \E t \in Threads : pc[t] = "bind"
Freeing == (\E t \in Threads : pc[t] = "track free") \/ (\E o \in Objects : bind_map[o].op = "TO_UNBIND")

MayAlloc == Careful => ~Binding /\ ~Freeing
MayFree  == Careful => ~Binding
MayBind  == Careful => ~Binding

(***************************************************************************)
(* __intel_allocator_alloc(): the allocator answers with the address the   *)
(* object has, with a free one, or with none.                              *)
(***************************************************************************)
FreeAddresses == {x \in Addresses : \A o \in Objects : given[o] # x}

Offsets(o) ==
  IF given[o] # None THEN {given[o]} ELSE IF FreeAddresses = {} THEN {None} ELSE FreeAddresses

Alloc(t, o) ==
  /\ pc[t] = "idle" /\ Owner[o] = t /\ MayAlloc
  /\ \E x \in Offsets(o) :
       /\ given' = [given EXCEPT ![o] = x]
       /\ call' = [call EXCEPT ![t] = [object |-> o, offset |-> x]]
  /\ pc' = [pc EXCEPT ![t] = "track alloc"]
  /\ UNCHANGED <<bind_map, vm, ops>>

Free(t, o) ==
  /\ pc[t] = "idle" /\ Owner[o] = t /\ MayFree
  /\ given' = [given EXCEPT ![o] = None]
  /\ call' = [call EXCEPT ![t] = [object |-> o, offset |-> None]]
  /\ pc' = [pc EXCEPT ![t] = "track free"]
  /\ UNCHANGED <<bind_map, vm, ops>>

(***************************************************************************)
(* track_object()                                                          *)
(***************************************************************************)
Tracked(o) == bind_map[o].op # "none"
IsSame(o, x) == bind_map[o].offset = x /\ bind_map[o].op \in {"TO_BIND", "BOUND"}

Ends(t) == call' = [call EXCEPT ![t] = NoCall]

TrackAllocInvalid(t) ==  \* mutant
  LET o == call[t].object
      x == call[t].offset
  IN /\ pc[t] = "track alloc"
     /\ bind_map' = IF ~Tracked(o) THEN [bind_map EXCEPT ![o] = Entry("TO_BIND", x)] ELSE bind_map
     /\ pc' = [pc EXCEPT ![t] = "idle"] /\ Ends(t)
     /\ UNCHANGED <<given, vm, ops>>

\* igt_assert_eq(is_same(...), true) ends the thread.
TrackAlloc(t) ==
  LET o == call[t].object
      x == call[t].offset
  IN /\ pc[t] = "track alloc"
     /\ bind_map' = IF x # None /\ ~Tracked(o)
                    THEN [bind_map EXCEPT ![o] = Entry("TO_BIND", x)] ELSE bind_map
     /\ pc' = [pc EXCEPT ![t] = IF x # None /\ Tracked(o) /\ ~IsSame(o, x) THEN "failed" ELSE "idle"]
     /\ Ends(t)
     /\ UNCHANGED <<given, vm, ops>>

Untracked(e) ==
  CASE e.op = "TO_BIND" -> NoEntry
    [] e.op = "BOUND"   -> Entry("TO_UNBIND", e.offset)
    [] OTHER            -> e

TrackFreeForgets(t) ==  \* mutant
  /\ pc[t] = "track free"
  /\ bind_map' = [bind_map EXCEPT ![call[t].object] = NoEntry]
  /\ pc' = [pc EXCEPT ![t] = "idle"] /\ Ends(t)
  /\ UNCHANGED <<given, vm, ops>>

TrackFreeIgnoresUnbound(t) ==  \* mutant
  LET o == call[t].object
  IN /\ pc[t] = "track free"
     /\ bind_map' = IF bind_map[o].op = "BOUND"
                    THEN [bind_map EXCEPT ![o] = Untracked(@)] ELSE bind_map
     /\ pc' = [pc EXCEPT ![t] = "idle"] /\ Ends(t)
     /\ UNCHANGED <<given, vm, ops>>

TrackFree(t) ==
  /\ pc[t] = "track free"
  /\ bind_map' = [bind_map EXCEPT ![call[t].object] = Untracked(@)]
  /\ pc' = [pc EXCEPT ![t] = "idle"] /\ Ends(t)
  /\ UNCHANGED <<given, vm, ops>>

(***************************************************************************)
(* intel_allocator_bind(): bind_map is brought up to date first, the ioctl *)
(* is made after it, with the operations in the order of the hash table.   *)
(***************************************************************************)
Pending == {o \in Objects : bind_map[o].op \in {"TO_BIND", "TO_UNBIND"}}

Collect(t) ==
  /\ pc[t] = "idle" /\ MayBind
  /\ ops' = [ops EXCEPT ![t] = {[object |-> o, entry |-> bind_map[o]] : o \in Pending}]
  /\ bind_map' = [o \in Objects |->
       CASE bind_map[o].op = "TO_BIND"   -> Entry("BOUND", bind_map[o].offset)
         [] bind_map[o].op = "TO_UNBIND" -> NoEntry
         [] OTHER                        -> bind_map[o]]
  /\ pc' = [pc EXCEPT ![t] = "bind"]
  /\ UNCHANGED <<given, vm, call>>

\* The last operation on an address says what is there: the object or nothing.
Leaves(op) == IF op.entry.op = "TO_BIND" THEN op.object ELSE None

BindUnbind(t) ==
  /\ pc[t] = "bind"
  /\ \E last \in [{op.entry.offset : op \in ops[t]} -> ops[t]] :
       /\ \A x \in DOMAIN last : last[x].entry.offset = x
       /\ vm' = [x \in Addresses |-> IF x \in DOMAIN last THEN Leaves(last[x]) ELSE vm[x]]
  /\ ops' = [ops EXCEPT ![t] = {}]
  /\ pc' = [pc EXCEPT ![t] = "idle"]
  /\ UNCHANGED <<given, bind_map, call>>

Next ==
  \E t \in Threads :
    \/ \E o \in Objects : Alloc(t, o) \/ Free(t, o)
    \/ TrackAlloc(t) \/ TrackFree(t)
    \/ Collect(t) \/ BindUnbind(t)

Spec == Init /\ [][Next]_vars

-----------------------------------------------------------------------------
(***************************************************************************)
(* Properties.                                                             *)
(***************************************************************************)
AddressOrNone == Addresses \cup {None}
Entries == {NoEntry} \cup [op : {"TO_BIND", "BOUND", "TO_UNBIND"}, offset : Addresses]

\* All variables have the values the code can give them.
TypeOK ==
  /\ given \in [Objects -> AddressOrNone] /\ bind_map \in [Objects -> Entries]
  /\ vm \in [Addresses -> Objects \cup {None}]
  /\ pc \in [Threads -> {"idle", "track alloc", "track free", "bind", "failed"}]
  /\ call \in [Threads -> [object : Objects \cup {None}, offset : AddressOrNone]]
  /\ ops \in [Threads -> SUBSET [object : Objects, entry : Entries]]

InFlight(o) == \E t \in Threads : \E op \in ops[t] : op.object = o

\* "binds and unbinds all objects added to the allocator which weren't previously
\* binded/unbinded": what bind_map says is bound is mapped, at its address.
BoundIsMapped ==
  \A o \in Objects : bind_map[o].op = "BOUND" /\ ~InFlight(o) => vm[bind_map[o].offset] = o

\* No mapping is forgotten: whatever the kernel has mapped can be unmapped yet.
MappedIsTracked ==
  \A x \in Addresses : vm[x] # None =>
    \/ bind_map[vm[x]].offset = x /\ bind_map[vm[x]].op \in {"BOUND", "TO_UNBIND"}
    \/ InFlight(vm[x])

\* bind_map and the mappings of the kernel agree, both ways, although intel_allocator_bind()
\* updates the one before it makes the ioctl for the other, outside of the mutex.
BindMapIsTrue == BoundIsMapped /\ MappedIsTracked

\* What is tracked agrees with the allocator, except for calls under way: an
\* address two objects are bound at would have been given twice.
TrackedIsGiven ==
  \A o \in Objects : bind_map[o].op \in {"TO_BIND", "BOUND"} =>
    given[o] = bind_map[o].offset \/ \E t \in Threads : call[t].object = o /\ pc[t] = "track free"

\* "User may call alloc() couple of times, check object is the same": the check
\* does not fail callers that use the allocator as it is meant to be.
AllocNeverFails == \A t \in Threads : pc[t] # "failed"

\* bind_map and the allocator agree, although a request to the one and the entry in the
\* other are made under different mutexes, and so track_object() never fails.
TrackingAgrees == TrackedIsGiven /\ AllocNeverFails
=============================================================================
