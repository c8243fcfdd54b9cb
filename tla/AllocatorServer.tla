-------------------------- MODULE AllocatorServer --------------------------
(***************************************************************************)
(* lib/intel_allocator.c and intel_allocator_msgchannel.c between          *)
(* intel_allocator_multiprocess_start() and the end of _stop(): the        *)
(* threads of a test call handle_request() themselves, its forked children *)
(* send their requests through a message queue to a thread that does so.   *)
(* Two kinds of mutexes protect the maps and the allocators.               *)
(*                                                                         *)
(* A function of an allocator (SimpleAllocator has them as one action) is  *)
(* two steps here, Compute and Commit: what makes it atomic is the mutex.  *)
(*                                                                         *)
(* A definition marked "mutant" is a deliberately wrong variant of the one *)
(* below it and is used by no other definition.                            *)
(***************************************************************************)
EXTENDS Integers, Sequences, FiniteSets

CONSTANTS
  Threads,    \* threads of the test itself: they call handle_request() directly
  Main,       \* the one of them that forks and stops
  Children,   \* forked processes
  Detaching,  \* children that may call intel_allocator_init() to be on their own
  Careless,   \* those that may go on using a handle they have closed
  Server,     \* the allocator thread
  Nobody,     \* no owner of a mutex, of a place, no handle
  Keys,       \* <fd, ctx> or <fd, vm>
  Slots,      \* the places in an address space
  QueueLen,   \* MAXQLEN
  MaxHandles, \* bound: opens
  Ops         \* bound: client -> the requests it makes of an allocator

Clients == Threads \cup Children
Actors  == Threads \cup {Server}  \* who runs handle_request() under is_same_process()
Handles == 1..MaxHandles
Owners  == Clients \X {"allocated", "reserved"}

ASSUME AllocatorServerAssumption ==
  /\ Main \in Threads /\ Detaching \subseteq Children /\ Careless \subseteq Clients
  /\ Threads \cap Children = {} /\ Server \notin Clients
  /\ Nobody \notin Clients \cup {Server} \cup Nat \cup Owners
  /\ IsFiniteSet(Children)
  /\ QueueLen \in Nat /\ Cardinality(Children) <= QueueLen
  /\ MaxHandles \in Nat /\ Ops \in [Clients -> SUBSET {"alloc", "free", "reserve", "unreserve", "reserve if not allocated"}]

VARIABLES
  \* the maps and the allocators, all in the memory of the test
  next_handle,  \* the next handle
  handles,      \* handle -> struct allocator; an allocator is named by the handle it was made for
  instance,     \* ctx_map and vm_map: key -> struct allocator
  allocator,    \* what a struct allocator and its struct intel_allocator hold
  map_mutex,    \* who holds it
  mutex,        \* who holds ial->mutex
  \* those who work on a request
  pc,           \* where a thread, a child or the server is
  req,          \* the request an actor works on
  found,        \* al, of the request
  work,         \* what the function of the allocator is about to write and answer
  \* the clients
  handle, open, \* the handle a client got last, and whether it has not closed it
  view,         \* the places a client was told it has
  \* the message queue
  channel,      \* "ready", "stopping" (REQ_STOP was sent), "removed"
  queue,        \* messages of type ALLOCATOR_REQUEST
  responses,    \* messages with the type of a thread id
  inherited     \* map_mutex, copied into a child when it was forked

maps    == <<next_handle, handles, instance, allocator>>
working == <<req, found, work>>
clients == <<handle, open, view>>
msgs    == <<channel, queue, responses>>
vars    == <<maps, map_mutex, mutex, pc, working, clients, msgs, inherited>>

Empty == [s \in Slots |-> Nobody]

Gone  == [key |-> Nobody, refcount |-> 0, ial_refcount |-> 0, alive |-> FALSE, space |-> Empty]
NoRequest == [type |-> "none", by |-> Nobody, handle |-> Nobody, key |-> Nobody, slot |-> Nobody]
NoAnswer  == [ok |-> FALSE, got |-> Nobody]
NoWork    == [space |-> Empty, answer |-> NoAnswer]

Init ==
  /\ next_handle = 1
  /\ handles = [h \in Handles |-> Nobody] /\ instance = [k \in Keys |-> Nobody]
  /\ allocator = [i \in Handles |-> Gone]
  /\ map_mutex = Nobody /\ mutex = [i \in Handles |-> Nobody]
  /\ pc = [p \in Clients \cup {Server} |->
             IF p \in Threads THEN "idle" ELSE IF p = Server THEN "receiving" ELSE "unborn"]
  /\ req = [a \in Clients \cup {Server} |-> NoRequest]
  /\ found = [a \in Actors |-> Nobody] /\ work = [a \in Actors |-> NoWork]
  /\ handle = [c \in Clients |-> Nobody] /\ open = [c \in Clients |-> FALSE]
  /\ view = [c \in Clients |-> {}]
  /\ channel = "ready" /\ queue = <<>> /\ responses = {}
  /\ inherited = [c \in Children |-> Nobody]

-----------------------------------------------------------------------------
(***************************************************************************)
(* The functions of an allocator: what r may make of a space, and what is  *)
(* answered.  Which free place is allocated is SimpleAllocator's business. *)
(***************************************************************************)
Answer(ok, got) == [ok |-> ok, got |-> got]
Writes(space, s, o, got) == [space |-> [space EXCEPT ![s] = o], answer |-> Answer(TRUE, got)]
Refuses(space) == [space |-> space, answer |-> Answer(FALSE, Nobody)]

Allocated(space, c) == {s \in Slots : space[s] = <<c, "allocated">>}
Unused(space) == {s \in Slots : space[s] = Nobody}

Reserve(r, space) ==
  IF space[r.slot] = Nobody THEN Writes(space, r.slot, <<r.by, "reserved">>, r.slot) ELSE Refuses(space)

Outcomes(r, space) ==
  CASE r.type = "alloc" ->
         IF Allocated(space, r.by) # {}
         THEN {[space |-> space, answer |-> Answer(TRUE, s)] : s \in Allocated(space, r.by)}
         ELSE IF Unused(space) = {} THEN {Refuses(space)}
         ELSE {Writes(space, s, <<r.by, "allocated">>, s) : s \in Unused(space)}
    [] r.type = "free" ->
         IF Allocated(space, r.by) = {} THEN {Refuses(space)}
         ELSE {Writes(space, s, Nobody, s) : s \in Allocated(space, r.by)}
    [] r.type = "reserve" -> {Reserve(r, space)}
    [] r.type = "reserve if not allocated" ->
         {IF r.slot \in Allocated(space, r.by) THEN Refuses(space) ELSE Reserve(r, space)}
    [] r.type = "unreserve" ->
         {IF space[r.slot] = <<r.by, "reserved">> THEN Writes(space, r.slot, Nobody, r.slot)
          ELSE Refuses(space)}

-----------------------------------------------------------------------------
(***************************************************************************)
(* A client calls the API, and learns the answer.                          *)
(***************************************************************************)
Request(type, c, k, s) ==
  [type |-> type, by |-> c, handle |-> IF type = "open" THEN Nobody ELSE handle[c], key |-> k, slot |-> s]

\* A client has one handle at a time here.  There is a handle for each open under way.
MayOpen(c) ==
  ~open[c] /\ next_handle + Cardinality({d \in Clients : req[d].type = "open"}) <= MaxHandles
Opens(c)  == IF MayOpen(c) THEN {Request("open", c, k, Nobody) : k \in Keys} ELSE {}
Closes(c) == IF handle[c] # Nobody THEN {Request("close", c, Nobody, Nobody)} ELSE {}
Uses(c)   ==
  IF open[c] \/ (c \in Careless /\ handle[c] # Nobody)
  THEN {Request(t, c, Nobody, Nobody) : t \in Ops[c] \cap {"alloc", "free"}}
         \cup {Request(t, c, Nobody, s) : t \in Ops[c] \ {"alloc", "free"}, s \in Slots}
  ELSE {}

Call(c) ==
  /\ pc[c] = "idle"
  /\ \E r \in Opens(c) \cup Closes(c) \cup Uses(c) : req' = [req EXCEPT ![c] = r]
  /\ pc' = [pc EXCEPT ![c] = IF c \in Threads THEN "called" ELSE "sending"]
  /\ UNCHANGED <<maps, map_mutex, mutex, found, work, clients, msgs, inherited>>

\* What c knows once r has been answered with a.
Told(c, r, a) ==
  IF r.type = "close" \/ r.type = "open" THEN {}
  ELSE IF ~a.ok THEN view[c]
  ELSE CASE r.type = "alloc"  -> view[c] \cup {<<a.got, "allocated">>}
         [] r.type = "free"   -> view[c] \ {<<a.got, "allocated">>}
         [] r.type = "unreserve" -> view[c] \ {<<a.got, "reserved">>}
         [] OTHER             -> view[c] \cup {<<a.got, "reserved">>}

Learns(c, r, a) ==
  /\ handle' = IF r.type = "open" THEN [handle EXCEPT ![c] = a.got] ELSE handle
  /\ open' = IF r.type \in {"open", "close"} THEN [open EXCEPT ![c] = (r.type = "open")] ELSE open
  /\ view' = [view EXCEPT ![c] = Told(c, r, a)]

\* The end of handle_request(): a thread has the answer, the server has to send it.
Done(a, answer) ==
  IF a = Server
  THEN /\ pc' = [pc EXCEPT ![a] = "answering"]
       /\ work' = [work EXCEPT ![a] = [space |-> Empty, answer |-> answer]]
       /\ found' = [found EXCEPT ![a] = Nobody]
       /\ UNCHANGED <<req, clients>>
  ELSE /\ pc' = [pc EXCEPT ![a] = "idle"]
       /\ work' = [work EXCEPT ![a] = NoWork]
       /\ found' = [found EXCEPT ![a] = Nobody]
       /\ req' = [req EXCEPT ![a] = NoRequest]
       /\ Learns(a, req[a], answer)

\* A process or thread that is gone.
Forgets(p) ==
  /\ req' = [req EXCEPT ![p] = NoRequest]
  /\ handle' = IF p \in Clients THEN [handle EXCEPT ![p] = Nobody] ELSE handle
  /\ open' = IF p \in Clients THEN [open EXCEPT ![p] = FALSE] ELSE open
  /\ view' = IF p \in Clients THEN [view EXCEPT ![p] = {}] ELSE view

-----------------------------------------------------------------------------
(***************************************************************************)
(* handle_request(), by a thread or the server.                            *)
(***************************************************************************)
LockMaps(a) ==
  /\ pc[a] = "called" /\ map_mutex = Nobody
  /\ map_mutex' = a /\ pc' = [pc EXCEPT ![a] = "in maps"]
  /\ UNCHANGED <<maps, mutex, working, clients, msgs, inherited>>

\* One handle more, or less.
Counted(al, d) == [al EXCEPT !.refcount = @ + d, !.ial_refcount = @ + d]

\* allocator_open(): find or create the allocator of the key, get it, make a handle.
OpenAllocator(a) ==
  LET k == req[a].key
      i == IF instance[k] = Nobody THEN next_handle ELSE instance[k]
  IN /\ pc[a] = "in maps" /\ req[a].type = "open" /\ next_handle \in Handles
     /\ instance' = [instance EXCEPT ![k] = i]
     /\ allocator' = [allocator EXCEPT ![i] =
          IF instance[k] = Nobody
          THEN [key |-> k, refcount |-> 1, ial_refcount |-> 1, alive |-> TRUE, space |-> Empty]
          ELSE Counted(allocator[i], 1)]
     /\ handles' = [handles EXCEPT ![next_handle] = i]
     /\ next_handle' = next_handle + 1
     /\ map_mutex' = Nobody
     /\ Done(a, Answer(TRUE, next_handle))
     /\ UNCHANGED <<mutex, msgs, inherited>>

\* allocator_close(): put it; the last one destroys it.
CloseKeepsInstance(a) ==  \* mutant
  LET h == req[a].handle
      i == handles[h]
  IN /\ pc[a] = "in maps" /\ req[a].type = "close" /\ i # Nobody
     /\ handles' = [handles EXCEPT ![h] = Nobody]
     /\ allocator' = [allocator EXCEPT ![i] =
          IF allocator[i].ial_refcount > 1 THEN Counted(allocator[i], -1) ELSE Gone]
     /\ map_mutex' = Nobody
     /\ Done(a, Answer(allocator[i].ial_refcount = 1 /\ allocator[i].space = Empty, Nobody))
     /\ UNCHANGED <<next_handle, instance, mutex, msgs, inherited>>

CloseKeepsHandle(a) ==  \* mutant
  LET i == handles[req[a].handle]
  IN /\ pc[a] = "in maps" /\ req[a].type = "close" /\ i # Nobody
     /\ allocator' = [allocator EXCEPT ![i].refcount = @ - 1, ![i].ial_refcount = @ - 1]
     /\ instance' = IF allocator[i].refcount = 1
                     THEN [instance EXCEPT ![allocator[i].key] = Nobody] ELSE instance
     /\ map_mutex' = Nobody
     /\ Done(a, Answer(allocator[i].ial_refcount = 1 /\ allocator[i].space = Empty, Nobody))
     /\ UNCHANGED <<handles, next_handle, mutex, msgs, inherited>>

CloseDestroys(a) ==  \* mutant
  LET h == req[a].handle
      i == handles[h]
  IN /\ pc[a] = "in maps" /\ req[a].type = "close" /\ i # Nobody
     /\ handles' = [handles EXCEPT ![h] = Nobody]
     /\ allocator' = [allocator EXCEPT ![i] = Gone]
     /\ instance' = [instance EXCEPT ![allocator[i].key] = Nobody]
     /\ map_mutex' = Nobody
     /\ Done(a, Answer(allocator[i].space = Empty, Nobody))
     /\ UNCHANGED <<next_handle, mutex, msgs, inherited>>

CloseAllocator(a) ==
  LET h == req[a].handle
      i == handles[h]
  IN /\ pc[a] = "in maps" /\ req[a].type = "close" /\ i # Nobody
     /\ handles' = [handles EXCEPT ![h] = Nobody]
     /\ allocator' = [allocator EXCEPT ![i] =
          IF allocator[i].ial_refcount > 1 THEN Counted(allocator[i], -1) ELSE Gone]
     /\ instance' = IF allocator[i].refcount = 1
                     THEN [instance EXCEPT ![allocator[i].key] = Nobody] ELSE instance
     /\ map_mutex' = Nobody
     /\ Done(a, Answer(allocator[i].ial_refcount = 1 /\ allocator[i].space = Empty, Nobody))
     /\ UNCHANGED <<next_handle, mutex, msgs, inherited>>

\* A handle that was closed is not known; closing it again does nothing.
CloseUnknown(a) ==
  /\ pc[a] = "in maps" /\ req[a].type = "close" /\ handles[req[a].handle] = Nobody
  /\ map_mutex' = Nobody
  /\ Done(a, Answer(FALSE, Nobody))
  /\ UNCHANGED <<maps, mutex, msgs, inherited>>

InUse(a) == pc[a] = "in maps" /\ req[a].type \notin {"open", "close"}

Find(a) ==
  /\ InUse(a) /\ handles[req[a].handle] # Nobody
  /\ found' = [found EXCEPT ![a] = handles[req[a].handle]]
  /\ map_mutex' = Nobody /\ pc' = [pc EXCEPT ![a] = "found"]
  /\ UNCHANGED <<maps, mutex, req, work, clients, msgs, inherited>>

\* igt_assert(al): a thread ends with it, be it the server.
FindFails(a) ==
  /\ InUse(a) /\ handles[req[a].handle] = Nobody
  /\ map_mutex' = Nobody /\ pc' = [pc EXCEPT ![a] = "failed"] /\ Forgets(a)
  /\ UNCHANGED <<maps, mutex, found, work, msgs, inherited>>

LockNothing(a) ==  \* mutant
  /\ pc[a] = "found"
  /\ pc' = [pc EXCEPT ![a] = "inside"]
  /\ UNCHANGED <<maps, mutex, map_mutex, working, clients, msgs, inherited>>

LockAllocator(a) ==
  /\ pc[a] = "found" /\ mutex[found[a]] = Nobody
  /\ mutex' = [mutex EXCEPT ![found[a]] = a]
  /\ pc' = [pc EXCEPT ![a] = "inside"]
  /\ UNCHANGED <<maps, map_mutex, working, clients, msgs, inherited>>

Compute(a) ==
  /\ pc[a] = "inside"
  /\ \E w \in Outcomes(req[a], allocator[found[a]].space) : work' = [work EXCEPT ![a] = w]
  /\ pc' = [pc EXCEPT ![a] = "writing"]
  /\ UNCHANGED <<maps, map_mutex, mutex, req, found, clients, msgs, inherited>>

CommitKeepsLock(a) ==  \* mutant
  /\ pc[a] = "writing"
  /\ allocator' = [allocator EXCEPT ![found[a]].space = work[a].space]
  /\ mutex' = IF work[a].answer.ok THEN [mutex EXCEPT ![found[a]] = Nobody] ELSE mutex
  /\ Done(a, work[a].answer)
  /\ UNCHANGED <<next_handle, handles, instance, map_mutex, msgs, inherited>>

Commit(a) ==
  /\ pc[a] = "writing"
  /\ allocator' = [allocator EXCEPT ![found[a]].space = work[a].space]
  /\ mutex' = [mutex EXCEPT ![found[a]] = Nobody]
  /\ Done(a, work[a].answer)
  /\ UNCHANGED <<next_handle, handles, instance, map_mutex, msgs, inherited>>

HandleRequest(a) ==
  \/ LockMaps(a) \/ OpenAllocator(a) \/ CloseAllocator(a) \/ CloseUnknown(a)
  \/ Find(a) \/ FindFails(a) \/ LockAllocator(a) \/ Compute(a) \/ Commit(a)

-----------------------------------------------------------------------------
(***************************************************************************)
(* The message queue holds requests and responses; msgsnd() blocks while   *)
(* it is full.  A removed queue fails every call on it.                    *)
(***************************************************************************)
HasRoom == Len(queue) + Cardinality(responses) < QueueLen

SendRequest(c) ==
  /\ pc[c] = "sending" /\ channel # "removed" /\ HasRoom
  /\ queue' = Append(queue, req[c])
  /\ pc' = [pc EXCEPT ![c] = "waiting"]
  /\ UNCHANGED <<maps, map_mutex, mutex, working, clients, channel, responses, inherited>>

\* The response with the type of the thread id of c.
ReceiveResponse(c) ==
  /\ pc[c] = "waiting" /\ channel # "removed"
  /\ \E m \in responses :
       /\ m.tid = c
       /\ responses' = responses \ {m}
       /\ Learns(c, req[c], m.answer)
  /\ pc' = [pc EXCEPT ![c] = "idle"]
  /\ req' = [req EXCEPT ![c] = NoRequest]
  /\ UNCHANGED <<maps, map_mutex, mutex, found, work, channel, queue, inherited>>

\* send_req_recv_resp() returned an error: exit(0).
ChannelGone(c) ==
  /\ pc[c] \in {"sending", "waiting"} /\ channel = "removed"
  /\ pc' = [pc EXCEPT ![c] = "exited"] /\ Forgets(c)
  /\ UNCHANGED <<maps, map_mutex, mutex, found, work, msgs, inherited>>

Stop == [NoRequest EXCEPT !.type = "stop"]

ReceiveRequest ==
  /\ pc[Server] = "receiving" /\ channel # "removed" /\ queue # <<>>
  /\ queue' = Tail(queue)
  /\ IF Head(queue) = Stop
     THEN pc' = [pc EXCEPT ![Server] = "ended"] /\ UNCHANGED req
     ELSE /\ pc' = [pc EXCEPT ![Server] = "called"]
          /\ req' = [req EXCEPT ![Server] = Head(queue)]
  /\ UNCHANGED <<maps, map_mutex, mutex, found, work, clients, channel, responses, inherited>>

SendResponse ==
  /\ pc[Server] = "answering" /\ channel # "removed" /\ HasRoom
  /\ responses' = responses \cup {[tid |-> req[Server].by, answer |-> work[Server].answer]}
  /\ pc' = [pc EXCEPT ![Server] = "receiving"]
  /\ req' = [req EXCEPT ![Server] = NoRequest] /\ work' = [work EXCEPT ![Server] = NoWork]
  /\ UNCHANGED <<maps, map_mutex, mutex, found, clients, channel, queue, inherited>>

\* recv_req() or send_resp() returned an error.
ServerGivesUp ==
  /\ pc[Server] \in {"receiving", "answering"} /\ channel = "removed"
  /\ pc' = [pc EXCEPT ![Server] = "ended"]
  /\ UNCHANGED <<maps, map_mutex, mutex, working, clients, msgs, inherited>>

-----------------------------------------------------------------------------
(***************************************************************************)
(* The main thread forks and stops.                                        *)
(***************************************************************************)
Fork(c) ==
  /\ pc[Main] = "idle" /\ pc[c] = "unborn"
  /\ pc' = [pc EXCEPT ![c] = "idle"]
  /\ inherited' = [inherited EXCEPT ![c] = map_mutex]
  /\ UNCHANGED <<maps, map_mutex, mutex, working, clients, msgs>>

\* intel_allocator_init() in a child: from now on it uses its own copy of
\* everything, map_mutex as it was when the child was forked.
Detach(c) ==
  /\ c \in Detaching /\ pc[c] = "idle" /\ handle[c] = Nobody
  /\ pc' = [pc EXCEPT ![c] = "detached"]
  /\ UNCHANGED <<maps, map_mutex, mutex, working, clients, msgs, inherited>>

OpenDetached(c) ==
  /\ pc[c] = "detached" /\ inherited[c] = Nobody
  /\ pc' = [pc EXCEPT ![c] = "alone"]
  /\ UNCHANGED <<maps, map_mutex, mutex, working, clients, msgs, inherited>>

SendStop ==
  /\ pc[Main] = "idle" /\ channel = "ready" /\ HasRoom
  /\ channel' = "stopping" /\ queue' = Append(queue, Stop)
  /\ pc' = [pc EXCEPT ![Main] = "stopping"]
  /\ UNCHANGED <<maps, map_mutex, mutex, working, clients, responses, inherited>>

\* The server was given some time; with the queue all that is in it goes.
DeinitForgotten ==  \* mutant
  /\ pc[Main] = "stopping"
  /\ pc' = [pc EXCEPT ![Main] = "joining"]
  /\ UNCHANGED <<maps, map_mutex, mutex, working, clients, msgs, inherited>>

Deinit ==
  /\ pc[Main] = "stopping"
  /\ channel' = "removed" /\ queue' = <<>> /\ responses' = {}
  /\ pc' = [pc EXCEPT ![Main] = "joining"]
  /\ UNCHANGED <<maps, map_mutex, mutex, working, clients, inherited>>

Join ==
  /\ pc[Main] = "joining" /\ pc[Server] \in {"ended", "failed"}
  /\ pc' = [pc EXCEPT ![Main] = "stopped"]
  /\ UNCHANGED <<maps, map_mutex, mutex, working, clients, msgs, inherited>>

ServerStep == HandleRequest(Server) \/ ReceiveRequest \/ SendResponse \/ ServerGivesUp
ChildStep(c) == SendRequest(c) \/ ReceiveResponse(c) \/ ChannelGone(c)

Next ==
  \/ \E c \in Clients : Call(c)
  \/ \E t \in Threads : HandleRequest(t)
  \/ ServerStep
  \/ \E c \in Children : ChildStep(c) \/ Fork(c) \/ Detach(c) \/ OpenDetached(c)
  \/ SendStop \/ Deinit \/ Join

\* Threads and processes are scheduled, also when others compete for a mutex or
\* for room in the queue; nobody has to call anything.
Fairness ==
  /\ \A t \in Threads : SF_vars(HandleRequest(t))
  /\ SF_vars(ServerStep)
  /\ \A c \in Children : SF_vars(ChildStep(c))
  /\ WF_vars(Deinit \/ Join)

Spec     == Init /\ [][Next]_vars
FairSpec == Spec /\ Fairness

-----------------------------------------------------------------------------
(***************************************************************************)
(* Properties.                                                             *)
(***************************************************************************)
Stages == {"idle", "called", "in maps", "found", "inside", "writing", "failed",
           "receiving", "answering", "ended", "stopping", "joining", "stopped",
           "unborn", "sending", "waiting", "exited", "detached", "alone"}
HandleOrNone == Handles \cup {Nobody}
Spaces == [Slots -> Owners \cup {Nobody}]

\* All variables have the values the code can give them.
TypeOK ==
  /\ next_handle \in 1..(MaxHandles + 1)
  /\ handles \in [Handles -> HandleOrNone] /\ instance \in [Keys -> HandleOrNone]
  /\ allocator \in [Handles -> [key : Keys \cup {Nobody}, refcount : Nat, ial_refcount : Nat,
                                 alive : BOOLEAN, space : Spaces]]
  /\ map_mutex \in Actors \cup {Nobody} /\ mutex \in [Handles -> Actors \cup {Nobody}]
  /\ pc \in [Clients \cup {Server} -> Stages]
  /\ DOMAIN req = Clients \cup {Server} /\ found \in [Actors -> HandleOrNone]
  /\ handle \in [Clients -> HandleOrNone] /\ open \in [Clients -> BOOLEAN]
  /\ view \in [Clients -> SUBSET (Slots \X {"allocated", "reserved"})]
  /\ channel \in {"ready", "stopping", "removed"}
  /\ inherited \in [Children -> Actors \cup {Nobody}]

\* An allocator is looked up under map_mutex and used under its own mutex: a
\* close of somebody else in between must not destroy it, even if others go on
\* using handles they have closed.
FoundIsAlive ==
  \A a \in Actors : pc[a] \in {"found", "inside", "writing"} => allocator[found[a]].alive

\* What a client was told it has, it has, as long as it does not give it back:
\* through messages, interleaved functions and closes of others.
KeepsWhatItWasTold ==
  \A c \in Clients :
    open[c] /\ (pc[c] = "idle" \/ req[c].type \in {"alloc", "reserve", "reserve if not allocated"}) =>
      \A v \in view[c] : allocator[handles[handle[c]]].space[v[1]] = <<c, v[2]>>

\* The spaces, as their keys find them, change as the abstract specification
\* says; in particular a space is there exactly as long as a handle of it is.
Shared == INSTANCE SharedSpaces WITH
  Free <- Nobody,
  users <- [k \in Keys |-> Cardinality({h \in Handles : handles[h] # Nobody /\ allocator[handles[h]].key = k})],
  space <- [k \in Keys |-> IF instance[k] = Nobody THEN Empty ELSE allocator[instance[k]].space]
IsSharedSpaces == Shared!Spec

\* Every request of a child comes to an end: answered, or the queue was removed.
\* Requests and responses share a queue of limited length.  Only when somebody used
\* a handle after closing it the server ends and others wait until the stop.
EveryCallReturns ==
  \A c \in Children :
    pc[c] \in {"sending", "waiting"} ~> pc[c] \in {"idle", "exited"} \/ pc[Server] = "failed"

\* Stopping comes to an end: the server is joined and no child is left waiting.
StopUnblocks ==
  pc[Main] = "stopping" ~> pc[Main] = "stopped" /\ \A c \in Children : pc[c] \notin {"sending", "waiting"}
=============================================================================
