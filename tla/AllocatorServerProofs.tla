----------------------- MODULE AllocatorServerProofs -----------------------
(***************************************************************************)
(* Theorems about the allocator server for all sets of threads, children,  *)
(* keys and places, every length of the queue and any number of handles:   *)
(* an allocator that was looked up under one mutex is there as long as it  *)
(* is used under the other, what a client was told it has, it has, and the *)
(* server implements SharedSpaces.                                         *)
(***************************************************************************)
EXTENDS AllocatorServer, TLAPS, FiniteSetTheorems, SequenceTheorems

-----------------------------------------------------------------------------
(* The invariant.                                                          *)

OnSpace == {"alloc", "free", "reserve", "unreserve", "reserve if not allocated"}
OnPlace == {"reserve", "unreserve", "reserve if not allocated"}

Requests == [type : {"none", "stop", "open", "close"} \cup OnSpace, by : Clients \cup {Nobody},
             handle : HandleOrNone, key : Keys \cup {Nobody}, slot : Slots \cup {Nobody}]
Allocators == [key : Keys \cup {Nobody}, refcount : Nat, ial_refcount : Nat,
               alive : BOOLEAN, space : Spaces]
Answers == [ok : BOOLEAN, got : HandleOrNone \cup Slots]

\* What a client may ask, and what may be answered.
WellFormed(r) ==
  /\ r.by \in Clients /\ r.type \in {"open", "close"} \cup OnSpace
  /\ r.type = "open" => r.key \in Keys
  /\ r.type # "open" => r.handle \in Handles
  /\ r.type \in OnPlace => r.slot \in Slots
Suits(r, answer) ==
  /\ r.type = "open" => answer.got \in Handles
  /\ r.type \in OnSpace /\ answer.ok => answer.got \in Slots

TypeInv ==
  /\ TypeOK
  /\ req \in [Clients \cup {Server} -> Requests]
  /\ work \in [Actors -> [space : Spaces, answer : Answers]]
  /\ queue \in Seq(Requests) /\ responses \subseteq [tid : Children, answer : Answers]
  /\ \A c \in Clients : open[c] => handle[c] \in Handles

\* Who waits for an answer has one request under way, and it is in one place: on its
\* way to the server, worked on, or on its way back.
Busy       == {"called", "in maps", "found", "inside", "writing"}
Engaged    == pc[Server] \in Busy \cup {"answering"}
Waiting(c) == c \in Children /\ pc[c] = "waiting"

Asks(c) ==
  /\ WellFormed(req[c]) /\ req[c].by = c
  /\ req[c].type # "open" => req[c].handle = handle[c]
Asked == \A c \in Clients : pc[c] \in Busy \cup {"sending", "waiting"} => Asks(c)

InQueue(c) == \E i \in DOMAIN queue : queue[i].by = c
Queued ==
  /\ \A i \in DOMAIN queue : queue[i] # Stop => Waiting(queue[i].by) /\ queue[i] = req[queue[i].by]
  /\ \A i, j \in DOMAIN queue : queue[i] # Stop /\ queue[i].by = queue[j].by => i = j

Worked ==
  LET r == req[Server]
  IN Engaged =>
       /\ WellFormed(r) /\ r.by \in Children /\ ~InQueue(r.by)
       /\ \/ Waiting(r.by) /\ req[r.by] = r
          \/ channel = "removed" /\ pc[r.by] = "exited"
       /\ pc[Server] = "answering" => Suits(r, work[Server].answer)

Answered ==
  /\ \A m \in responses :
       /\ Waiting(m.tid) /\ ~InQueue(m.tid) /\ Suits(req[m.tid], m.answer)
       /\ Engaged => req[Server].by # m.tid
  /\ \A m, n \in responses : m.tid = n.tid => m = n

Removed == channel = "removed" => queue = <<>> /\ responses = {}

LinkInv == Asked /\ Queued /\ Worked /\ Answered /\ Removed

\* A handle belongs to one client, from the moment it is made.
Claims(c, h) ==
  \/ handle[c] = h
  \/ Engaged /\ req[Server].by = c /\ req[Server].type # "open" /\ req[Server].handle = h
  \/ pc[Server] = "answering" /\ req[Server].by = c /\ req[Server].type = "open"
       /\ work[Server].answer.got = h
  \/ \E m \in responses : m.tid = c /\ req[c].type = "open" /\ m.answer.got = h

OwnInv == \A h \in Handles, c \in Clients : Claims(c, h) =>
            h < next_handle /\ \A d \in Clients : Claims(d, h) => c = d

\* The counters count the handles, and an allocator is there, and found by its key, as
\* long as there is one.
Users(i) == {h \in Handles : handles[h] = i}
MapsInv ==
  /\ \A h \in Handles : handles[h] # Nobody => h < next_handle /\ handles[h] < next_handle
  /\ \A i \in Handles :
       /\ allocator[i].refcount = Cardinality(Users(i))
       /\ allocator[i].ial_refcount = Cardinality(Users(i))
       /\ Users(i) # {} => allocator[i].alive /\ allocator[i].key \in Keys /\ instance[allocator[i].key] = i
  /\ \A k \in Keys : instance[k] # Nobody => Users(instance[k]) # {} /\ allocator[instance[k]].key = k

\* An allocator in use is the one of the handle in the request, which is open.
FoundInv ==
  \A a \in Actors : pc[a] \in {"found", "inside", "writing"} =>
    /\ req[a].type \in OnSpace
    /\ found[a] \in Handles /\ handles[req[a].handle] = found[a]
    /\ pc[a] = "writing" => Suits(req[a], work[a].answer)

ServerInv == TypeInv /\ LinkInv /\ OwnInv /\ MapsInv /\ FoundInv

-----------------------------------------------------------------------------
(* What the provers need of constants and counters.                        *)

LEMMA Constants ==
  /\ Main \in Threads /\ Threads \cap Children = {} /\ Server \notin Clients
  /\ Nobody \notin Clients /\ Nobody # Server /\ Nobody \notin Handles
  /\ MaxHandles \in Nat /\ Handles \subseteq Nat /\ IsFiniteSet(Handles)
  /\ Threads \subseteq Clients /\ Children \subseteq Clients
  /\ \A c \in Clients : Ops[c] \subseteq OnSpace
<1>1. MaxHandles \in Nat /\ Main \in Threads /\ Threads \cap Children = {} /\ Server \notin Clients
  BY AllocatorServerAssumption DEF AllocatorServerAssumption
<1>2. Nobody \notin Clients /\ Nobody # Server /\ Nobody \notin Nat
  BY AllocatorServerAssumption DEF AllocatorServerAssumption
<1>3. \A c \in Clients : Ops[c] \subseteq OnSpace
  BY AllocatorServerAssumption DEF AllocatorServerAssumption, OnSpace
<1>4. IsFiniteSet(Handles)
  BY <1>1, FS_Interval DEF Handles
<1> QED
  BY <1>1, <1>2, <1>3, <1>4 DEF Handles, Clients

\* An open handle counts, and without it one less is left.
LEMMA UsersOfOpen ==
  ASSUME TypeInv, NEW h \in Handles, handles[h] # Nobody
  PROVE  /\ handles[h] \in Handles /\ h \in Users(handles[h])
         /\ Cardinality(Users(handles[h])) \in Nat
         /\ Cardinality(Users(handles[h])) > 0
         /\ Cardinality(Users(handles[h]) \ {h}) = Cardinality(Users(handles[h])) - 1
         /\ Cardinality(Users(handles[h])) = 1 <=> Users(handles[h]) \ {h} = {}
<1> DEFINE U == Users(handles[h])
<1>1. handles[h] \in Handles /\ h \in U /\ U \subseteq Handles
  BY DEF TypeInv, TypeOK, HandleOrNone, Users
<1>2. IsFiniteSet(U)
  BY <1>1, Constants, FS_Subset
<1>3. Cardinality(U) \in Nat /\ Cardinality(U \ {h}) = Cardinality(U) - 1 /\ IsFiniteSet(U \ {h})
  BY <1>1, <1>2, FS_CardinalityType, FS_RemoveElement
<1>4. Cardinality(U \ {h}) \in Nat /\ (Cardinality(U \ {h}) = 0 <=> U \ {h} = {})
  BY <1>3, FS_CardinalityType, FS_EmptySet
<1> QED
  BY <1>1, <1>3, <1>4

\* What an allocator may answer to a request of its own kind.
LEMMA OutcomesFit ==
  ASSUME NEW r \in Requests, WellFormed(r), r.type \in OnSpace, NEW space \in Spaces,
         NEW w \in Outcomes(r, space)
  PROVE  w \in [space : Spaces, answer : Answers] /\ Suits(r, w.answer)
<1>1. /\ <<r.by, "reserved">> \in Owners \cup {Nobody} /\ <<r.by, "allocated">> \in Owners \cup {Nobody}
      /\ Nobody \in Owners \cup {Nobody}
  BY DEF WellFormed, Owners
<1>2. \A s \in Slots, o \in Owners \cup {Nobody} : [space EXCEPT ![s] = o] \in Spaces
  BY DEF Spaces
<1>3. \A s \in Slots, o \in Owners \cup {Nobody} :
        /\ Writes(space, s, o, s) \in [space : Spaces, answer : Answers]
        /\ Writes(space, s, o, s).answer.got \in Slots
  BY <1>2 DEF Writes, Answer, Answers
<1>4. Refuses(space) \in [space : Spaces, answer : Answers] /\ Refuses(space).answer.ok = FALSE
  BY DEF Refuses, Answer, Answers, HandleOrNone
<1>5. \A s \in Slots : [space |-> space, answer |-> Answer(TRUE, s)] \in [space : Spaces, answer : Answers]
  BY DEF Answer, Answers
<1>6. ASSUME r.type \in OnPlace
      PROVE  /\ Reserve(r, space) \in [space : Spaces, answer : Answers]
             /\ Reserve(r, space).answer.ok => Reserve(r, space).answer.got \in Slots
  BY <1>1, <1>3, <1>4, <1>6 DEF Reserve, WellFormed
<1>7. w \in [space : Spaces, answer : Answers] /\ (w.answer.ok => w.answer.got \in Slots)
  <2>1. CASE r.type = "alloc"
    <3>1. \/ \E s \in Slots : w = [space |-> space, answer |-> Answer(TRUE, s)]
          \/ w = Refuses(space)
          \/ \E s \in Slots : w = Writes(space, s, <<r.by, "allocated">>, s)
      BY <2>1 DEF Outcomes, Allocated, Unused
    <3> QED
      BY <3>1, <1>1, <1>3, <1>4, <1>5 DEF Answer
  <2>2. CASE r.type = "free"
    <3>1. \/ w = Refuses(space)
          \/ \E s \in Slots : w = Writes(space, s, Nobody, s)
      BY <2>2 DEF Outcomes, Allocated
    <3> QED
      BY <3>1, <1>1, <1>3, <1>4
  <2>3. CASE r.type \in {"reserve", "reserve if not allocated"}
    <3>1. w = Refuses(space) \/ w = Reserve(r, space)
      BY <2>3 DEF Outcomes
    <3> QED
      BY <3>1, <2>3, <1>4, <1>6 DEF OnPlace
  <2>4. CASE r.type = "unreserve"
    <3>1. w = Refuses(space) \/ w = Writes(space, r.slot, Nobody, r.slot)
      BY <2>4 DEF Outcomes
    <3> QED
      BY <3>1, <2>4, <1>1, <1>3, <1>4 DEF WellFormed, OnPlace
  <2> QED
    BY <2>1, <2>2, <2>3, <2>4 DEF OnSpace
<1> QED
  BY <1>7 DEF Suits, OnSpace

-----------------------------------------------------------------------------
(* Requests and answers.                                                   *)

\* Who works on a request does so for a client, and a thread for itself.
LEMMA ActorRequest ==
  ASSUME LinkInv, NEW a \in Actors, pc[a] \in Busy
  PROVE  /\ WellFormed(req[a])
         /\ a \in Threads => req[a].by = a
         /\ a = Server => req[a].by \in Children
         /\ req[a].type # "open" => Claims(req[a].by, req[a].handle)
<1>1. CASE a \in Threads
  BY <1>1, Constants DEF LinkInv, Asked, Asks, Claims
<1>2. CASE a = Server
  <2>1. Engaged /\ a \notin Threads
    BY <1>2, Constants DEF Engaged
  <2>2. WellFormed(req[a]) /\ req[a].by \in Children
    BY <1>2, <2>1 DEF LinkInv, Worked
  <2> QED
    BY <1>2, <2>1, <2>2 DEF Claims
<1>3. a \in Threads \/ a = Server
  BY DEF Actors
<1>4. a = Server => a \notin Threads
  BY Constants
<1> QED
  BY <1>1, <1>2, <1>3, <1>4

\* Two of them never work on requests with the same handle.
LEMMA HandlesDiffer ==
  ASSUME LinkInv, OwnInv, NEW a \in Actors, NEW b \in Actors, a # b,
         pc[a] \in Busy, pc[b] \in Busy, req[a].type # "open", req[b].type # "open"
  PROVE  req[a].handle # req[b].handle
<1>1. /\ WellFormed(req[a]) /\ WellFormed(req[b])
      /\ Claims(req[a].by, req[a].handle) /\ Claims(req[b].by, req[b].handle)
  BY ActorRequest
<1>2. req[a].by # req[b].by
  BY ActorRequest, Constants DEF Actors
<1> QED
  BY <1>1, <1>2 DEF WellFormed, OwnInv

\* A step within handle_request() changes nothing about who asked what.
LEMMA InnerLink ==
  ASSUME TypeInv, LinkInv, NEW a \in Actors, pc[a] \in Busy, NEW s \in Busy, pc' = [pc EXCEPT ![a] = s],
         UNCHANGED <<req, handle, channel, queue, responses>>,
         \A b \in Actors : pc[b] = "answering" => work'[b] = work[b]
  PROVE  LinkInv'
<1>0. \A p \in Clients \cup {Server} : pc'[p] = IF p = a THEN s ELSE pc[p]
  BY DEF TypeInv, TypeOK
<1>1. \A c \in Children : ((Waiting(c)' <=> Waiting(c)) /\ pc'[c] = pc[c]) \/ c = a
  BY <1>0, Constants DEF Waiting
<1>2. a \notin Children
  BY Constants DEF Actors
<1>3. \A c : Waiting(c)' <=> Waiting(c)
  BY <1>0, <1>1, <1>2, Constants DEF Waiting
<1>4. (Engaged' <=> Engaged) /\ (pc'[Server] = "answering" => pc[Server] = "answering")
  <2>1. CASE a = Server
    BY <1>0, <2>1 DEF Engaged, Busy
  <2>2. CASE a # Server
    <3>1. pc'[Server] = pc[Server]
      BY <1>0, <2>2
    <3> QED
      BY <3>1 DEF Engaged
  <2> QED
    BY <2>1, <2>2
<1>5. Asked'
  BY <1>0, Constants DEF LinkInv, Asked, Asks, WellFormed, Actors
<1>6. Queued'
  BY <1>3 DEF LinkInv, Queued
<1>7. Worked'
  BY <1>0, <1>2, <1>3, <1>4, Constants DEF LinkInv, Worked, InQueue, Actors, WellFormed, Suits
<1>8. Answered'
  BY <1>3, <1>4 DEF LinkInv, Answered, InQueue, Suits
<1> QED
  BY <1>5, <1>6, <1>7, <1>8 DEF LinkInv, Removed

\* The end of handle_request().
LEMMA DoneLink ==
  ASSUME TypeInv, LinkInv, NEW a \in Actors, pc[a] \in Busy, NEW answer, Suits(req[a], answer),
         Done(a, answer), UNCHANGED msgs
  PROVE  LinkInv'
<1>1. CASE a = Server
  <2>1. /\ pc' = [pc EXCEPT ![Server] = "answering"] /\ work'[Server].answer = answer
        /\ UNCHANGED <<req, handle, channel, queue, responses>>
    BY <1>1 DEF Done, TypeInv, clients, msgs, Actors
  <2>2. \A c \in Clients : pc'[c] = pc[c]
    BY <2>1, Constants DEF TypeInv, TypeOK
  <2>3. pc'[Server] = "answering" /\ Engaged /\ Engaged'
    BY <1>1, <2>1 DEF TypeInv, TypeOK, Engaged
  <2>4. \A c : Waiting(c)' <=> Waiting(c)
    BY <2>2, Constants DEF Waiting
  <2>5. Asked'
    BY <2>1, <2>2 DEF LinkInv, Asked, Asks, WellFormed
  <2>6. Queued'
    BY <2>1, <2>4 DEF LinkInv, Queued
  <2>7. Worked'
    BY <1>1, <2>1, <2>2, <2>3, <2>4, Constants DEF LinkInv, Worked, InQueue, WellFormed, Suits
  <2>8. Answered'
    BY <2>1, <2>3, <2>4 DEF LinkInv, Answered, InQueue, Suits
  <2>9. Removed'
    BY <2>1 DEF LinkInv, Removed
  <2> QED
    BY <2>5, <2>6, <2>7, <2>8, <2>9 DEF LinkInv
<1>2. CASE a # Server
  <2>0. a \in Threads /\ a \in Clients /\ a \notin Children
    BY <1>2, Constants DEF Actors
  <2>1. /\ pc' = [pc EXCEPT ![a] = "idle"] /\ work'[Server] = work[Server]
        /\ req' = [req EXCEPT ![a] = NoRequest] /\ Learns(a, req[a], answer)
    BY <1>2 DEF Done, TypeInv, Actors
  <2>2. /\ pc'[a] = "idle"
        /\ \A p \in Clients \cup {Server} : p # a => pc'[p] = pc[p] /\ req'[p] = req[p]
    BY <2>0, <2>1 DEF TypeInv, TypeOK
  <2>3. \A c \in Clients : c # a => handle'[c] = handle[c]
    BY <2>1 DEF Learns, TypeInv, TypeOK
  <2>4. pc'[Server] = pc[Server] /\ req'[Server] = req[Server]
    BY <1>2, <2>2
  <2>5. Engaged' <=> Engaged
    BY <2>4 DEF Engaged
  <2>6. \A c : Waiting(c)' <=> Waiting(c)
    BY <2>0, <2>2, Constants DEF Waiting
  <2>7. \A c \in Children : pc'[c] = pc[c] /\ req'[c] = req[c] /\ c # a
    BY <2>0, <2>2, Constants
  <2>8. Asked'
    BY <2>2, <2>3 DEF LinkInv, Asked, Asks, WellFormed, Busy
  <2>9. Queued'
    BY <2>6, <2>7 DEF LinkInv, Queued, msgs, Waiting
  <2>10. Worked'
    BY <2>1, <2>4, <2>5, <2>6, <2>7 DEF LinkInv, Worked, InQueue, WellFormed, Suits, msgs
  <2>11. Answered'
    BY <2>4, <2>5, <2>6, <2>7 DEF LinkInv, Answered, InQueue, Suits, msgs, Waiting
  <2>12. Removed'
    BY DEF LinkInv, Removed, msgs
  <2> QED
    BY <2>8, <2>9, <2>10, <2>11, <2>12 DEF LinkInv
<1> QED
  BY <1>1, <1>2

\* It gives a handle to nobody but the client that asked to open.
LEMMA DoneClaims ==
  ASSUME TypeInv, LinkInv, NEW a \in Actors, pc[a] \in Busy, NEW answer,
         Done(a, answer), UNCHANGED msgs, NEW c \in Clients, NEW h \in Handles, Claims(c, h)'
  PROVE  Claims(c, h) \/ (req[a].type = "open" /\ c = req[a].by /\ h = answer.got)
<1>1. CASE a = Server
  <2>1. /\ pc'[Server] = "answering" /\ work'[Server].answer = answer
        /\ UNCHANGED <<req, handle, channel, queue, responses>>
    BY <1>1 DEF Done, TypeInv, TypeOK, clients, msgs, Actors
  <2>2. Engaged
    BY <1>1 DEF Engaged
  <2> QED
    BY <1>1, <2>1, <2>2 DEF Claims
<1>2. CASE a # Server
  <2>0. a \in Threads /\ a \in Clients /\ a \notin Children /\ req[a].by = a
    BY <1>2, Constants, ActorRequest DEF Actors
  <2>1. /\ pc' = [pc EXCEPT ![a] = "idle"] /\ work'[Server] = work[Server]
        /\ req' = [req EXCEPT ![a] = NoRequest] /\ Learns(a, req[a], answer)
    BY <1>2 DEF Done, TypeInv, Actors
  <2>2. pc'[Server] = pc[Server] /\ req'[Server] = req[Server]
    BY <1>2, <2>1 DEF TypeInv, TypeOK
  <2>3. Engaged' <=> Engaged
    BY <2>2 DEF Engaged
  <2>4. handle'[c] = h => handle[c] = h \/ (req[a].type = "open" /\ c = a /\ h = answer.got)
    BY <2>1 DEF Learns, TypeInv, TypeOK
  <2>5. req'[c].type = "open" => req[c].type = "open"
    BY <2>1 DEF TypeInv, NoRequest
  <2> QED
    BY <2>0, <2>1, <2>2, <2>3, <2>4, <2>5 DEF Claims, msgs
<1> QED
  BY <1>1, <1>2

\* Who has no new handle leaves those of the others alone.
LEMMA OwnKept ==
  ASSUME OwnInv, \A c \in Clients, h \in Handles : Claims(c, h)' => Claims(c, h), next_handle' = next_handle
  PROVE  OwnInv'
BY DEF OwnInv

LEMMA InnerOwn ==
  ASSUME TypeInv, OwnInv, NEW a \in Actors, pc[a] \in Busy, NEW s \in Busy, pc' = [pc EXCEPT ![a] = s],
         UNCHANGED <<req, handle, responses, next_handle>>,
         \A b \in Actors : pc[b] = "answering" => work'[b] = work[b]
  PROVE  OwnInv'
<1>1. pc'[Server] = IF a = Server THEN s ELSE pc[Server]
  BY DEF TypeInv, TypeOK
<1>2. Engaged' => Engaged
  BY <1>1 DEF Engaged, Busy
<1>3. pc'[Server] = "answering" => pc[Server] = "answering"
  BY <1>1 DEF Busy
<1>4. \A c \in Clients, h \in Handles : Claims(c, h)' => Claims(c, h)
  BY <1>2, <1>3 DEF Claims, Actors
<1> QED
  BY <1>4, OwnKept

\* Whoever neither asks nor is answered may go elsewhere.
Aside == {"unborn", "idle", "detached", "alone", "stopping", "joining", "stopped"}

LEMMA AsideLink ==
  ASSUME TypeInv, LinkInv, OwnInv, NEW p \in Clients, pc[p] \in Aside, NEW s \in Aside,
         pc' = [pc EXCEPT ![p] = s], UNCHANGED <<req, work, handle, channel, queue, responses, next_handle>>
  PROVE  LinkInv' /\ OwnInv'
<1>1. \A c \in Clients \cup {Server} : pc'[c] = IF c = p THEN s ELSE pc[c]
  BY DEF TypeInv, TypeOK
<1>2. pc'[Server] = pc[Server]
  BY <1>1, Constants
<1>3. Engaged' <=> Engaged
  BY <1>2 DEF Engaged
<1>4. \A c : Waiting(c)' <=> Waiting(c)
  BY <1>1, Constants DEF Waiting, Aside
<1>5. Asked'
  <2>1. ASSUME NEW d \in Clients, d # p, pc'[d] \in Busy \cup {"sending", "waiting"} PROVE Asks(d)'
    BY <2>1, <1>1 DEF LinkInv, Asked, Asks, WellFormed
  <2>2. pc'[p] \notin Busy \cup {"sending", "waiting"}
    BY <1>1 DEF Aside, Busy
  <2> QED
    BY <2>1, <2>2 DEF Asked, Busy
<1>6. Queued'
  BY <1>4 DEF LinkInv, Queued
<1>7. Worked'
  BY <1>1, <1>2, <1>3, <1>4, Constants DEF LinkInv, Worked, InQueue, WellFormed, Suits, Aside
<1>8. Answered'
  BY <1>3, <1>4 DEF LinkInv, Answered, InQueue, Suits
<1>9. LinkInv'
  BY <1>5, <1>6, <1>7, <1>8 DEF LinkInv, Removed
<1>10. \A c \in Clients, h \in Handles : Claims(c, h)' => Claims(c, h)
  BY <1>2, <1>3 DEF Claims
<1> QED
  BY <1>9, <1>10, OwnKept

\* What a client may ask.
LEMMA CallRequest ==
  ASSUME TypeInv, NEW c \in Clients, NEW r \in Opens(c) \cup Closes(c) \cup Uses(c)
  PROVE  r \in Requests /\ r.by = c /\ WellFormed(r) /\ (r.type # "open" => r.handle = handle[c])
<1> USE Constants
<1>1. handle[c] \in HandleOrNone /\ Ops[c] \subseteq OnSpace
  BY DEF TypeInv, TypeOK
<1>2. CASE r \in Opens(c)
  <2>1. PICK k \in Keys : r = Request("open", c, k, Nobody)
    BY <1>2 DEF Opens
  <2>2. r.type = "open" /\ r.by = c /\ r.key = k /\ r \in Requests
    BY <2>1 DEF Request, Requests, HandleOrNone
  <2> QED
    BY <2>2 DEF WellFormed, OnPlace
<1>3. CASE r \in Closes(c)
  <2>1. r = Request("close", c, Nobody, Nobody) /\ handle[c] \in Handles
    BY <1>1, <1>3 DEF Closes, HandleOrNone
  <2>2. r.type = "close" /\ r.by = c /\ r.handle = handle[c] /\ r \in Requests
    BY <2>1 DEF Request, Requests, HandleOrNone
  <2> QED
    BY <2>1, <2>2 DEF WellFormed, OnPlace
<1>4. CASE r \in Uses(c)
  <2>1. handle[c] \in Handles
    BY <1>1, <1>4 DEF Uses, TypeInv, HandleOrNone
  <2>2. PICK t \in Ops[c], s \in Slots \cup {Nobody} :
          r = Request(t, c, Nobody, s) /\ (t \notin {"alloc", "free"} => s \in Slots)
    BY <1>4 DEF Uses
  <2>3. r.type = t /\ t \in OnSpace /\ r.by = c /\ r.handle = handle[c] /\ r.slot = s
    BY <1>1, <2>2 DEF Request, OnSpace
  <2>4. r \in Requests
    BY <1>1, <2>2, <2>3 DEF Request, Requests
  <2> QED
    BY <2>1, <2>2, <2>3, <2>4 DEF WellFormed, OnPlace, OnSpace
<1> QED
  BY <1>2, <1>3, <1>4

\* A client asks.
LEMMA CallLink ==
  ASSUME TypeInv, LinkInv, OwnInv, NEW c \in Clients, Call(c)
  PROVE  LinkInv' /\ OwnInv'
<1> USE Constants
<1>1. PICK r \in Opens(c) \cup Closes(c) \cup Uses(c) : req' = [req EXCEPT ![c] = r]
  BY DEF Call
<1>2. /\ r.by = c /\ WellFormed(r) /\ (r.type # "open" => r.handle = handle[c])
  BY CallRequest
<1>3. /\ \A d \in Clients \cup {Server} : d # c => pc'[d] = pc[d] /\ req'[d] = req[d]
      /\ req'[c] = r /\ pc[c] = "idle" /\ pc'[c] \in {"called", "sending"}
      /\ UNCHANGED <<work, handle, channel, queue, responses, next_handle>>
  BY <1>1 DEF Call, TypeInv, TypeOK, working, maps, clients, msgs
<1>4. pc'[Server] = pc[Server] /\ req'[Server] = req[Server]
  BY <1>3
<1>5. Engaged' <=> Engaged
  BY <1>4 DEF Engaged
<1>6. \A d : (Waiting(d)' <=> Waiting(d)) /\ (Waiting(d) => d # c /\ d \in Clients /\ req'[d] = req[d])
  BY <1>3 DEF Waiting
<1>7. Asked'
  <2>1. Asks(c)'
    BY <1>2, <1>3 DEF Asks, WellFormed
  <2>2. ASSUME NEW d \in Clients, d # c, pc'[d] \in Busy \cup {"sending", "waiting"} PROVE Asks(d)'
    BY <2>2, <1>3 DEF LinkInv, Asked, Asks, WellFormed
  <2> QED
    BY <2>1, <2>2 DEF Asked, Busy
<1>8. Queued'
  BY <1>3, <1>6 DEF LinkInv, Queued
<1>9. Worked'
  <2>1. req[Server].by \in Children /\ pc[req[Server].by] = "exited" => pc'[req[Server].by] = "exited"
    BY <1>3
  <2> QED
    BY <2>1, <1>3, <1>4, <1>5, <1>6 DEF LinkInv, Worked, InQueue, WellFormed, Suits
<1>10. Answered'
  BY <1>3, <1>4, <1>5, <1>6 DEF LinkInv, Answered, InQueue, Suits
<1>11. LinkInv'
  BY <1>3, <1>7, <1>8, <1>9, <1>10 DEF LinkInv, Removed
<1>12. \A d \in Clients, h \in Handles : Claims(d, h)' => Claims(d, h)
  <2>1. \A m \in responses : m.tid # c /\ (m.tid \in Clients => req'[m.tid] = req[m.tid])
    BY <1>6 DEF LinkInv, Answered
  <2> QED
    BY <2>1, <1>3, <1>4, <1>5 DEF Claims
<1> QED
  BY <1>3, <1>11, <1>12, OwnKept

\* FindFails ends who worked on a request: a thread forgets its own, the server leaves its
\* client waiting.
LEMMA FindFailsLink ==
  ASSUME TypeInv, LinkInv, OwnInv, NEW a \in Actors, FindFails(a)
  PROVE  LinkInv' /\ OwnInv'
<1> USE Constants
<1>1. /\ pc[a] = "in maps" /\ pc' = [pc EXCEPT ![a] = "failed"] /\ req' = [req EXCEPT ![a] = NoRequest]
      /\ UNCHANGED <<work, channel, queue, responses, next_handle>>
      /\ \A d \in Clients : handle'[d] = handle[d] \/ (d = a /\ handle'[d] = Nobody)
  <2>1. /\ pc[a] = "in maps" /\ pc' = [pc EXCEPT ![a] = "failed"] /\ req' = [req EXCEPT ![a] = NoRequest]
        /\ UNCHANGED <<work, channel, queue, responses, next_handle>>
    BY DEF FindFails, InUse, Forgets, msgs, maps
  <2>2. handle' = IF a \in Clients THEN [handle EXCEPT ![a] = Nobody] ELSE handle
    BY DEF FindFails, Forgets
  <2>3. handle \in [Clients -> HandleOrNone]
    BY DEF TypeInv, TypeOK
  <2> QED
    BY <2>1, <2>2, <2>3
<1>2. a \in Clients \cup {Server} /\ a \notin Children
  BY DEF Actors
<1>3. /\ \A d \in Clients \cup {Server} : d # a => pc'[d] = pc[d] /\ req'[d] = req[d]
      /\ pc'[a] = "failed" /\ req'[a] = NoRequest
  BY <1>1, <1>2 DEF TypeInv, TypeOK
<1>4. \A d \in Children : d # a /\ pc'[d] = pc[d] /\ req'[d] = req[d] /\ handle'[d] = handle[d]
  BY <1>1, <1>2, <1>3
<1>5. \A d : Waiting(d)' <=> Waiting(d)
  BY <1>4 DEF Waiting
<1>6. Engaged' => Engaged /\ a # Server /\ pc'[Server] = pc[Server] /\ req'[Server] = req[Server]
  BY <1>3 DEF Engaged, Busy
<1>7. Asked'
  <2>1. ASSUME NEW d \in Clients, d # a, pc'[d] \in Busy \cup {"sending", "waiting"} PROVE Asks(d)'
    BY <2>1, <1>1, <1>3 DEF LinkInv, Asked, Asks, WellFormed
  <2> QED
    BY <2>1, <1>3 DEF Asked, Busy
<1>8. Queued'
  BY <1>1, <1>4, <1>5 DEF LinkInv, Queued, Waiting
<1>9. Worked'
  <2>1. CASE Engaged'
    <3>1. /\ Engaged /\ req'[Server] = req[Server] /\ pc'[Server] = pc[Server]
          /\ UNCHANGED <<queue, channel, work>>
      BY <2>1, <1>1, <1>6
    <3>2. req[Server].by \in Children
      BY <3>1 DEF LinkInv, Worked
    <3>3. pc'[req[Server].by] = pc[req[Server].by] /\ req'[req[Server].by] = req[req[Server].by]
      BY <3>2, <1>4
    <3> QED
      BY <3>1, <3>2, <3>3, <1>5 DEF LinkInv, Worked, InQueue, WellFormed, Suits
  <2> QED
    BY <2>1 DEF Worked
<1>10. Answered'
  <2>1. \A m \in responses : m.tid \in Children
    BY DEF LinkInv, Answered, Waiting
  <2>2. \A m \in responses : req'[m.tid] = req[m.tid]
    BY <2>1, <1>4
  <2>3. \A m \in responses : InQueue(m.tid)' <=> InQueue(m.tid)
    BY <1>1 DEF InQueue
  <2>4. Engaged' => Engaged /\ req'[Server] = req[Server]
    BY <1>6
  <2> QED
    BY <2>2, <2>3, <2>4, <1>1, <1>5 DEF LinkInv, Answered, Suits
<1>11. LinkInv'
  BY <1>1, <1>7, <1>8, <1>9, <1>10 DEF LinkInv, Removed
<1>12. \A d \in Clients, h \in Handles : Claims(d, h)' => Claims(d, h)
  <2>1. pc'[Server] = "answering" => Engaged'
    BY DEF Engaged
  <2>2. \A m \in responses : m.tid \in Children
    BY DEF LinkInv, Answered, Waiting
  <2>3. \A d \in Clients, h \in Handles : handle'[d] = h => handle[d] = h
    BY <1>1
  <2>4. ASSUME NEW d \in Clients, NEW h \in Handles, Claims(d, h)' PROVE Claims(d, h)
    <3>1. CASE handle'[d] = h
      BY <3>1, <2>3 DEF Claims
    <3>2. CASE Engaged' /\ req'[Server].by = d /\ req'[Server].type # "open" /\ req'[Server].handle = h
      BY <3>2, <1>6 DEF Claims
    <3>3. CASE /\ pc'[Server] = "answering" /\ req'[Server].by = d /\ req'[Server].type = "open"
               /\ work'[Server].answer.got = h
      BY <3>3, <2>1, <1>1, <1>6 DEF Claims
    <3>4. CASE \E m \in responses' : m.tid = d /\ req'[d].type = "open" /\ m.answer.got = h
      BY <3>4, <2>2, <1>1, <1>4 DEF Claims
    <3> QED
      BY <2>4, <3>1, <3>2, <3>3, <3>4 DEF Claims
  <2> QED
    BY <2>4
<1> QED
  BY <1>1, <1>11, <1>12, OwnKept
-----------------------------------------------------------------------------
(* Messages.                                                               *)

\* The queue as a sequence.
LEMMA SentQueue ==
  ASSUME TypeInv, NEW r \in Requests
  PROVE  /\ Append(queue, r) \in Seq(Requests)
         /\ DOMAIN queue = 1..Len(queue) /\ DOMAIN Append(queue, r) = 1..Len(queue) + 1
         /\ \A i \in DOMAIN queue : Append(queue, r)[i] = queue[i]
         /\ Append(queue, r)[Len(queue) + 1] = r /\ Len(queue) \in Nat
  BY AppendProperties, LenProperties DEF TypeInv

LEMMA ReceivedQueue ==
  ASSUME TypeInv, queue # <<>>
  PROVE  /\ Head(queue) \in Requests /\ Tail(queue) \in Seq(Requests)
         /\ 1 \in DOMAIN queue /\ Head(queue) = queue[1]
         /\ DOMAIN Tail(queue) = 1..Len(queue) - 1 /\ DOMAIN queue = 1..Len(queue)
         /\ \A i \in DOMAIN Tail(queue) : Tail(queue)[i] = queue[i + 1] /\ i + 1 \in DOMAIN queue
         /\ Len(queue) \in Nat
  BY HeadTailProperties, LenProperties, EmptySeq DEF TypeInv

\* A client sends the request it has.
LEMMA SendRequestLink ==
  ASSUME TypeInv, LinkInv, OwnInv, NEW c \in Children, SendRequest(c)
  PROVE  LinkInv' /\ OwnInv'
<1> USE Constants
<1>1. /\ pc[c] = "sending" /\ pc' = [pc EXCEPT ![c] = "waiting"] /\ queue' = Append(queue, req[c])
      /\ channel # "removed" /\ UNCHANGED <<req, work, handle, channel, responses, next_handle>>
  BY DEF SendRequest, working, clients, maps
<1>2. /\ \A d \in Clients \cup {Server} : d # c => pc'[d] = pc[d]
      /\ pc'[c] = "waiting" /\ c \in Clients
  BY <1>1 DEF TypeInv, TypeOK
<1>3. pc'[Server] = pc[Server] /\ (Engaged' <=> Engaged)
  <2>1. pc'[Server] = pc[Server]
    BY <1>2
  <2> QED
    BY <2>1 DEF Engaged
<1>4. /\ \A d : d # c => (Waiting(d)' <=> Waiting(d))
      /\ ~Waiting(c) /\ Waiting(c)'
  BY <1>1, <1>2 DEF Waiting
<1>5. Asks(c) /\ req[c].by = c /\ req[c] \in Requests /\ req[c] # Stop
  <2>1. Asks(c)
    BY <1>1, <1>2 DEF LinkInv, Asked
  <2> QED
    BY <1>2, <2>1 DEF Asks, TypeInv, Stop, NoRequest
<1>6. /\ DOMAIN queue = 1..Len(queue) /\ DOMAIN queue' = 1..Len(queue) + 1 /\ Len(queue) \in Nat
      /\ \A i \in DOMAIN queue : queue'[i] = queue[i]
      /\ queue'[Len(queue) + 1] = req[c]
  BY <1>1, <1>5, SentQueue
<1>7. ~InQueue(c)
  BY <1>4, <1>5 DEF LinkInv, Queued, InQueue, Stop, NoRequest
<1>8. \A d : d # c /\ ~InQueue(d) => ~InQueue(d)'
  BY <1>5, <1>6 DEF InQueue
<1>9. Asked'
  <2>1. ASSUME NEW d \in Clients, d # c, pc'[d] \in Busy \cup {"sending", "waiting"} PROVE Asks(d)'
    BY <2>1, <1>1, <1>2 DEF LinkInv, Asked, Asks, WellFormed
  <2>2. Asks(c)'
    BY <1>1, <1>5 DEF Asks, WellFormed
  <2> QED
    BY <2>1, <2>2 DEF Asked, Busy
<1>10. Queued'
  <2>1. ASSUME NEW i \in DOMAIN queue', queue'[i] # Stop
        PROVE  (Waiting(queue[i].by) /\ queue[i] = req[queue[i].by])'
    <3>1. CASE i \in DOMAIN queue
      <4>1. queue'[i] = queue[i] /\ Waiting(queue[i].by) /\ queue[i] = req[queue[i].by]
        BY <2>1, <3>1, <1>6 DEF LinkInv, Queued
      <4>2. Waiting(queue[i].by)'
        BY <4>1, <1>2, <1>4 DEF Waiting
      <4> QED
        BY <4>1, <1>1, <1>2, <1>4 DEF Waiting
    <3>2. CASE i = Len(queue) + 1
      BY <2>1, <3>2, <1>1, <1>4, <1>5, <1>6 DEF Waiting
    <3> QED
      BY <3>1, <3>2, <1>6
  <2>2. ASSUME NEW i \in DOMAIN queue', NEW j \in DOMAIN queue',
               queue'[i] # Stop, queue'[i].by = queue'[j].by
        PROVE  i = j
    <3>1. \A n \in DOMAIN queue : queue'[n].by # c
      BY <1>6, <1>7 DEF InQueue
    <3>2. CASE i \in DOMAIN queue /\ j \in DOMAIN queue
      BY <2>2, <3>2, <1>6 DEF LinkInv, Queued
    <3>3. CASE i = Len(queue) + 1 \/ j = Len(queue) + 1
      BY <2>2, <3>1, <3>3, <1>5, <1>6
    <3> QED
      BY <3>2, <3>3, <1>6
  <2> QED
    BY <2>1, <2>2 DEF Queued
<1>11. Worked'
  <2>1. Engaged => req[Server].by # c
    BY <1>1, <1>4 DEF LinkInv, Worked
  <2> QED
    BY <2>1, <1>1, <1>2, <1>3, <1>4, <1>8 DEF LinkInv, Worked, WellFormed, Suits
<1>12. Answered'
  <2>1. \A m \in responses : m.tid # c
    BY <1>4 DEF LinkInv, Answered
  <2> QED
    BY <2>1, <1>1, <1>3, <1>4, <1>8 DEF LinkInv, Answered, Suits
<1>13. Removed'
  BY <1>1 DEF Removed
<1>14. \A d \in Clients, h \in Handles : Claims(d, h)' => Claims(d, h)
  BY <1>1, <1>3 DEF Claims
<1>15. LinkInv'
  BY <1>9, <1>10, <1>11, <1>12, <1>13 DEF LinkInv
<1> QED
  BY <1>1, <1>14, <1>15, OwnKept
\* A client gets its answer, and with it a handle that was already its own.
LEMMA ReceiveResponseLink ==
  ASSUME TypeInv, LinkInv, OwnInv, NEW c \in Children, ReceiveResponse(c)
  PROVE  LinkInv' /\ OwnInv'
<1> USE Constants
<1>0. PICK m \in responses :
        m.tid = c /\ responses' = responses \ {m} /\ Learns(c, req[c], m.answer)
  BY DEF ReceiveResponse
<1>1. /\ pc[c] = "waiting" /\ pc' = [pc EXCEPT ![c] = "idle"] /\ req' = [req EXCEPT ![c] = NoRequest]
      /\ UNCHANGED <<work, channel, queue, next_handle>>
  BY DEF ReceiveResponse, maps
<1>2. /\ \A d \in Clients \cup {Server} : d # c => pc'[d] = pc[d] /\ req'[d] = req[d]
      /\ pc'[c] = "idle" /\ req'[c] = NoRequest /\ c \in Clients
  BY <1>1 DEF TypeInv, TypeOK
<1>3. \A d \in Clients : d # c => handle'[d] = handle[d]
  BY <1>0 DEF Learns, TypeInv, TypeOK
<1>4. pc'[Server] = pc[Server] /\ req'[Server] = req[Server]
  BY <1>2
<1>5. Engaged' <=> Engaged
  BY <1>4 DEF Engaged
<1>6. \A d : d # c => (Waiting(d)' <=> Waiting(d)) /\ (Waiting(d) => req'[d] = req[d])
  BY <1>2 DEF Waiting
<1>7. /\ ~InQueue(c) /\ (Engaged => req[Server].by # c)
      /\ \A n \in responses' : n \in responses /\ n.tid # c
  BY <1>0 DEF LinkInv, Answered
<1>8. Asked'
  <2>1. ASSUME NEW d \in Clients, d # c, pc'[d] \in Busy \cup {"sending", "waiting"} PROVE Asks(d)'
    BY <2>1, <1>2, <1>3 DEF LinkInv, Asked, Asks, WellFormed
  <2> QED
    BY <2>1, <1>2 DEF Asked, Busy
<1>9. Queued'
  BY <1>1, <1>6, <1>7 DEF LinkInv, Queued, InQueue
<1>10. Worked'
  BY <1>1, <1>2, <1>4, <1>5, <1>6, <1>7 DEF LinkInv, Worked, InQueue, WellFormed, Suits
<1>11. Answered'
  BY <1>1, <1>4, <1>5, <1>6, <1>7 DEF LinkInv, Answered, InQueue, Suits
<1>12. Removed'
  BY <1>0, <1>1 DEF LinkInv, Removed
<1>13. \A d \in Clients, h \in Handles : Claims(d, h)' => Claims(d, h)
  <2>1. \A h \in Handles : handle'[c] = h => handle[c] = h \/ (req[c].type = "open" /\ h = m.answer.got)
    BY <1>0, <1>2 DEF Learns, TypeInv, TypeOK
  <2>2. \A h \in Handles : handle'[c] = h => Claims(c, h)
    BY <2>1, <1>0 DEF Claims
  <2>3. \A d \in Clients : req'[d].type = "open" => req[d].type = "open"
    BY <1>2 DEF NoRequest
  <2>4. ASSUME NEW d \in Clients, NEW h \in Handles, Claims(d, h)' PROVE Claims(d, h)
    <3>1. CASE handle'[d] = h
      <4>1. CASE d = c
        BY <3>1, <4>1, <2>2
      <4>2. CASE d # c
        BY <3>1, <4>2, <1>3 DEF Claims
      <4> QED
        BY <4>1, <4>2
    <3>2. CASE handle'[d] # h
      <4>1. CASE Engaged' /\ req'[Server].by = d /\ req'[Server].type # "open" /\ req'[Server].handle = h
        BY <4>1, <1>4, <1>5 DEF Claims
      <4>2. CASE /\ pc'[Server] = "answering" /\ req'[Server].by = d /\ req'[Server].type = "open"
                 /\ work'[Server].answer.got = h
        BY <4>2, <1>1, <1>4 DEF Claims
      <4>3. CASE \E n \in responses' : n.tid = d /\ req'[d].type = "open" /\ n.answer.got = h
        BY <4>3, <2>3, <1>7 DEF Claims
      <4> QED
        BY <2>4, <3>2, <4>1, <4>2, <4>3 DEF Claims
    <3> QED
      BY <3>1, <3>2
  <2> QED
    BY <2>4
<1>14. LinkInv'
  BY <1>8, <1>9, <1>10, <1>11, <1>12 DEF LinkInv
<1> QED
  BY <1>1, <1>13, <1>14, OwnKept

\* A child that finds the queue removed is gone.
LEMMA ChannelGoneLink ==
  ASSUME TypeInv, LinkInv, OwnInv, NEW c \in Children, ChannelGone(c)
  PROVE  LinkInv' /\ OwnInv'
<1> USE Constants
<1>1. /\ pc[c] \in {"sending", "waiting"} /\ channel = "removed"
      /\ pc' = [pc EXCEPT ![c] = "exited"] /\ req' = [req EXCEPT ![c] = NoRequest]
      /\ UNCHANGED <<work, channel, queue, responses, next_handle>>
      /\ handle' = [handle EXCEPT ![c] = Nobody]
  BY DEF ChannelGone, Forgets, maps, msgs
<1>2. /\ \A d \in Clients \cup {Server} : d # c => pc'[d] = pc[d] /\ req'[d] = req[d]
      /\ pc'[c] = "exited" /\ req'[c] = NoRequest /\ c \in Clients
      /\ \A d \in Clients : handle'[d] = IF d = c THEN Nobody ELSE handle[d]
  BY <1>1 DEF TypeInv, TypeOK
<1>3. queue' = <<>> /\ responses' = {} /\ queue = <<>> /\ responses = {}
  BY <1>1 DEF LinkInv, Removed
<1>4. pc'[Server] = pc[Server] /\ req'[Server] = req[Server]
  BY <1>2
<1>5. Engaged' <=> Engaged
  BY <1>4 DEF Engaged
<1>6. \A d : d # c => (Waiting(d)' <=> Waiting(d)) /\ (Waiting(d) => req'[d] = req[d])
  BY <1>2 DEF Waiting
<1>7. Asked'
  <2>1. ASSUME NEW d \in Clients, d # c, pc'[d] \in Busy \cup {"sending", "waiting"} PROVE Asks(d)'
    BY <2>1, <1>2 DEF LinkInv, Asked, Asks, WellFormed
  <2> QED
    BY <2>1, <1>2 DEF Asked, Busy
<1>8. DOMAIN queue' = {}
  BY <1>3
<1>9. Queued' /\ Answered' /\ Removed'
  BY <1>3, <1>8 DEF Queued, Answered, Removed
<1>10. Worked'
  BY <1>1, <1>2, <1>4, <1>5, <1>6, <1>8 DEF LinkInv, Worked, InQueue, WellFormed, Suits
<1>11. \A d \in Clients, h \in Handles : Claims(d, h)' => Claims(d, h)
  BY <1>1, <1>2, <1>3, <1>4, <1>5 DEF Claims
<1>12. LinkInv'
  BY <1>7, <1>9, <1>10 DEF LinkInv
<1> QED
  BY <1>1, <1>11, <1>12, OwnKept
\* The server takes the request at the head, or ends with the stop.
LEMMA ReceiveRequestLink ==
  ASSUME TypeInv, LinkInv, OwnInv, ReceiveRequest
  PROVE  LinkInv' /\ OwnInv'
<1> USE Constants
<1>0. PICK r : r = Head(queue)
  OBVIOUS
<1>1. /\ pc[Server] = "receiving" /\ channel # "removed" /\ queue # <<>> /\ queue' = Tail(queue)
      /\ UNCHANGED <<work, handle, channel, responses, next_handle>>
      /\ \/ pc' = [pc EXCEPT ![Server] = "ended"] /\ req' = req
         \/ r # Stop /\ pc' = [pc EXCEPT ![Server] = "called"] /\ req' = [req EXCEPT ![Server] = r]
  BY <1>0 DEF ReceiveRequest, clients, maps
<1>2. \A d \in Clients : pc'[d] = pc[d] /\ req'[d] = req[d]
  BY <1>1 DEF TypeInv, TypeOK
<1>3. \A d : Waiting(d)' <=> Waiting(d)
  BY <1>2 DEF Waiting
<1>4. ~Engaged
  BY <1>1 DEF Engaged, Busy
<1>5. \/ pc'[Server] = "ended"
      \/ pc'[Server] = "called" /\ req'[Server] = r /\ r # Stop
  BY <1>1 DEF TypeInv, TypeOK
<1>6. /\ 1 \in DOMAIN queue /\ r = queue[1] /\ DOMAIN queue' = 1..Len(queue) - 1
      /\ DOMAIN queue = 1..Len(queue) /\ Len(queue) \in Nat
      /\ \A i \in DOMAIN queue' : queue'[i] = queue[i + 1] /\ i + 1 \in DOMAIN queue
  BY <1>0, <1>1, ReceivedQueue
<1>7. \A d : ~InQueue(d) => ~InQueue(d)'
  BY <1>6 DEF InQueue
<1>8. r # Stop => Waiting(r.by) /\ r = req[r.by] /\ Asks(r.by) /\ ~InQueue(r.by)'
  <2>1. r # Stop => Waiting(r.by) /\ r = req[r.by]
    BY <1>6 DEF LinkInv, Queued
  <2>2. r # Stop => Asks(r.by)
    BY <2>1 DEF LinkInv, Asked, Waiting
  <2>3. ASSUME r # Stop, NEW i \in DOMAIN queue', queue'[i].by = r.by PROVE FALSE
    <3>1. i + 1 \in DOMAIN queue /\ queue[i + 1].by = queue[1].by /\ queue[1] # Stop /\ i \in Nat
      BY <2>3, <1>6
    <3>2. i + 1 = 1
      BY <3>1, <1>6 DEF LinkInv, Queued
    <3> QED
      BY <3>1, <3>2, <1>6
  <2> QED
    BY <2>1, <2>2, <2>3 DEF InQueue
<1>9. Asked'
  BY <1>1, <1>2 DEF LinkInv, Asked, Asks, WellFormed
<1>10. Queued'
  <2>1. ASSUME NEW i \in DOMAIN queue', queue'[i] # Stop
        PROVE  (Waiting(queue[i].by) /\ queue[i] = req[queue[i].by])'
    <3>1. queue'[i] = queue[i + 1] /\ Waiting(queue[i + 1].by) /\ queue[i + 1] = req[queue[i + 1].by]
      BY <2>1, <1>6 DEF LinkInv, Queued
    <3> QED
      BY <3>1, <1>2 DEF Waiting
  <2>2. ASSUME NEW i \in DOMAIN queue', NEW j \in DOMAIN queue',
               queue'[i] # Stop, queue'[i].by = queue'[j].by
        PROVE  i = j
    <3>1. i + 1 = j + 1
      BY <2>2, <1>6 DEF LinkInv, Queued
    <3> QED
      BY <3>1, <1>6
  <2> QED
    BY <2>1, <2>2 DEF Queued
<1>11. Worked'
  <2>1. CASE pc'[Server] = "ended"
    BY <2>1 DEF Worked, Engaged, Busy
  <2>2. CASE pc'[Server] = "called" /\ req'[Server] = r /\ r # Stop
    <3>1. WellFormed(r) /\ r.by \in Children /\ Waiting(r.by)' /\ req'[r.by] = r
      BY <2>2, <1>2, <1>3, <1>8 DEF Waiting, Asks
    <3>2. ~InQueue(r.by)'
      BY <2>2, <1>8
    <3> QED
      BY <2>2, <3>1, <3>2 DEF Worked, InQueue, WellFormed, Waiting
  <2> QED
    BY <1>5, <2>1, <2>2
<1>12. Answered'
  <2>1. ASSUME NEW m \in responses, Engaged' PROVE req'[Server].by # m.tid
    BY <2>1, <1>5, <1>6 DEF LinkInv, Answered, InQueue, Engaged, Busy
  <2>2. \A m \in responses : Waiting(m.tid) /\ req'[m.tid] = req[m.tid]
    BY <1>2 DEF LinkInv, Answered, Waiting
  <2> QED
    BY <2>1, <2>2, <1>1, <1>3, <1>7 DEF LinkInv, Answered, Suits
<1>13. Removed'
  BY <1>1 DEF Removed
<1>14. \A d \in Clients, h \in Handles : Claims(d, h)' => Claims(d, h)
  <2>1. \A d \in Clients : r # Stop /\ r.by = d => r = req[d] /\ (r.type # "open" => r.handle = handle[d])
    BY <1>8 DEF Asks
  <2>2. pc'[Server] # "answering"
    BY <1>5
  <2> QED
    BY <2>1, <2>2, <1>1, <1>2, <1>5 DEF Claims, Engaged, Busy
<1>15. LinkInv'
  BY <1>9, <1>10, <1>11, <1>12, <1>13 DEF LinkInv
<1> QED
  BY <1>1, <1>14, <1>15, OwnKept

\* The answer goes to the client that waits for it.
LEMMA SendResponseLink ==
  ASSUME TypeInv, LinkInv, OwnInv, SendResponse
  PROVE  LinkInv' /\ OwnInv'
<1> USE Constants
<1>0. PICK b, m : b = req[Server].by /\ m = [tid |-> b, answer |-> work[Server].answer]
  OBVIOUS
<1>1. /\ pc[Server] = "answering" /\ channel # "removed" /\ pc' = [pc EXCEPT ![Server] = "receiving"]
      /\ responses' = responses \cup {m} /\ req' = [req EXCEPT ![Server] = NoRequest]
      /\ UNCHANGED <<handle, channel, queue, next_handle>>
  BY <1>0 DEF SendResponse, clients, maps
<1>2. \A d \in Clients : pc'[d] = pc[d] /\ req'[d] = req[d]
  BY <1>1 DEF TypeInv, TypeOK
<1>3. \A d : (Waiting(d)' <=> Waiting(d)) /\ (Waiting(d) => req'[d] = req[d])
  BY <1>2 DEF Waiting
<1>4. Engaged /\ pc'[Server] = "receiving" /\ ~Engaged'
  BY <1>1 DEF Engaged, Busy, TypeInv, TypeOK
<1>5. /\ Waiting(b) /\ req[b] = req[Server] /\ ~InQueue(b) /\ Suits(req[Server], work[Server].answer)
      /\ b \in Children
  BY <1>0, <1>1, <1>4 DEF LinkInv, Worked
<1>6. Asked'
  BY <1>1, <1>2 DEF LinkInv, Asked, Asks, WellFormed
<1>7. Queued'
  BY <1>1, <1>3 DEF LinkInv, Queued
<1>8. Worked'
  BY <1>4 DEF Worked
<1>9. Answered'
  <2>1. \A n \in responses : n.tid # b
    BY <1>0, <1>4 DEF LinkInv, Answered
  <2>2. /\ Waiting(m.tid)' /\ ~InQueue(m.tid)' /\ Suits(req[m.tid], m.answer)'
    BY <1>0, <1>1, <1>3, <1>5 DEF InQueue, Suits
  <2>3. ASSUME NEW n \in responses
        PROVE  Waiting(n.tid)' /\ ~InQueue(n.tid)' /\ Suits(req[n.tid], n.answer)'
    BY <1>1, <1>3 DEF LinkInv, Answered, InQueue, Suits
  <2> QED
    BY <2>1, <2>2, <2>3, <1>0, <1>1, <1>4 DEF LinkInv, Answered
<1>10. Removed'
  BY <1>1 DEF Removed
<1>11. \A d \in Clients, h \in Handles : Claims(d, h)' => Claims(d, h)
  BY <1>0, <1>1, <1>2, <1>4, <1>5 DEF Claims
<1>12. LinkInv'
  BY <1>6, <1>7, <1>8, <1>9, <1>10 DEF LinkInv
<1> QED
  BY <1>1, <1>11, <1>12, OwnKept

LEMMA ServerGivesUpLink ==
  ASSUME TypeInv, LinkInv, OwnInv, ServerGivesUp
  PROVE  LinkInv' /\ OwnInv'
<1> USE Constants
<1>1. /\ pc' = [pc EXCEPT ![Server] = "ended"]
      /\ UNCHANGED <<req, work, handle, channel, queue, responses, next_handle>>
  BY DEF ServerGivesUp, working, clients, maps, msgs
<1>2. (\A d \in Clients : pc'[d] = pc[d]) /\ pc'[Server] = "ended"
  BY <1>1 DEF TypeInv, TypeOK
<1>3. \A d : Waiting(d)' <=> Waiting(d)
  BY <1>2 DEF Waiting
<1>4. ~Engaged'
  BY <1>2 DEF Engaged, Busy
<1>5. Asked' /\ Queued' /\ Worked'
  BY <1>1, <1>2, <1>3, <1>4 DEF LinkInv, Asked, Asks, Queued, Worked, WellFormed
<1>6. Answered' /\ Removed'
  BY <1>1, <1>3, <1>4 DEF LinkInv, Answered, Removed, InQueue, Suits
<1>7. \A d \in Clients, h \in Handles : Claims(d, h)' => Claims(d, h)
  BY <1>1, <1>2, <1>4 DEF Claims
<1> QED
  BY <1>1, <1>5, <1>6, <1>7, OwnKept DEF LinkInv

\* The stop is a message of nobody; the removal leaves no message.
LEMMA SendStopLink ==
  ASSUME TypeInv, LinkInv, OwnInv, SendStop
  PROVE  LinkInv' /\ OwnInv'
<1> USE Constants
<1>1. /\ pc[Main] = "idle" /\ pc' = [pc EXCEPT ![Main] = "stopping"] /\ channel' = "stopping"
      /\ queue' = Append(queue, Stop) /\ channel = "ready"
      /\ UNCHANGED <<req, work, handle, responses, next_handle>>
  BY DEF SendStop, working, clients, maps
<1>2. \A d \in Clients \cup {Server} : pc'[d] = IF d = Main THEN "stopping" ELSE pc[d]
  BY <1>1 DEF TypeInv, TypeOK
<1>3. pc'[Server] = pc[Server] /\ Main \notin Children
  BY <1>2
<1>4. Engaged' <=> Engaged
  BY <1>3 DEF Engaged
<1>5. \A d : Waiting(d)' <=> Waiting(d)
  BY <1>2, <1>3 DEF Waiting
<1>6. Stop \in Requests /\ Stop.by = Nobody
  BY DEF Stop, NoRequest, Requests, HandleOrNone
<1>7. /\ DOMAIN queue = 1..Len(queue) /\ DOMAIN queue' = 1..Len(queue) + 1 /\ Len(queue) \in Nat
      /\ \A i \in DOMAIN queue : queue'[i] = queue[i]
      /\ queue'[Len(queue) + 1] = Stop
  BY <1>1, <1>6, SentQueue
<1>8. \A d \in Children : ~InQueue(d) => ~InQueue(d)'
  BY <1>6, <1>7 DEF InQueue
<1>9. Asked'
  <2>1. ASSUME NEW d \in Clients, d # Main, pc'[d] \in Busy \cup {"sending", "waiting"} PROVE Asks(d)'
    BY <2>1, <1>1, <1>2 DEF LinkInv, Asked, Asks, WellFormed
  <2> QED
    BY <2>1, <1>2 DEF Asked, Busy
<1>10. Queued'
  <2>1. ASSUME NEW i \in DOMAIN queue', queue'[i] # Stop
        PROVE  /\ i \in DOMAIN queue /\ queue'[i] = queue[i] /\ Waiting(queue[i].by)
               /\ queue[i] = req[queue[i].by]
    BY <2>1, <1>7 DEF LinkInv, Queued
  <2>2. ASSUME NEW i \in DOMAIN queue', queue'[i] # Stop
        PROVE  (Waiting(queue[i].by) /\ queue[i] = req[queue[i].by])'
    BY <2>1, <2>2, <1>1, <1>2, <1>3 DEF Waiting
  <2>3. ASSUME NEW i \in DOMAIN queue', NEW j \in DOMAIN queue',
               queue'[i] # Stop, queue'[i].by = queue'[j].by
        PROVE  i = j
    <3>1. i \in DOMAIN queue /\ queue'[i] = queue[i] /\ queue[i].by \in Children
      BY <2>1, <2>3 DEF Waiting
    <3>2. j \in DOMAIN queue
      BY <2>3, <3>1, <1>6, <1>7
    <3> QED
      BY <2>3, <3>1, <3>2, <1>7 DEF LinkInv, Queued
  <2> QED
    BY <2>2, <2>3 DEF Queued
<1>11. Worked'
  BY <1>1, <1>2, <1>3, <1>4, <1>5, <1>8 DEF LinkInv, Worked, WellFormed, Suits
<1>12. Answered'
  <2>1. \A m \in responses : m.tid \in Children
    BY DEF LinkInv, Answered, Waiting
  <2> QED
    BY <2>1, <1>1, <1>3, <1>4, <1>5, <1>8 DEF LinkInv, Answered, Suits
<1>13. Removed'
  BY <1>1 DEF Removed
<1>14. \A d \in Clients, h \in Handles : Claims(d, h)' => Claims(d, h)
  BY <1>1, <1>3, <1>4 DEF Claims
<1>15. LinkInv'
  BY <1>9, <1>10, <1>11, <1>12, <1>13 DEF LinkInv
<1> QED
  BY <1>1, <1>14, <1>15, OwnKept

LEMMA DeinitLink ==
  ASSUME TypeInv, LinkInv, OwnInv, Deinit
  PROVE  LinkInv' /\ OwnInv'
<1> USE Constants
<1>1. /\ pc[Main] = "stopping" /\ pc' = [pc EXCEPT ![Main] = "joining"] /\ channel' = "removed"
      /\ queue' = <<>> /\ responses' = {} /\ UNCHANGED <<req, work, handle, next_handle>>
  BY DEF Deinit, working, clients, maps
<1>2. \A d \in Clients \cup {Server} : pc'[d] = IF d = Main THEN "joining" ELSE pc[d]
  BY <1>1 DEF TypeInv, TypeOK
<1>3. pc'[Server] = pc[Server] /\ Main \notin Children
  BY <1>2
<1>4. Engaged' <=> Engaged
  BY <1>3 DEF Engaged
<1>5. \A d : Waiting(d)' <=> Waiting(d)
  BY <1>2, <1>3 DEF Waiting
<1>6. Asked'
  <2>1. ASSUME NEW d \in Clients, d # Main, pc'[d] \in Busy \cup {"sending", "waiting"} PROVE Asks(d)'
    BY <2>1, <1>1, <1>2 DEF LinkInv, Asked, Asks, WellFormed
  <2> QED
    BY <2>1, <1>2 DEF Asked, Busy
<1>7. DOMAIN queue' = {}
  BY <1>1
<1>8. Queued' /\ Answered' /\ Removed'
  BY <1>1, <1>7 DEF Queued, Answered, Removed
<1>9. Worked'
  BY <1>1, <1>2, <1>3, <1>4, <1>5, <1>7 DEF LinkInv, Worked, InQueue, WellFormed, Suits
<1>10. \A d \in Clients, h \in Handles : Claims(d, h)' => Claims(d, h)
  BY <1>1, <1>3, <1>4 DEF Claims
<1>11. LinkInv'
  BY <1>6, <1>8, <1>9 DEF LinkInv
<1> QED
  BY <1>1, <1>10, <1>11, OwnKept
-----------------------------------------------------------------------------
(* The types.                                                              *)

\* What a client is told are places.
LEMMA ToldType ==
  ASSUME TypeInv, NEW c \in Clients, NEW r, WellFormed(r), NEW answer, Suits(r, answer)
  PROVE  Told(c, r, answer) \in SUBSET (Slots \X {"allocated", "reserved"})
<1> USE DEF WellFormed
<1>1. view[c] \in SUBSET (Slots \X {"allocated", "reserved"})
  BY DEF TypeInv, TypeOK
<1>2. CASE r.type \in {"open", "close"}
  BY <1>2 DEF Told
<1>3. CASE r.type \in OnSpace /\ ~answer.ok
  BY <1>1, <1>3 DEF Told, OnSpace
<1>4. CASE r.type \in OnSpace /\ answer.ok
  <2>1. answer.got \in Slots
    BY <1>4 DEF Suits
  <2>2. \/ Told(c, r, answer) = view[c] \cup {<<answer.got, "allocated">>}
        \/ Told(c, r, answer) = view[c] \ {<<answer.got, "allocated">>}
        \/ Told(c, r, answer) = view[c] \ {<<answer.got, "reserved">>}
        \/ Told(c, r, answer) = view[c] \cup {<<answer.got, "reserved">>}
    BY <1>4 DEF Told, OnSpace
  <2>3. {<<answer.got, "allocated">>, <<answer.got, "reserved">>} \subseteq Slots \X {"allocated", "reserved"}
    BY <2>1
  <2> QED
    BY <1>1, <2>2, <2>3
<1> QED
  BY <1>2, <1>3, <1>4

\* What a client learns is of its type.
LEMMA LearnsType ==
  ASSUME TypeInv, NEW c \in Clients, NEW r, WellFormed(r), NEW answer, Suits(r, answer), Learns(c, r, answer)
  PROVE  /\ handle' \in [Clients -> HandleOrNone] /\ open' \in [Clients -> BOOLEAN]
         /\ view' \in [Clients -> SUBSET (Slots \X {"allocated", "reserved"})]
         /\ \A d \in Clients : open'[d] => handle'[d] \in Handles
<1> USE DEF WellFormed
<1>1. /\ handle \in [Clients -> HandleOrNone] /\ open \in [Clients -> BOOLEAN]
      /\ view \in [Clients -> SUBSET (Slots \X {"allocated", "reserved"})]
      /\ \A d \in Clients : open[d] => handle[d] \in Handles
  BY DEF TypeInv, TypeOK
<1>2. r.type = "open" => answer.got \in Handles
  BY DEF Suits
<1>3. handle' \in [Clients -> HandleOrNone] /\ open' \in [Clients -> BOOLEAN]
  BY <1>1, <1>2 DEF Learns, HandleOrNone
<1>4. \A d \in Clients : open'[d] => handle'[d] \in Handles
  BY <1>1, <1>2 DEF Learns
<1>5. Told(c, r, answer) \in SUBSET (Slots \X {"allocated", "reserved"})
  BY ToldType
<1>6. view' \in [Clients -> SUBSET (Slots \X {"allocated", "reserved"})]
  <2>1. view' = [view EXCEPT ![c] = Told(c, r, answer)]
    BY DEF Learns
  <2> QED
    BY <1>1, <1>5, <2>1
<1> QED
  BY <1>3, <1>4, <1>6

\* So is everything at the end of handle_request().
LEMMA DoneType ==
  ASSUME TypeInv, LinkInv, NEW a \in Actors, pc[a] \in Busy, NEW answer \in Answers, Suits(req[a], answer),
         Done(a, answer), UNCHANGED msgs, UNCHANGED inherited,
         next_handle' \in 1..(MaxHandles + 1), handles' \in [Handles -> HandleOrNone],
         instance' \in [Keys -> HandleOrNone],
         allocator' \in [Handles -> Allocators],
         map_mutex' \in Actors \cup {Nobody}, mutex' \in [Handles -> Actors \cup {Nobody}]
  PROVE  TypeInv'
<1> USE Constants
<1>1. Empty \in Spaces /\ NoWork \in [space : Spaces, answer : Answers] /\ NoRequest \in Requests
  BY DEF Empty, Spaces, NoWork, NoAnswer, Answers, NoRequest, Requests, HandleOrNone
<1>2. WellFormed(req[a])
  BY ActorRequest
<1>3. /\ channel' \in {"ready", "stopping", "removed"} /\ inherited' \in [Children -> Actors \cup {Nobody}]
      /\ queue' \in Seq(Requests) /\ responses' \subseteq [tid : Children, answer : Answers]
  BY DEF TypeInv, TypeOK, msgs
<1>4. /\ pc' \in [Clients \cup {Server} -> Stages] /\ found' \in [Actors -> HandleOrNone]
      /\ work' \in [Actors -> [space : Spaces, answer : Answers]]
      /\ req' \in [Clients \cup {Server} -> Requests]
  <2>1. /\ pc \in [Clients \cup {Server} -> Stages] /\ found \in [Actors -> HandleOrNone]
        /\ work \in [Actors -> [space : Spaces, answer : Answers]]
        /\ req \in [Clients \cup {Server} -> Requests]
    BY DEF TypeInv, TypeOK
  <2>2. pc' \in [Clients \cup {Server} -> Stages]
    BY <2>1 DEF Done, Stages
  <2>3. found' \in [Actors -> HandleOrNone]
    BY <2>1 DEF Done, HandleOrNone
  <2>4. work' \in [Actors -> [space : Spaces, answer : Answers]]
    BY <2>1, <1>1 DEF Done
  <2>5. req' \in [Clients \cup {Server} -> Requests]
    BY <2>1, <1>1 DEF Done
  <2> QED
    BY <2>2, <2>3, <2>4, <2>5
<1>5. /\ handle' \in [Clients -> HandleOrNone] /\ open' \in [Clients -> BOOLEAN]
      /\ view' \in [Clients -> SUBSET (Slots \X {"allocated", "reserved"})]
      /\ \A d \in Clients : open'[d] => handle'[d] \in Handles
  <2>1. CASE a = Server
    BY <2>1 DEF Done, clients, TypeInv, TypeOK
  <2>2. CASE a # Server
    <3>1. a \in Clients /\ Learns(a, req[a], answer)
      BY <2>2 DEF Done, Actors
    <3> QED
      BY <3>1, <1>2, LearnsType
  <2> QED
    BY <2>1, <2>2
<1> QED
  BY <1>3, <1>4, <1>5 DEF TypeInv, TypeOK, Allocators
-----------------------------------------------------------------------------
(* The maps.                                                               *)

\* A step that changes neither the maps nor the counters.
LEMMA MapsKept ==
  ASSUME TypeInv, MapsInv, UNCHANGED <<next_handle, handles, instance>>,
         \A i \in Handles : /\ allocator'[i].refcount = allocator[i].refcount
                            /\ allocator'[i].ial_refcount = allocator[i].ial_refcount
                            /\ allocator'[i].alive = allocator[i].alive
                            /\ allocator'[i].key = allocator[i].key
  PROVE  MapsInv'
<1>1. \A i : Users(i)' = Users(i)
  BY DEF Users
<1>2. \A k \in Keys : instance[k] # Nobody => instance[k] \in Handles
  BY DEF TypeInv, TypeOK, HandleOrNone
<1> QED
  BY <1>1, <1>2 DEF MapsInv

\* Who does not come to work on another request, or another allocator.
LEMMA FoundKept ==
  ASSUME FoundInv, handles' = handles,
         \A b \in Actors : pc'[b] \in {"found", "inside", "writing"} =>
           pc[b] = pc'[b] /\ req'[b] = req[b] /\ found'[b] = found[b] /\ work'[b] = work[b]
  PROVE  FoundInv'
BY DEF FoundInv, Suits

\* The counters of an allocator, and nothing else of it.
LEMMA CountedType ==
  ASSUME NEW al \in Allocators, NEW d \in {1, -1}, al.refcount + d \in Nat, al.ial_refcount + d \in Nat
  PROVE  /\ Counted(al, d) \in Allocators
         /\ Counted(al, d).refcount = al.refcount + d /\ Counted(al, d).ial_refcount = al.ial_refcount + d
         /\ Counted(al, d).alive = al.alive /\ Counted(al, d).key = al.key
         /\ Counted(al, d).space = al.space
<1> USE DEF Allocators
<1>0. PICK n \in Nat, m \in Nat : n = al.refcount + d /\ m = al.ial_refcount + d
  OBVIOUS
<1>1. PICK one, both :
        /\ n = al.refcount + d /\ one = [al EXCEPT !.refcount = n]
        /\ m = al.ial_refcount + d /\ both = [one EXCEPT !.ial_refcount = m]
  BY <1>0
<1>2. Counted(al, d) = both
  BY <1>1 DEF Counted
<1>3. one \in Allocators /\ both \in Allocators
  <2>1. one \in Allocators
    BY <1>1
  <2> QED
    BY <2>1, <1>1
<1>4. one.refcount = n /\ one.ial_refcount = al.ial_refcount /\ one.alive = al.alive /\ one.key = al.key
      /\ one.space = al.space
  BY <1>1
<1>5. both.refcount = one.refcount /\ both.ial_refcount = m /\ both.alive = one.alive /\ both.key = one.key
      /\ both.space = one.space
  BY <1>1, <1>3
<1> QED
  BY <1>1, <1>2, <1>3, <1>4, <1>5

\* A new handle is one more for its allocator, which may be new itself.
LEMMA OpenMaps ==
  ASSUME TypeInv, LinkInv, MapsInv, NEW a \in Actors, OpenAllocator(a)
  PROVE  /\ MapsInv' /\ next_handle \in Handles /\ handles[next_handle] = Nobody
         /\ \A h \in Handles : h # next_handle => handles'[h] = handles[h]
         /\ next_handle' \in 1..(MaxHandles + 1) /\ handles' \in [Handles -> HandleOrNone]
         /\ instance' \in [Keys -> HandleOrNone]
         /\ allocator' \in [Handles -> Allocators]
         /\ \A j \in Handles : Users(j) # {} => allocator'[j].space = allocator[j].space
         /\ handles'[next_handle] # Nobody
<1> USE Constants
<1>0. PICK k, n, i, new, more :
        /\ k = req[a].key /\ n = next_handle /\ i = IF instance[k] = Nobody THEN n ELSE instance[k]
        /\ new = [key |-> k, refcount |-> 1, ial_refcount |-> 1, alive |-> TRUE, space |-> Empty]
        /\ more = Counted(allocator[i], 1)
  OBVIOUS
<1>1. /\ n \in Handles /\ req[a].type = "open" /\ pc[a] = "in maps"
      /\ instance' = [instance EXCEPT ![k] = i] /\ handles' = [handles EXCEPT ![n] = i]
      /\ allocator' = [allocator EXCEPT ![i] = IF instance[k] = Nobody THEN new ELSE more]
      /\ next_handle' = n + 1
  BY <1>0 DEF OpenAllocator
<1>2. k \in Keys
  BY <1>0, <1>1, ActorRequest DEF Busy, WellFormed
<1>3. /\ handles \in [Handles -> HandleOrNone] /\ instance \in [Keys -> HandleOrNone]
      /\ allocator \in [Handles -> Allocators]
  BY DEF TypeInv, TypeOK, Allocators
<1>4. handles[n] = Nobody /\ i \in Handles /\ i # Nobody /\ n \in Nat
  <2>1. n \in Handles /\ n \in Nat /\ n = next_handle
    BY <1>0, <1>1
  <2>2. handles[n] # Nobody => n < n
    BY <2>1 DEF MapsInv
  <2> QED
    BY <2>1, <2>2, <1>0, <1>2, <1>3 DEF HandleOrNone
<1>5. \A h \in Handles : handles'[h] = IF h = n THEN i ELSE handles[h]
  BY <1>1, <1>3
<1>6. \A j \in Handles : Users(j)' = IF j = i THEN Users(i) \cup {n} ELSE Users(j)
  BY <1>1, <1>4, <1>5 DEF Users
<1>7. n \notin Users(i) /\ IsFiniteSet(Users(i))
  BY <1>4, FS_Subset DEF Users
<1>8. Cardinality(Users(i) \cup {n}) = Cardinality(Users(i)) + 1
  BY <1>7, FS_AddElement
<1>9. \A j \in Handles : j # i => allocator'[j] = allocator[j]
  BY <1>1, <1>3
<1>10. allocator'[i] = IF instance[k] = Nobody THEN new ELSE more
  BY <1>1, <1>3, <1>4
<1>11. \A q \in Keys : instance'[q] = IF q = k THEN i ELSE instance[q]
  BY <1>1, <1>3
<1>12. instance[k] = Nobody => Users(i) = {} /\ Cardinality(Users(i)) = 0
  <2>1. instance[k] = Nobody => i = n /\ Users(n) = {}
    <3>1. ASSUME NEW h \in Handles, handles[h] = n PROVE FALSE
      <4>1. handles[h] # Nobody
        BY <3>1, <1>1
      <4>2. n < n
        BY <4>1, <3>1, <1>0 DEF MapsInv
      <4> QED
        BY <4>2, <1>4
    <3> QED
      BY <3>1, <1>0 DEF Users
  <2> QED
    BY <2>1, FS_EmptySet
<1>13. /\ allocator'[i].refcount = Cardinality(Users(i)) + 1
       /\ allocator'[i].ial_refcount = Cardinality(Users(i)) + 1
       /\ allocator'[i].alive /\ allocator'[i].key = k
  <2>1. CASE instance[k] = Nobody
    BY <2>1, <1>0, <1>10, <1>12
  <2>2. CASE instance[k] # Nobody
    <3>1. /\ allocator[i].refcount = Cardinality(Users(i)) /\ allocator[i].ial_refcount = Cardinality(Users(i))
          /\ Users(i) # {} /\ allocator[i].alive /\ allocator[i].key = k
      <4>1. i = instance[k] /\ Users(i) # {} /\ allocator[i].key = k
        BY <2>2, <1>0, <1>2 DEF MapsInv
      <4> QED
        BY <4>1, <1>4 DEF MapsInv
    <3>2. allocator'[i] = more /\ allocator[i] \in Allocators
      BY <2>2, <1>3, <1>4, <1>10
    <3>3. /\ more.refcount = allocator[i].refcount + 1 /\ more.ial_refcount = allocator[i].ial_refcount + 1
          /\ more.alive = allocator[i].alive /\ more.key = allocator[i].key
      <4>1. PICK al \in Allocators : al = allocator[i]
        BY <3>2
      <4>2. /\ Counted(al, 1).refcount = al.refcount + 1 /\ Counted(al, 1).ial_refcount = al.ial_refcount + 1
            /\ Counted(al, 1).alive = al.alive /\ Counted(al, 1).key = al.key
        <5>1. al.refcount + 1 \in Nat /\ al.ial_refcount + 1 \in Nat
          BY DEF Allocators
        <5> QED
          BY <5>1, CountedType
      <4> QED
        BY <4>1, <4>2, <1>0
    <3> QED
      BY <3>1, <3>2, <3>3
  <2> QED
    BY <2>1, <2>2
<1>14. MapsInv'
  <2>1. \A h \in Handles : handles'[h] # Nobody => h < next_handle' /\ handles'[h] < next_handle'
    <3>1. i < n + 1
      <4>1. CASE instance[k] = Nobody
        BY <4>1, <1>0, <1>4
      <4>2. CASE instance[k] # Nobody
        <5>0. Users(i) # {} /\ i # Nobody
          BY <4>2, <1>0, <1>2 DEF MapsInv
        <5>1. PICK h \in Handles : handles[h] = i
          BY <5>0 DEF Users
        <5>2. i < n /\ i \in Nat
          BY <5>0, <5>1, <1>0, <1>4 DEF MapsInv
        <5> QED
          BY <5>2, <1>4
      <4> QED
        BY <4>1, <4>2
    <3>2. ASSUME NEW h \in Handles, h # n, handles[h] # Nobody PROVE h < n + 1 /\ handles[h] < n + 1
      <4>1. h < n /\ handles[h] < n
        BY <3>2, <1>0 DEF MapsInv
      <4>2. h \in Nat /\ handles[h] \in Nat
        BY <3>2, <1>3 DEF HandleOrNone
      <4> QED
        BY <4>1, <4>2, <1>4
    <3>3. n < n + 1
      BY <1>4
    <3> QED
      BY <3>1, <3>2, <3>3, <1>1, <1>5
  <2>2. ASSUME NEW j \in Handles
        PROVE  /\ allocator'[j].refcount = Cardinality(Users(j)')
               /\ allocator'[j].ial_refcount = Cardinality(Users(j)')
               /\ Users(j)' # {} => allocator'[j].alive /\ allocator'[j].key \in Keys
                                    /\ instance'[allocator'[j].key] = j
    <3>1. CASE j = i
      BY <3>1, <1>2, <1>6, <1>8, <1>11, <1>13
    <3>2. CASE j # i
      <4>1. allocator'[j] = allocator[j] /\ Users(j)' = Users(j)
        BY <3>2, <1>6, <1>9
      <4>2. Users(j) # {} => allocator[j].key # k
        BY <3>2, <1>0, <1>4 DEF MapsInv
      <4>3. /\ allocator[j].refcount = Cardinality(Users(j)) /\ allocator[j].ial_refcount = Cardinality(Users(j))
            /\ Users(j) # {} => /\ allocator[j].alive /\ allocator[j].key \in Keys
                                 /\ instance[allocator[j].key] = j
        BY <1>0 DEF MapsInv
      <4> QED
        BY <4>1, <4>2, <4>3, <1>11
    <3> QED
      BY <3>1, <3>2
  <2>3. ASSUME NEW q \in Keys, instance'[q] # Nobody
        PROVE  (Users(instance[q]) # {} /\ allocator[instance[q]].key = q)'
    <3>1. CASE q = k
      <4>1. instance'[q] = i /\ n \in Users(i)'
        BY <3>1, <1>4, <1>6, <1>11
      <4> QED
        BY <4>1, <3>1, <1>13
    <3>2. CASE q # k
      <4>1. /\ instance'[q] = instance[q] /\ instance[q] \in Handles
            /\ Users(instance[q]) # {} /\ allocator[instance[q]].key = q
        BY <2>3, <3>2, <1>3, <1>11 DEF MapsInv, HandleOrNone
      <4>2. instance[q] # i
        <5>1. CASE instance[k] = Nobody
          BY <5>1, <4>1, <1>12
        <5>2. CASE instance[k] # Nobody
          BY <5>2, <4>1, <3>2, <1>0, <1>2 DEF MapsInv
        <5> QED
          BY <5>1, <5>2
      <4> QED
        BY <4>1, <4>2, <1>6, <1>9
    <3> QED
      BY <3>1, <3>2
  <2> QED
    BY <2>1, <2>2, <2>3 DEF MapsInv, Users
<1>15. /\ next_handle' \in 1..(MaxHandles + 1) /\ handles' \in [Handles -> HandleOrNone]
       /\ instance' \in [Keys -> HandleOrNone]
  <2>1. next_handle' \in 1..(MaxHandles + 1)
    <3>1. n \in 1..MaxHandles /\ next_handle' = n + 1
      BY <1>1 DEF Handles
    <3> QED
      BY <3>1
  <2> QED
    BY <2>1, <1>1, <1>3, <1>4 DEF HandleOrNone
<1>16. allocator' \in [Handles -> Allocators]
  <2>1. new \in Allocators
    BY <1>0, <1>2 DEF Empty, Spaces, Allocators
  <2>2. more \in Allocators
    <3>1. allocator[i] \in Allocators
      BY <1>3, <1>4
    <3> QED
      BY <3>1, <1>0, CountedType DEF Allocators
  <2> QED
    BY <2>1, <2>2, <1>1, <1>3
<1>17. ASSUME NEW j \in Handles, Users(j) # {} PROVE allocator'[j].space = allocator[j].space
  <2>1. CASE j # i
    BY <2>1, <1>9
  <2>2. CASE j = i
    <3>1. allocator'[i] = more /\ allocator[i] \in Allocators
      BY <1>17, <2>2, <1>3, <1>4, <1>10, <1>12
    <3> QED
      BY <3>1, <2>2, <1>0, CountedType DEF Allocators
  <2> QED
    BY <2>1, <2>2
<1> QED
  BY <1>0, <1>1, <1>4, <1>5, <1>14, <1>15, <1>16, <1>17

\* A closed handle is one less, the last one ends the allocator.
LEMMA CloseMaps ==
  ASSUME TypeInv, LinkInv, MapsInv, NEW a \in Actors, CloseAllocator(a)
  PROVE  /\ MapsInv'
         /\ \A g \in Handles : g # req[a].handle => handles'[g] = handles[g]
         /\ handles' \in [Handles -> HandleOrNone] /\ instance' \in [Keys -> HandleOrNone]
         /\ allocator' \in [Handles -> Allocators]
         /\ \A j \in Handles : Users(j)' # {} => allocator'[j].space = allocator[j].space
<1> USE Constants
<1>0. PICK h, i : h = req[a].handle /\ i = handles[h]
  OBVIOUS
<1>1. /\ pc[a] = "in maps" /\ req[a].type = "close" /\ i # Nobody
      /\ handles' = [handles EXCEPT ![h] = Nobody]
      /\ allocator' = [allocator EXCEPT ![i] =
           IF allocator[i].ial_refcount > 1 THEN Counted(allocator[i], -1) ELSE Gone]
      /\ instance' = IF allocator[i].refcount = 1
                      THEN [instance EXCEPT ![allocator[i].key] = Nobody] ELSE instance
      /\ next_handle' = next_handle
  BY <1>0 DEF CloseAllocator
<1>2. h \in Handles
  BY <1>0, <1>1, ActorRequest DEF Busy, WellFormed
<1>3. /\ handles \in [Handles -> HandleOrNone] /\ instance \in [Keys -> HandleOrNone]
      /\ allocator \in [Handles -> Allocators]
  BY DEF TypeInv, TypeOK, Allocators
<1>4. /\ i \in Handles /\ h \in Users(i) /\ Cardinality(Users(i)) \in Nat /\ Cardinality(Users(i)) > 0
      /\ Cardinality(Users(i) \ {h}) = Cardinality(Users(i)) - 1
      /\ (Cardinality(Users(i)) = 1 <=> Users(i) \ {h} = {})
  BY <1>0, <1>1, <1>2, UsersOfOpen
<1>5. \A g \in Handles : handles'[g] = IF g = h THEN Nobody ELSE handles[g]
  BY <1>1, <1>2, <1>3
<1>6. \A j \in Handles : Users(j)' = IF j = i THEN Users(i) \ {h} ELSE Users(j)
  <2>1. ASSUME NEW j \in Handles, NEW g \in Handles
        PROVE  handles'[g] = j <=> handles[g] = j /\ (j = i => g # h)
    BY <2>1, <1>0, <1>5
  <2>2. i \in Handles
    BY <1>4
  <2> QED
    BY <2>1, <2>2 DEF Users
<1>7. /\ allocator[i].refcount = Cardinality(Users(i)) /\ allocator[i].ial_refcount = Cardinality(Users(i))
      /\ allocator[i].alive /\ allocator[i].key \in Keys /\ instance[allocator[i].key] = i
  BY <1>4 DEF MapsInv
<1>8. allocator[i] \in Allocators /\ (allocator[i].ial_refcount > 1 <=> Cardinality(Users(i)) # 1)
  <2>1. \A n \in Nat : n > 0 => (n > 1 <=> n # 1)
    OBVIOUS
  <2>2. allocator[i] \in Allocators
    BY <1>3, <1>4
  <2> QED
    BY <2>1, <2>2, <1>4, <1>7
<1>12. \A g \in Handles : handles'[g] # Nobody => g < next_handle' /\ handles'[g] < next_handle'
  <2>1. next_handle' = next_handle
    BY <1>1
  <2> QED
    BY <2>1, <1>5 DEF MapsInv
<1>9. CASE Cardinality(Users(i)) = 1
  <2>1. allocator' = [allocator EXCEPT ![i] = Gone] /\ instance' = [instance EXCEPT ![allocator[i].key] = Nobody]
    BY <1>0, <1>1, <1>7, <1>8, <1>9
  <2>2. \A j \in Handles : allocator'[j] = IF j = i THEN Gone ELSE allocator[j]
    BY <2>1, <1>3, <1>4
  <2>3. \A q \in Keys : instance'[q] = IF q = allocator[i].key THEN Nobody ELSE instance[q]
    BY <2>1, <1>3, <1>7
  <2>4. Gone \in Allocators /\ Gone.refcount = 0 /\ Gone.ial_refcount = 0
    BY DEF Gone, Allocators, Empty, Spaces
  <2>6. ASSUME NEW j \in Handles
        PROVE  (/\ allocator[j].refcount = Cardinality(Users(j))
                /\ allocator[j].ial_refcount = Cardinality(Users(j))
                /\ Users(j) # {} => allocator[j].alive /\ allocator[j].key \in Keys
                                    /\ instance[allocator[j].key] = j)'
    <3>1. CASE j = i
      <4>1. Users(j)' = {} /\ allocator'[j] = Gone
        BY <3>1, <1>4, <1>6, <1>9, <2>2
      <4> QED
        BY <4>1, <2>4, FS_EmptySet
    <3>2. CASE j # i
      <4>1. allocator'[j] = allocator[j] /\ Users(j)' = Users(j)
        BY <3>2, <1>6, <2>2
      <4>2. Users(j) # {} => allocator[j].key # allocator[i].key
        BY <3>2, <1>4, <1>7 DEF MapsInv
      <4> QED
        BY <4>1, <4>2, <2>3 DEF MapsInv
    <3> QED
      BY <3>1, <3>2
  <2>7. ASSUME NEW q \in Keys, instance'[q] # Nobody
        PROVE  (Users(instance[q]) # {} /\ allocator[instance[q]].key = q)'
    <3>1. instance'[q] = instance[q] /\ q # allocator[i].key /\ instance[q] \in Handles
      BY <2>3, <2>7, <1>3 DEF HandleOrNone
    <3>2. Users(instance[q]) # {} /\ allocator[instance[q]].key = q /\ instance[q] # i
      BY <3>1 DEF MapsInv
    <3> QED
      BY <3>1, <3>2, <1>6, <2>2
  <2>8. MapsInv'
    BY <1>12, <2>6, <2>7 DEF MapsInv
  <2>9. allocator' \in [Handles -> Allocators] /\ instance' \in [Keys -> HandleOrNone]
    BY <2>1, <2>4, <1>3 DEF HandleOrNone
  <2>10. \A j \in Handles : Users(j)' # {} => allocator'[j].space = allocator[j].space
    BY <1>4, <1>6, <1>9, <2>2
  <2> QED
    BY <2>8, <2>9, <2>10, <1>0, <1>1, <1>3, <1>5 DEF HandleOrNone
<1>10. CASE Cardinality(Users(i)) # 1
  <2>1. allocator' = [allocator EXCEPT ![i] = Counted(allocator[i], -1)] /\ instance' = instance
    BY <1>0, <1>1, <1>7, <1>8, <1>10
  <2>2. \A j \in Handles : allocator'[j] = IF j = i THEN Counted(allocator[i], -1) ELSE allocator[j]
    BY <2>1, <1>3, <1>4
  <2>3. /\ Counted(allocator[i], -1) \in Allocators
        /\ Counted(allocator[i], -1).refcount = Cardinality(Users(i)) - 1
        /\ Counted(allocator[i], -1).ial_refcount = Cardinality(Users(i)) - 1
        /\ Counted(allocator[i], -1).alive /\ Counted(allocator[i], -1).key = allocator[i].key
        /\ Counted(allocator[i], -1).space = allocator[i].space
    <3>1. /\ allocator[i].refcount + (-1) = Cardinality(Users(i)) - 1
          /\ allocator[i].ial_refcount + (-1) = Cardinality(Users(i)) - 1
          /\ Cardinality(Users(i)) - 1 \in Nat
      BY <1>4, <1>7
    <3> QED
      BY <3>1, <1>7, <1>8, CountedType
  <2>4. \A j \in Handles : allocator'[j].key = allocator[j].key
    BY <2>2, <2>3
  <2>6. ASSUME NEW j \in Handles
        PROVE  /\ allocator'[j].refcount = Cardinality(Users(j)')
               /\ allocator'[j].ial_refcount = Cardinality(Users(j)')
               /\ Users(j)' # {} => allocator'[j].alive /\ allocator'[j].key \in Keys
                                    /\ instance'[allocator'[j].key] = j
    <3>1. CASE j = i
      <4>1. /\ Users(j)' = Users(i) \ {h} /\ allocator'[j] = Counted(allocator[i], -1)
            /\ instance'[allocator[i].key] = j /\ allocator[i].key \in Keys
        BY <3>1, <1>6, <1>7, <2>1, <2>2
      <4>2. allocator'[j].key \in Keys /\ instance'[allocator'[j].key] = j /\ allocator'[j].alive
        BY <4>1, <2>3
      <4>3. /\ allocator'[j].refcount = Cardinality(Users(j)')
            /\ allocator'[j].ial_refcount = Cardinality(Users(j)')
        BY <4>1, <1>4, <2>3
      <4> QED
        BY <4>2, <4>3
    <3>2. CASE j # i
      BY <3>2, <1>6, <2>1, <2>2 DEF MapsInv
    <3> QED
      BY <3>1, <3>2
  <2>7. ASSUME NEW q \in Keys, instance'[q] # Nobody
        PROVE  (Users(instance[q]) # {} /\ allocator[instance[q]].key = q)'
    <3>1. instance'[q] = instance[q] /\ instance[q] \in Handles
      BY <2>1, <2>7, <1>3 DEF HandleOrNone
    <3>2. Users(instance[q]) # {} /\ allocator[instance[q]].key = q
      BY <2>7, <3>1 DEF MapsInv
    <3> QED
      BY <3>1, <3>2, <1>4, <1>6, <1>10, <2>4
  <2>8. MapsInv'
    BY <1>12, <2>6, <2>7 DEF MapsInv
  <2>9. allocator' \in [Handles -> Allocators] /\ instance' \in [Keys -> HandleOrNone]
    BY <2>1, <2>3, <1>3
  <2>10. \A j \in Handles : allocator'[j].space = allocator[j].space
    BY <2>2, <2>3
  <2> QED
    BY <2>8, <2>9, <2>10, <1>0, <1>1, <1>3, <1>5 DEF HandleOrNone
<1> QED
  BY <1>9, <1>10
-----------------------------------------------------------------------------
(* The steps of handle_request().                                          *)

Using == {"found", "inside", "writing"}

\* A step within it leaves the maps and the clients alone.
LEMMA InnerStep ==
  ASSUME ServerInv, NEW a \in Actors, pc[a] \in Busy, NEW s \in Busy, pc' = [pc EXCEPT ![a] = s],
         UNCHANGED <<maps, req, clients, msgs, inherited>>,
         map_mutex' \in Actors \cup {Nobody}, mutex' \in [Handles -> Actors \cup {Nobody}],
         found' \in [Actors -> HandleOrNone], work' \in [Actors -> [space : Spaces, answer : Answers]],
         \A b \in Actors : b # a => found'[b] = found[b] /\ work'[b] = work[b],
         s = "writing" => Suits(req[a], work'[a].answer),
         s \in Using => req[a].type \in OnSpace /\ found'[a] \in Handles /\ handles[req[a].handle] = found'[a]
  PROVE  ServerInv'
<1>1. /\ TypeInv /\ LinkInv /\ OwnInv /\ MapsInv /\ FoundInv
      /\ UNCHANGED <<next_handle, handles, instance, allocator, handle, open, view, channel, queue, responses>>
  BY DEF ServerInv, maps, clients, msgs
<1>2. TypeInv'
  <2>1. pc' \in [Clients \cup {Server} -> Stages]
    BY <1>1 DEF TypeInv, TypeOK, Busy, Stages
  <2> QED
    BY <1>1, <2>1 DEF TypeInv, TypeOK
<1>7. \A b \in Actors : pc[b] = "answering" => work'[b] = work[b]
  BY DEF Busy
<1>3. LinkInv'
  BY <1>1, <1>7, InnerLink
<1>4. OwnInv'
  BY <1>1, <1>7, InnerOwn
<1>5. MapsInv'
  BY <1>1, MapsKept
<1>6. FoundInv'
  <2>1. \A b \in Actors : pc'[b] = IF b = a THEN s ELSE pc[b]
    BY <1>1 DEF TypeInv, TypeOK, Actors, Clients
  <2> QED
    BY <1>1, <2>1 DEF FoundInv, Using, Suits
<1> QED
  BY <1>2, <1>3, <1>4, <1>5, <1>6 DEF ServerInv

LEMMA LockMapsStep ==
  ASSUME ServerInv, NEW a \in Actors, LockMaps(a)
  PROVE  ServerInv'
<1>1. /\ pc[a] = "called" /\ pc' = [pc EXCEPT ![a] = "in maps"] /\ map_mutex' = a
      /\ UNCHANGED <<maps, req, clients, msgs, inherited>> /\ UNCHANGED <<mutex, found, work>>
  BY DEF LockMaps, working
<1>2. /\ mutex' \in [Handles -> Actors \cup {Nobody}] /\ found' \in [Actors -> HandleOrNone]
      /\ work' \in [Actors -> [space : Spaces, answer : Answers]]
  BY <1>1 DEF ServerInv, TypeInv, TypeOK
<1> QED
  BY <1>1, <1>2, InnerStep DEF Busy, Using

\* Find: whoever finds an allocator asked something of it, with an open handle.
LEMMA FindStep ==
  ASSUME ServerInv, NEW a \in Actors, Find(a)
  PROVE  ServerInv'
<1>1. /\ pc[a] = "in maps" /\ pc' = [pc EXCEPT ![a] = "found"] /\ map_mutex' = Nobody
      /\ req[a].type \notin {"open", "close"} /\ handles[req[a].handle] # Nobody
      /\ found' = [found EXCEPT ![a] = handles[req[a].handle]]
      /\ UNCHANGED <<maps, req, clients, msgs, inherited>> /\ UNCHANGED <<mutex, work>>
  BY DEF Find, InUse
<1>2. req[a].type \in OnSpace /\ req[a].handle \in Handles
  BY <1>1, ActorRequest DEF ServerInv, WellFormed, Busy
<1>3. handles[req[a].handle] \in Handles
  BY <1>1, <1>2 DEF ServerInv, TypeInv, TypeOK, HandleOrNone
<1>4. /\ found' \in [Actors -> HandleOrNone] /\ found'[a] = handles[req[a].handle]
      /\ \A b \in Actors : b # a => found'[b] = found[b]
  BY <1>1, <1>3 DEF ServerInv, TypeInv, TypeOK, HandleOrNone
<1>5. mutex' \in [Handles -> Actors \cup {Nobody}] /\ work' \in [Actors -> [space : Spaces, answer : Answers]]
  BY <1>1 DEF ServerInv, TypeInv, TypeOK
<1> QED
  BY <1>1, <1>2, <1>3, <1>4, <1>5, InnerStep DEF Busy

LEMMA LockAllocatorStep ==
  ASSUME ServerInv, NEW a \in Actors, LockAllocator(a)
  PROVE  ServerInv'
<1>1. /\ pc[a] = "found" /\ pc' = [pc EXCEPT ![a] = "inside"] /\ mutex' = [mutex EXCEPT ![found[a]] = a]
      /\ UNCHANGED <<maps, req, clients, msgs, inherited>> /\ UNCHANGED <<map_mutex, found, work>>
  BY DEF LockAllocator, working
<1>2. req[a].type \in OnSpace /\ found[a] \in Handles /\ handles[req[a].handle] = found[a]
  BY <1>1 DEF ServerInv, FoundInv
<1>3. /\ map_mutex' \in Actors \cup {Nobody} /\ mutex' \in [Handles -> Actors \cup {Nobody}]
      /\ found' \in [Actors -> HandleOrNone] /\ work' \in [Actors -> [space : Spaces, answer : Answers]]
  BY <1>1 DEF ServerInv, TypeInv, TypeOK
<1> QED
  BY <1>1, <1>2, <1>3, InnerStep DEF Busy

\* Compute: what is about to be answered suits the request.
LEMMA ComputeStep ==
  ASSUME ServerInv, NEW a \in Actors, Compute(a)
  PROVE  ServerInv'
<1>1. PICK w \in Outcomes(req[a], allocator[found[a]].space) : work' = [work EXCEPT ![a] = w]
  BY DEF Compute
<1>2. /\ pc[a] = "inside" /\ pc' = [pc EXCEPT ![a] = "writing"]
      /\ UNCHANGED <<maps, req, clients, msgs, inherited>> /\ UNCHANGED <<map_mutex, mutex, found>>
  BY DEF Compute
<1>3. req[a].type \in OnSpace /\ found[a] \in Handles /\ handles[req[a].handle] = found[a]
  BY <1>2 DEF ServerInv, FoundInv
<1>4. req[a] \in Requests /\ WellFormed(req[a]) /\ allocator[found[a]].space \in Spaces
  <2>1. WellFormed(req[a])
    BY <1>2, ActorRequest DEF ServerInv, Busy
  <2>2. req[a] \in Requests /\ allocator[found[a]].space \in Spaces
    BY <1>3 DEF ServerInv, TypeInv, TypeOK, Actors, Clients
  <2> QED
    BY <2>1, <2>2
<1>5. w \in [space : Spaces, answer : Answers] /\ Suits(req[a], w.answer)
  BY <1>3, <1>4, OutcomesFit
<1>6. /\ work' \in [Actors -> [space : Spaces, answer : Answers]]
      /\ work'[a] = w /\ \A b \in Actors : b # a => work'[b] = work[b]
  BY <1>1, <1>5 DEF ServerInv, TypeInv
<1>7. /\ map_mutex' \in Actors \cup {Nobody} /\ mutex' \in [Handles -> Actors \cup {Nobody}]
      /\ found' \in [Actors -> HandleOrNone]
  BY <1>2 DEF ServerInv, TypeInv, TypeOK
<1> QED
  BY <1>2, <1>3, <1>5, <1>6, <1>7, InnerStep DEF Busy

\* The end of handle_request() changes nothing for the others who use an allocator.
LEMMA DoneStep ==
  ASSUME ServerInv, NEW a \in Actors, pc[a] \in Busy, NEW answer \in Answers, Suits(req[a], answer),
         Done(a, answer), UNCHANGED msgs, UNCHANGED inherited,
         next_handle' \in 1..(MaxHandles + 1), handles' \in [Handles -> HandleOrNone],
         instance' \in [Keys -> HandleOrNone], allocator' \in [Handles -> Allocators],
         map_mutex' \in Actors \cup {Nobody}, mutex' \in [Handles -> Actors \cup {Nobody}],
         MapsInv', OwnInv',
         \A b \in Actors : b # a /\ pc[b] \in Using => handles'[req[b].handle] = handles[req[b].handle]
  PROVE  ServerInv'
<1> USE Constants
<1>1. TypeInv' /\ LinkInv'
  BY DoneType, DoneLink DEF ServerInv
<1>2. ASSUME NEW b \in Actors, pc'[b] \in Using
      PROVE  b # a /\ pc'[b] = pc[b] /\ req'[b] = req[b] /\ found'[b] = found[b] /\ work'[b] = work[b]
  <2>1. /\ pc \in [Clients \cup {Server} -> Stages] /\ req \in [Clients \cup {Server} -> Requests]
        /\ found \in [Actors -> HandleOrNone] /\ work \in [Actors -> [space : Spaces, answer : Answers]]
        /\ a \in Clients \cup {Server} /\ b \in Clients \cup {Server}
    BY DEF ServerInv, TypeInv, TypeOK, Actors
  <2>2. pc'[a] \notin Using
    BY <2>1 DEF Done, Using
  <2> QED
    BY <1>2, <2>1, <2>2 DEF Done
<1>3. FoundInv'
  <2>1. ASSUME NEW b \in Actors, pc'[b] \in Using
        PROVE  /\ req'[b].type \in OnSpace /\ found'[b] \in Handles /\ handles'[req'[b].handle] = found'[b]
               /\ pc'[b] = "writing" => Suits(req'[b], work'[b].answer)
    <3>1. b # a /\ pc'[b] = pc[b] /\ req'[b] = req[b] /\ found'[b] = found[b] /\ work'[b] = work[b]
      BY <1>2, <2>1
    <3>2. /\ req[b].type \in OnSpace /\ found[b] \in Handles /\ handles[req[b].handle] = found[b]
          /\ pc[b] = "writing" => Suits(req[b], work[b].answer)
      BY <2>1, <3>1 DEF ServerInv, FoundInv, Using
    <3>3. handles'[req[b].handle] = handles[req[b].handle]
      BY <2>1, <3>1
    <3> QED
      BY <3>1, <3>2, <3>3
  <2> QED
    BY <2>1 DEF FoundInv, Using, Suits
<1> QED
  BY <1>1, <1>3 DEF ServerInv

\* Whoever did not open has no handle it did not have.
LEMMA DoneOwn ==
  ASSUME ServerInv, NEW a \in Actors, pc[a] \in Busy, NEW answer, Done(a, answer), UNCHANGED msgs,
         req[a].type # "open", next_handle' = next_handle
  PROVE  OwnInv'
BY DoneClaims, OwnKept DEF ServerInv

\* OpenAllocator: a new handle, of nobody so far.
LEMMA OpenStep ==
  ASSUME ServerInv, NEW a \in Actors, OpenAllocator(a)
  PROVE  ServerInv'
<1> USE Constants
<1>1. /\ pc[a] = "in maps" /\ req[a].type = "open" /\ map_mutex' = Nobody /\ next_handle' = next_handle + 1
      /\ Done(a, Answer(TRUE, next_handle)) /\ UNCHANGED msgs /\ UNCHANGED <<mutex, inherited>>
  BY DEF OpenAllocator
<1>2. /\ MapsInv' /\ next_handle \in Handles /\ handles[next_handle] = Nobody
      /\ \A h \in Handles : h # next_handle => handles'[h] = handles[h]
      /\ next_handle' \in 1..(MaxHandles + 1) /\ handles' \in [Handles -> HandleOrNone]
      /\ instance' \in [Keys -> HandleOrNone] /\ allocator' \in [Handles -> Allocators]
  BY OpenMaps DEF ServerInv
<1>3. Answer(TRUE, next_handle) \in Answers /\ Answer(TRUE, next_handle).got = next_handle
  BY <1>2 DEF Answer, Answers, HandleOrNone
<1>4. Suits(req[a], Answer(TRUE, next_handle))
  BY <1>1, <1>2, <1>3 DEF Suits, OnSpace
<1>5. OwnInv'
  <2>1. \A c \in Clients, h \in Handles :
          Claims(c, h)' => Claims(c, h) \/ (c = req[a].by /\ h = next_handle)
    BY <1>1, <1>3, DoneClaims DEF ServerInv, Busy
  <2>2. ASSUME NEW c \in Clients, NEW h \in Handles, Claims(c, h) PROVE h < next_handle /\ h # next_handle
    <3>1. h < next_handle
      BY <2>2 DEF ServerInv, OwnInv
    <3> QED
      BY <3>1, <1>2
  <2>3. ASSUME NEW c \in Clients, NEW h \in Handles, Claims(c, h)' PROVE h < next_handle'
    <3>1. h < next_handle \/ h = next_handle
      BY <2>1, <2>2, <2>3
    <3>2. next_handle \in Nat /\ h \in Nat /\ next_handle' = next_handle + 1
      BY <1>1, <1>2
    <3> QED
      BY <3>1, <3>2
  <2>4. ASSUME NEW c \in Clients, NEW d \in Clients, NEW h \in Handles, Claims(c, h)', Claims(d, h)'
        PROVE  c = d
    BY <2>1, <2>2, <2>4 DEF ServerInv, OwnInv
  <2> QED
    BY <2>3, <2>4 DEF OwnInv
<1>6. \A b \in Actors : b # a /\ pc[b] \in Using => handles'[req[b].handle] = handles[req[b].handle]
  <2>1. ASSUME NEW b \in Actors, pc[b] \in Using PROVE req[b].handle \in Handles /\ req[b].handle # next_handle
    <3>1. req[b].type \in OnSpace /\ handles[req[b].handle] \in Handles
      BY <2>1 DEF ServerInv, FoundInv, Using
    <3>2. WellFormed(req[b])
      BY <2>1, ActorRequest DEF ServerInv, Using, Busy
    <3> QED
      BY <3>1, <3>2, <1>2 DEF WellFormed, OnSpace
  <2> QED
    BY <2>1, <1>2
<1>7. map_mutex' \in Actors \cup {Nobody} /\ mutex' \in [Handles -> Actors \cup {Nobody}]
  BY <1>1 DEF ServerInv, TypeInv, TypeOK
<1> QED
  BY <1>1, <1>2, <1>3, <1>4, <1>5, <1>6, <1>7, DoneStep DEF Busy

\* CloseAllocator: nobody else uses the handle, so who uses the allocator keeps it there.
LEMMA CloseStep ==
  ASSUME ServerInv, NEW a \in Actors, CloseAllocator(a)
  PROVE  ServerInv'
<1> USE Constants
<1>1. PICK answer : /\ answer \in [ok : BOOLEAN, got : {Nobody}]
                    /\ Done(a, answer)
  BY DEF CloseAllocator, Answer
<1>2. /\ pc[a] = "in maps" /\ req[a].type = "close" /\ map_mutex' = Nobody
      /\ UNCHANGED msgs /\ UNCHANGED <<next_handle, mutex, inherited>>
  BY DEF CloseAllocator
<1>3. /\ MapsInv' /\ \A g \in Handles : g # req[a].handle => handles'[g] = handles[g]
      /\ handles' \in [Handles -> HandleOrNone] /\ instance' \in [Keys -> HandleOrNone]
      /\ allocator' \in [Handles -> Allocators]
  BY CloseMaps DEF ServerInv
<1>4. answer \in Answers /\ Suits(req[a], answer)
  BY <1>1, <1>2 DEF Answers, HandleOrNone, Suits, OnSpace
<1>5. OwnInv'
  BY <1>1, <1>2, DoneOwn DEF Busy
<1>6. ASSUME NEW b \in Actors, b # a, pc[b] \in Using PROVE handles'[req[b].handle] = handles[req[b].handle]
  <2>1. req[b].type \in OnSpace
    BY <1>6 DEF ServerInv, FoundInv, Using
  <2>2. req[b].handle # req[a].handle
    BY <1>2, <1>6, <2>1, HandlesDiffer DEF ServerInv, Using, Busy, OnSpace
  <2>3. req[b].handle \in Handles
    BY <1>6, <2>1, ActorRequest DEF ServerInv, WellFormed, Using, Busy, OnSpace
  <2> QED
    BY <2>2, <2>3, <1>3
<1>7. /\ map_mutex' \in Actors \cup {Nobody} /\ mutex' \in [Handles -> Actors \cup {Nobody}]
      /\ next_handle' \in 1..(MaxHandles + 1)
  BY <1>2 DEF ServerInv, TypeInv, TypeOK
<1> QED
  BY <1>1, <1>2, <1>3, <1>4, <1>5, <1>6, <1>7, DoneStep DEF Busy

LEMMA CloseUnknownStep ==
  ASSUME ServerInv, NEW a \in Actors, CloseUnknown(a)
  PROVE  ServerInv'
<1> USE Constants
<1>1. /\ pc[a] = "in maps" /\ req[a].type = "close" /\ map_mutex' = Nobody
      /\ Done(a, Answer(FALSE, Nobody)) /\ UNCHANGED msgs /\ UNCHANGED <<mutex, inherited>>
      /\ UNCHANGED <<next_handle, handles, instance, allocator>>
  BY DEF CloseUnknown, maps
<1>2. Answer(FALSE, Nobody) \in Answers /\ Suits(req[a], Answer(FALSE, Nobody))
  BY <1>1 DEF Answer, Answers, HandleOrNone, Suits, OnSpace
<1>3. OwnInv'
  BY <1>1, DoneOwn DEF Busy
<1>4. MapsInv'
  BY <1>1, MapsKept DEF ServerInv
<1>5. /\ map_mutex' \in Actors \cup {Nobody} /\ mutex' \in [Handles -> Actors \cup {Nobody}]
      /\ next_handle' \in 1..(MaxHandles + 1) /\ handles' \in [Handles -> HandleOrNone]
      /\ instance' \in [Keys -> HandleOrNone] /\ allocator' \in [Handles -> Allocators]
  BY <1>1 DEF ServerInv, TypeInv, TypeOK, Allocators
<1> QED
  BY <1>1, <1>2, <1>3, <1>4, <1>5, DoneStep DEF Busy

\* Commit: only the space is written.
LEMMA CommitStep ==
  ASSUME ServerInv, NEW a \in Actors, Commit(a)
  PROVE  ServerInv'
<1> USE Constants
<1>1. /\ pc[a] = "writing" /\ allocator' = [allocator EXCEPT ![found[a]].space = work[a].space]
      /\ mutex' = [mutex EXCEPT ![found[a]] = Nobody]
      /\ Done(a, work[a].answer) /\ UNCHANGED msgs /\ UNCHANGED <<map_mutex, inherited>>
      /\ UNCHANGED <<next_handle, handles, instance>>
  BY DEF Commit
<1>2. req[a].type \in OnSpace /\ found[a] \in Handles /\ Suits(req[a], work[a].answer)
  BY <1>1 DEF ServerInv, FoundInv
<1>3. work[a].answer \in Answers /\ work[a].space \in Spaces /\ allocator \in [Handles -> Allocators]
  BY DEF ServerInv, TypeInv, TypeOK, Allocators
<1>4. allocator' \in [Handles -> Allocators]
  BY <1>1, <1>2, <1>3 DEF Allocators
<1>5. \A i \in Handles : /\ allocator'[i].refcount = allocator[i].refcount
                         /\ allocator'[i].ial_refcount = allocator[i].ial_refcount
                         /\ allocator'[i].alive = allocator[i].alive
                         /\ allocator'[i].key = allocator[i].key
  BY <1>1, <1>2, <1>3 DEF Allocators
<1>6. MapsInv'
  BY <1>1, <1>5, MapsKept DEF ServerInv
<1>7. OwnInv'
  BY <1>1, <1>2, DoneOwn DEF Busy, OnSpace
<1>8. /\ map_mutex' \in Actors \cup {Nobody} /\ mutex' \in [Handles -> Actors \cup {Nobody}]
      /\ next_handle' \in 1..(MaxHandles + 1) /\ handles' \in [Handles -> HandleOrNone]
      /\ instance' \in [Keys -> HandleOrNone]
  BY <1>1, <1>2 DEF ServerInv, TypeInv, TypeOK
<1> QED
  BY <1>1, <1>2, <1>3, <1>4, <1>6, <1>7, <1>8, DoneStep DEF Busy
-----------------------------------------------------------------------------
(* The other steps.                                                        *)

\* They leave the maps and those who use an allocator alone.
LEMMA OutsideStep ==
  ASSUME ServerInv, UNCHANGED maps,
         \A b \in Actors : pc'[b] \in Using =>
           pc[b] = pc'[b] /\ req'[b] = req[b] /\ found'[b] = found[b] /\ work'[b] = work[b],
         TypeInv', LinkInv', OwnInv'
  PROVE  ServerInv'
<1>1. UNCHANGED <<next_handle, handles, instance, allocator>>
  BY DEF maps
<1>2. MapsInv'
  BY <1>1, MapsKept DEF ServerInv
<1>3. FoundInv'
  BY <1>1, FoundKept DEF ServerInv, Using
<1> QED
  BY <1>2, <1>3 DEF ServerInv

LEMMA CallStep ==
  ASSUME ServerInv, NEW c \in Clients, Call(c)
  PROVE  ServerInv'
<1> USE Constants
<1>1. PICK r \in Opens(c) \cup Closes(c) \cup Uses(c) : req' = [req EXCEPT ![c] = r]
  BY DEF Call
<1>2. r \in Requests
  BY CallRequest DEF ServerInv
<1>3. /\ pc' = [pc EXCEPT ![c] = IF c \in Threads THEN "called" ELSE "sending"]
      /\ UNCHANGED <<maps, map_mutex, mutex, found, work, clients, msgs, inherited>>
  BY DEF Call
<1>4. TypeInv'
  BY <1>1, <1>2, <1>3 DEF ServerInv, TypeInv, TypeOK, Stages, maps, clients, msgs
<1>5. \A b \in Actors : pc'[b] \in Using =>
        pc[b] = pc'[b] /\ req'[b] = req[b] /\ found'[b] = found[b] /\ work'[b] = work[b]
  BY <1>1, <1>3 DEF ServerInv, TypeInv, TypeOK, Using, Actors
<1> QED
  BY <1>3, <1>4, <1>5, CallLink, OutsideStep DEF ServerInv

LEMMA FindFailsStep ==
  ASSUME ServerInv, NEW a \in Actors, FindFails(a)
  PROVE  ServerInv'
<1> USE Constants
<1>1. /\ pc' = [pc EXCEPT ![a] = "failed"] /\ req' = [req EXCEPT ![a] = NoRequest] /\ map_mutex' = Nobody
      /\ handle' = IF a \in Clients THEN [handle EXCEPT ![a] = Nobody] ELSE handle
      /\ open' = IF a \in Clients THEN [open EXCEPT ![a] = FALSE] ELSE open
      /\ view' = IF a \in Clients THEN [view EXCEPT ![a] = {}] ELSE view
      /\ UNCHANGED <<maps, mutex, found, work, msgs, inherited>>
  BY DEF FindFails, Forgets
<1>2. NoRequest \in Requests
  BY DEF NoRequest, Requests, HandleOrNone
<1>3. TypeInv'
  <2>1. /\ handle' \in [Clients -> HandleOrNone] /\ open' \in [Clients -> BOOLEAN]
        /\ view' \in [Clients -> SUBSET (Slots \X {"allocated", "reserved"})]
        /\ \A c \in Clients : open'[c] => handle'[c] \in Handles
    BY <1>1 DEF ServerInv, TypeInv, TypeOK, HandleOrNone
  <2> QED
    BY <2>1, <1>1, <1>2 DEF ServerInv, TypeInv, TypeOK, Stages, maps, msgs
<1>4. \A b \in Actors : pc'[b] \in Using =>
        pc[b] = pc'[b] /\ req'[b] = req[b] /\ found'[b] = found[b] /\ work'[b] = work[b]
  BY <1>1 DEF ServerInv, TypeInv, TypeOK, Using, Actors
<1> QED
  BY <1>1, <1>3, <1>4, FindFailsLink, OutsideStep DEF ServerInv

\* The steps of a child.
LEMMA SendRequestStep ==
  ASSUME ServerInv, NEW c \in Children, SendRequest(c)
  PROVE  ServerInv'
<1> USE Constants
<1>1. /\ pc' = [pc EXCEPT ![c] = "waiting"] /\ queue' = Append(queue, req[c])
      /\ UNCHANGED <<maps, map_mutex, mutex, working, clients, channel, responses, inherited>>
  BY DEF SendRequest
<1>2. queue' \in Seq(Requests)
  BY <1>1, SentQueue DEF ServerInv, TypeInv
<1>3. TypeInv'
  BY <1>1, <1>2 DEF ServerInv, TypeInv, TypeOK, Stages, maps, clients, working
<1>4. \A b \in Actors : pc'[b] \in Using =>
        pc[b] = pc'[b] /\ req'[b] = req[b] /\ found'[b] = found[b] /\ work'[b] = work[b]
  BY <1>1 DEF ServerInv, TypeInv, TypeOK, Using, Actors, working
<1> QED
  BY <1>1, <1>3, <1>4, SendRequestLink, OutsideStep DEF ServerInv

LEMMA ReceiveResponseStep ==
  ASSUME ServerInv, NEW c \in Children, ReceiveResponse(c)
  PROVE  ServerInv'
<1> USE Constants
<1>1. PICK m \in responses :
        m.tid = c /\ responses' = responses \ {m} /\ Learns(c, req[c], m.answer)
  BY DEF ReceiveResponse
<1>2. /\ pc' = [pc EXCEPT ![c] = "idle"] /\ req' = [req EXCEPT ![c] = NoRequest]
      /\ UNCHANGED <<maps, map_mutex, mutex, found, work, channel, queue, inherited>> /\ pc[c] = "waiting"
  BY DEF ReceiveResponse
<1>3. WellFormed(req[c]) /\ Suits(req[c], m.answer)
  BY <1>1, <1>2 DEF ServerInv, LinkInv, Asked, Asks, Answered
<1>4. /\ handle' \in [Clients -> HandleOrNone] /\ open' \in [Clients -> BOOLEAN]
      /\ view' \in [Clients -> SUBSET (Slots \X {"allocated", "reserved"})]
      /\ \A d \in Clients : open'[d] => handle'[d] \in Handles
  BY <1>1, <1>3, LearnsType DEF ServerInv
<1>5. NoRequest \in Requests
  BY DEF NoRequest, Requests, HandleOrNone
<1>6. TypeInv'
  BY <1>1, <1>2, <1>4, <1>5 DEF ServerInv, TypeInv, TypeOK, Stages, maps
<1>7. \A b \in Actors : pc'[b] \in Using =>
        pc[b] = pc'[b] /\ req'[b] = req[b] /\ found'[b] = found[b] /\ work'[b] = work[b]
  BY <1>2 DEF ServerInv, TypeInv, TypeOK, Using, Actors
<1> QED
  BY <1>2, <1>6, <1>7, ReceiveResponseLink, OutsideStep DEF ServerInv

LEMMA ChannelGoneStep ==
  ASSUME ServerInv, NEW c \in Children, ChannelGone(c)
  PROVE  ServerInv'
<1> USE Constants
<1>1. /\ pc' = [pc EXCEPT ![c] = "exited"] /\ req' = [req EXCEPT ![c] = NoRequest]
      /\ handle' = [handle EXCEPT ![c] = Nobody] /\ open' = [open EXCEPT ![c] = FALSE]
      /\ view' = [view EXCEPT ![c] = {}]
      /\ UNCHANGED <<maps, map_mutex, mutex, found, work, msgs, inherited>>
  BY DEF ChannelGone, Forgets
<1>2. NoRequest \in Requests
  BY DEF NoRequest, Requests, HandleOrNone
<1>3. TypeInv'
  <2>1. /\ handle' \in [Clients -> HandleOrNone] /\ open' \in [Clients -> BOOLEAN]
        /\ view' \in [Clients -> SUBSET (Slots \X {"allocated", "reserved"})]
        /\ \A d \in Clients : open'[d] => handle'[d] \in Handles
    BY <1>1 DEF ServerInv, TypeInv, TypeOK, HandleOrNone
  <2> QED
    BY <2>1, <1>1, <1>2 DEF ServerInv, TypeInv, TypeOK, Stages, maps, msgs
<1>4. \A b \in Actors : pc'[b] \in Using =>
        pc[b] = pc'[b] /\ req'[b] = req[b] /\ found'[b] = found[b] /\ work'[b] = work[b]
  BY <1>1 DEF ServerInv, TypeInv, TypeOK, Using, Actors
<1> QED
  BY <1>1, <1>3, <1>4, ChannelGoneLink, OutsideStep DEF ServerInv

\* The messages of the server.
LEMMA ReceiveRequestStep ==
  ASSUME ServerInv, ReceiveRequest
  PROVE  ServerInv'
<1> USE Constants
<1>1. /\ queue # <<>> /\ queue' = Tail(queue)
      /\ \/ pc' = [pc EXCEPT ![Server] = "ended"] /\ req' = req
         \/ pc' = [pc EXCEPT ![Server] = "called"] /\ req' = [req EXCEPT ![Server] = Head(queue)]
      /\ UNCHANGED <<maps, map_mutex, mutex, found, work, clients, channel, responses, inherited>>
  BY DEF ReceiveRequest
<1>2. Head(queue) \in Requests /\ queue' \in Seq(Requests)
  BY <1>1, ReceivedQueue DEF ServerInv
<1>3. TypeInv'
  <2>1. pc' \in [Clients \cup {Server} -> Stages] /\ req' \in [Clients \cup {Server} -> Requests]
    <3>1. pc \in [Clients \cup {Server} -> Stages] /\ req \in [Clients \cup {Server} -> Requests]
      BY DEF ServerInv, TypeInv, TypeOK
    <3>2. {"ended", "called"} \subseteq Stages
      BY DEF Stages
    <3> QED
      BY <3>1, <3>2, <1>1, <1>2
  <2> QED
    BY <2>1, <1>1, <1>2 DEF ServerInv, TypeInv, TypeOK, maps, clients
<1>4. \A b \in Actors : pc'[b] \in Using =>
        pc[b] = pc'[b] /\ req'[b] = req[b] /\ found'[b] = found[b] /\ work'[b] = work[b]
  BY <1>1 DEF ServerInv, TypeInv, TypeOK, Using, Actors
<1> QED
  BY <1>1, <1>3, <1>4, ReceiveRequestLink, OutsideStep DEF ServerInv

LEMMA SendResponseStep ==
  ASSUME ServerInv, SendResponse
  PROVE  ServerInv'
<1> USE Constants
<1>1. /\ pc[Server] = "answering" /\ pc' = [pc EXCEPT ![Server] = "receiving"]
      /\ responses' = responses \cup {[tid |-> req[Server].by, answer |-> work[Server].answer]}
      /\ req' = [req EXCEPT ![Server] = NoRequest] /\ work' = [work EXCEPT ![Server] = NoWork]
      /\ UNCHANGED <<maps, map_mutex, mutex, found, clients, channel, queue, inherited>>
  BY DEF SendResponse
<1>2. NoRequest \in Requests /\ NoWork \in [space : Spaces, answer : Answers]
  BY DEF NoRequest, Requests, HandleOrNone, NoWork, NoAnswer, Answers, Empty, Spaces
<1>3. req[Server].by \in Children /\ work[Server].answer \in Answers
  BY <1>1 DEF ServerInv, LinkInv, Worked, Engaged, TypeInv, Actors
<1>4. responses' \subseteq [tid : Children, answer : Answers]
  BY <1>1, <1>3 DEF ServerInv, TypeInv
<1>5. TypeInv'
  <2>1. /\ pc' \in [Clients \cup {Server} -> Stages] /\ req' \in [Clients \cup {Server} -> Requests]
        /\ work' \in [Actors -> [space : Spaces, answer : Answers]]
    BY <1>1, <1>2 DEF ServerInv, TypeInv, TypeOK, Stages
  <2> QED
    BY <2>1, <1>1, <1>4 DEF ServerInv, TypeInv, TypeOK, maps, clients
<1>6. \A b \in Actors : pc'[b] \in Using =>
        pc[b] = pc'[b] /\ req'[b] = req[b] /\ found'[b] = found[b] /\ work'[b] = work[b]
  BY <1>1 DEF ServerInv, TypeInv, TypeOK, Using, Actors
<1> QED
  BY <1>1, <1>5, <1>6, SendResponseLink, OutsideStep DEF ServerInv

\* Whoever goes elsewhere without a request.
LEMMA MoveType ==
  ASSUME ServerInv, NEW p \in Clients \cup {Server}, NEW s \in Stages \ Using, pc' = [pc EXCEPT ![p] = s],
         UNCHANGED <<maps, map_mutex, mutex, working, clients>>,
         channel' \in {"ready", "stopping", "removed"}, queue' \in Seq(Requests),
         responses' \subseteq responses, inherited' \in [Children -> Actors \cup {Nobody}]
  PROVE  /\ TypeInv'
         /\ \A b \in Actors : pc'[b] \in Using =>
              pc[b] = pc'[b] /\ req'[b] = req[b] /\ found'[b] = found[b] /\ work'[b] = work[b]
<1>1. TypeInv'
  BY DEF ServerInv, TypeInv, TypeOK, maps, working, clients
<1>2. \A b \in Actors : pc'[b] \in Using =>
        pc[b] = pc'[b] /\ req'[b] = req[b] /\ found'[b] = found[b] /\ work'[b] = work[b]
  BY Constants DEF ServerInv, TypeInv, TypeOK, working, Actors
<1> QED
  BY <1>1, <1>2

LEMMA ServerGivesUpStep ==
  ASSUME ServerInv, ServerGivesUp
  PROVE  ServerInv'
<1>1. /\ pc' = [pc EXCEPT ![Server] = "ended"]
      /\ UNCHANGED <<maps, map_mutex, mutex, working, clients>> /\ UNCHANGED <<channel, queue, responses, inherited>>
  BY DEF ServerGivesUp, msgs
<1>2. "ended" \in Stages \ Using
  BY DEF Stages, Using
<1>3. /\ channel' \in {"ready", "stopping", "removed"} /\ queue' \in Seq(Requests)
      /\ responses' \subseteq responses /\ inherited' \in [Children -> Actors \cup {Nobody}]
  BY <1>1 DEF ServerInv, TypeInv, TypeOK
<1> QED
  BY <1>1, <1>2, <1>3, MoveType, ServerGivesUpLink, OutsideStep DEF ServerInv

LEMMA SendStopStep ==
  ASSUME ServerInv, SendStop
  PROVE  ServerInv'
<1>1. /\ pc' = [pc EXCEPT ![Main] = "stopping"] /\ channel' = "stopping" /\ queue' = Append(queue, Stop)
      /\ UNCHANGED <<maps, map_mutex, mutex, working, clients>> /\ UNCHANGED <<responses, inherited>>
  BY DEF SendStop
<1>2. "stopping" \in Stages \ Using /\ Main \in Clients
  BY Constants DEF Stages, Using
<1>3. Stop \in Requests
  BY DEF Stop, NoRequest, Requests, HandleOrNone
<1>4. queue' \in Seq(Requests)
  BY <1>1, <1>3, SentQueue DEF ServerInv
<1>5. responses' \subseteq responses /\ inherited' \in [Children -> Actors \cup {Nobody}]
  BY <1>1 DEF ServerInv, TypeInv, TypeOK
<1> QED
  BY <1>1, <1>2, <1>4, <1>5, MoveType, SendStopLink, OutsideStep DEF ServerInv

LEMMA DeinitStep ==
  ASSUME ServerInv, Deinit
  PROVE  ServerInv'
<1>1. /\ pc' = [pc EXCEPT ![Main] = "joining"] /\ channel' = "removed" /\ queue' = <<>> /\ responses' = {}
      /\ UNCHANGED <<maps, map_mutex, mutex, working, clients>> /\ UNCHANGED inherited
  BY DEF Deinit
<1>2. "joining" \in Stages \ Using /\ Main \in Clients
  BY Constants DEF Stages, Using
<1>3. queue' \in Seq(Requests) /\ inherited' \in [Children -> Actors \cup {Nobody}]
  BY <1>1 DEF ServerInv, TypeInv, TypeOK
<1> QED
  BY <1>1, <1>2, <1>3, MoveType, DeinitLink, OutsideStep DEF ServerInv

\* Fork, Detach, OpenDetached, Join.
LEMMA AsideStep ==
  ASSUME ServerInv, NEW p \in Clients, pc[p] \in Aside, NEW s \in Aside, pc' = [pc EXCEPT ![p] = s],
         UNCHANGED <<maps, map_mutex, mutex, working, clients, msgs>>,
         inherited' \in [Children -> Actors \cup {Nobody}]
  PROVE  ServerInv'
<1>1. s \in Stages \ Using
  BY DEF Stages, Using, Aside
<1>2. /\ channel' \in {"ready", "stopping", "removed"} /\ queue' \in Seq(Requests)
      /\ responses' \subseteq responses
  BY DEF ServerInv, TypeInv, TypeOK, msgs
<1>3. UNCHANGED <<req, work, handle, channel, queue, responses, next_handle>>
  BY DEF working, clients, msgs, maps
<1>4. LinkInv' /\ OwnInv'
  BY <1>3, AsideLink DEF ServerInv
<1> QED
  BY <1>1, <1>2, <1>4, MoveType, OutsideStep

-----------------------------------------------------------------------------
(* The theorems.                                                           *)

\* Nobody has a handle, or a request, when the server is started.
LEMMA InitInv == Init => ServerInv
<1> SUFFICES ASSUME Init PROVE ServerInv
  OBVIOUS
<1> USE Constants
<1>1. Gone \in Allocators /\ NoRequest \in Requests /\ NoWork \in [space : Spaces, answer : Answers]
  BY DEF Gone, Allocators, NoRequest, Requests, HandleOrNone, NoWork, NoAnswer, Answers, Empty, Spaces
<1>2. TypeInv
  <2>1. /\ next_handle \in 1..(MaxHandles + 1) /\ handles \in [Handles -> HandleOrNone]
        /\ instance \in [Keys -> HandleOrNone] /\ allocator \in [Handles -> Allocators]
        /\ map_mutex \in Actors \cup {Nobody} /\ mutex \in [Handles -> Actors \cup {Nobody}]
    BY <1>1 DEF Init, HandleOrNone
  <2>2. pc \in [Clients \cup {Server} -> Stages]
    BY DEF Init, Stages
  <2>3. /\ req \in [Clients \cup {Server} -> Requests] /\ found \in [Actors -> HandleOrNone]
        /\ work \in [Actors -> [space : Spaces, answer : Answers]]
    BY <1>1 DEF Init, HandleOrNone
  <2>4. /\ handle \in [Clients -> HandleOrNone] /\ open \in [Clients -> BOOLEAN]
        /\ view \in [Clients -> SUBSET (Slots \X {"allocated", "reserved"})]
        /\ \A c \in Clients : open[c] => handle[c] \in Handles
    BY DEF Init, HandleOrNone
  <2>5. /\ channel \in {"ready", "stopping", "removed"} /\ queue \in Seq(Requests)
        /\ responses \subseteq [tid : Children, answer : Answers]
        /\ inherited \in [Children -> Actors \cup {Nobody}]
    BY DEF Init
  <2> QED
    BY <2>1, <2>2, <2>3, <2>4, <2>5 DEF TypeInv, TypeOK, Allocators
<1>3. /\ \A p \in Clients \cup {Server} : pc[p] \in {"idle", "receiving", "unborn"}
      /\ pc[Server] = "receiving" /\ queue = <<>> /\ responses = {} /\ channel = "ready"
      /\ \A c \in Clients : handle[c] = Nobody
  BY DEF Init
<1>4. ~Engaged /\ DOMAIN queue = {}
  BY <1>3 DEF Engaged, Busy
<1>5. LinkInv
  BY <1>3, <1>4 DEF LinkInv, Asked, Queued, Worked, Answered, Removed, Busy
<1>6. OwnInv
  BY <1>3, <1>4 DEF OwnInv, Claims
<1>7. MapsInv
  <2>1. \A i \in Handles : Users(i) = {} /\ allocator[i].refcount = 0 /\ allocator[i].ial_refcount = 0
    BY DEF Init, Users, Gone
  <2>2. (\A h \in Handles : handles[h] = Nobody) /\ \A k \in Keys : instance[k] = Nobody
    BY DEF Init
  <2> QED
    BY <2>1, <2>2, FS_EmptySet DEF MapsInv
<1>8. FoundInv
  BY <1>3 DEF FoundInv, Actors, Clients
<1> QED
  BY <1>2, <1>5, <1>6, <1>7, <1>8 DEF ServerInv

LEMMA HandleRequestStep ==
  ASSUME ServerInv, NEW a \in Actors, HandleRequest(a)
  PROVE  ServerInv'
BY LockMapsStep, OpenStep, CloseStep, CloseUnknownStep, FindStep, FindFailsStep, LockAllocatorStep,
   ComputeStep, CommitStep DEF HandleRequest

LEMMA NextInv == ServerInv /\ [Next]_vars => ServerInv'
<1> SUFFICES ASSUME ServerInv, [Next]_vars PROVE ServerInv'
  OBVIOUS
<1> USE Constants
<1>1. ASSUME NEW c \in Clients, Call(c) PROVE ServerInv'
  BY <1>1, CallStep
<1>2. ASSUME NEW t \in Threads, HandleRequest(t) PROVE ServerInv'
  BY <1>2, HandleRequestStep DEF Actors
<1>3. CASE ServerStep
  BY <1>3, HandleRequestStep, ReceiveRequestStep, SendResponseStep, ServerGivesUpStep DEF ServerStep, Actors
<1>4. ASSUME NEW c \in Children, ChildStep(c) PROVE ServerInv'
  BY <1>4, SendRequestStep, ReceiveResponseStep, ChannelGoneStep DEF ChildStep
<1>5. inherited \in [Children -> Actors \cup {Nobody}] /\ map_mutex \in Actors \cup {Nobody}
  BY DEF ServerInv, TypeInv, TypeOK
<1>6. ASSUME NEW c \in Children, Fork(c) PROVE ServerInv'
  <2>1. /\ pc[c] = "unborn" /\ pc' = [pc EXCEPT ![c] = "idle"] /\ inherited' = [inherited EXCEPT ![c] = map_mutex]
        /\ UNCHANGED <<maps, map_mutex, mutex, working, clients, msgs>>
    BY <1>6 DEF Fork
  <2>2. inherited' \in [Children -> Actors \cup {Nobody}]
    BY <2>1, <1>5
  <2> QED
    BY <2>1, <2>2, AsideStep DEF Aside
<1>7. ASSUME NEW c \in Children, Detach(c) \/ OpenDetached(c) PROVE ServerInv'
  <2>1. /\ pc[c] \in {"idle", "detached"}
        /\ \/ pc' = [pc EXCEPT ![c] = "detached"]
           \/ pc' = [pc EXCEPT ![c] = "alone"]
        /\ UNCHANGED <<maps, map_mutex, mutex, working, clients, msgs>> /\ UNCHANGED inherited
    BY <1>7 DEF Detach, OpenDetached
  <2> QED
    BY <2>1, <1>5, AsideStep DEF Aside
<1>8. CASE SendStop \/ Deinit
  BY <1>8, SendStopStep, DeinitStep
<1>9. CASE Join
  <2>1. /\ pc[Main] = "joining" /\ pc' = [pc EXCEPT ![Main] = "stopped"]
        /\ UNCHANGED <<maps, map_mutex, mutex, working, clients, msgs>> /\ UNCHANGED inherited
    BY <1>9 DEF Join
  <2> QED
    BY <2>1, <1>5, AsideStep DEF Aside
<1>10. CASE UNCHANGED vars
  <2>1. UNCHANGED <<maps, map_mutex, mutex, pc, working, clients, msgs, inherited>>
    BY <1>10 DEF vars
  <2>2. TypeInv'
    BY <2>1 DEF maps, working, clients, msgs, ServerInv, TypeInv, TypeOK
  <2>3. LinkInv'
    BY <2>1 DEF working, clients, msgs, ServerInv, LinkInv, Asked, Asks, WellFormed, Queued, Waiting,
         Worked, Engaged, InQueue, Suits, Answered, Removed
  <2>4. OwnInv'
    BY <2>1 DEF maps, working, clients, msgs, ServerInv, OwnInv, Claims, Engaged
  <2> QED
    BY <2>1, <2>2, <2>3, <2>4, OutsideStep DEF working
<1> QED
  BY <1>1, <1>2, <1>3, <1>4, <1>6, <1>7, <1>8, <1>9, <1>10 DEF Next

THEOREM ServerInvariant == Spec => []ServerInv
BY InitInv, NextInv, PTL DEF Spec

\* All variables have the values the code can give them: the counters of an allocator
\* never go below zero, and what is answered is a place or a handle when it has to be.
THEOREM ServerTypes == Spec => []TypeOK
<1>1. ServerInv => TypeOK
  BY DEF ServerInv, TypeInv
<1> QED
  BY <1>1, ServerInvariant, PTL

\* An allocator that was looked up under map_mutex is there as long as it is used under
\* its own mutex: the handle in the request belongs to one client, which waits, so nobody
\* can close it, and an open handle keeps its allocator.
THEOREM FoundIsThere == Spec => []FoundIsAlive
<1>1. ServerInv => FoundIsAlive
  <2> SUFFICES ASSUME ServerInv, NEW a \in Actors, pc[a] \in Using PROVE allocator[found[a]].alive
    BY DEF FoundIsAlive, Using
  <2>1. req[a].type \in OnSpace /\ found[a] \in Handles /\ handles[req[a].handle] = found[a]
    BY DEF ServerInv, FoundInv, Using
  <2>2. req[a].handle \in Handles
    BY <2>1, ActorRequest DEF ServerInv, WellFormed, Using, Busy, OnSpace
  <2>3. req[a].handle \in Users(found[a])
    BY <2>1, <2>2 DEF Users
  <2> QED
    BY <2>1, <2>3 DEF ServerInv, MapsInv
<1> QED
  BY <1>1, ServerInvariant, PTL

-----------------------------------------------------------------------------
(***************************************************************************)
(* What a client was told it has, it has: through two kinds of mutexes,    *)
(* messages under way and the closes of others.  And all together, the     *)
(* server implements SharedSpaces.                                         *)
(***************************************************************************)

\* Whoever is inside an allocator has its mutex, and what it computed is of the space as
\* it still is.
LockInv == \A a \in Actors :
  /\ pc[a] \in {"inside", "writing"} => mutex[found[a]] = a
  /\ pc[a] = "writing" => work[a] \in Outcomes(req[a], allocator[found[a]].space)

\* Who asked nothing has no request, who is gone no handle.
RestInv == \A c \in Clients :
  /\ pc[c] \in Aside => req[c] = NoRequest
  /\ pc[c] \in {"exited", "failed"} => ~open[c]

Adds      == {"alloc", "reserve", "reserve if not allocated"}
Kinds     == {"allocated", "reserved"}
KindOf(r) == IF r.type \in {"alloc", "free"} THEN "allocated" ELSE "reserved"

\* The answers on their way to c, and whether its request has none yet.
AnswersFor(c) ==
  {x \in {work[Server].answer} : pc[Server] = "answering" /\ req[Server].by = c /\ pc[c] = "waiting"}
    \cup {m.answer : m \in {n \in responses : n.tid = c}}
Pending(c) == pc[c] # "waiting" \/ InQueue(c) \/ (pc[Server] \in Busy /\ req[Server].by = c)

\* In a space, c has the places V.
Has(c, space, V) == \A v \in V : space[v[1]] = <<c, v[2]>>
Holds(c, V) == \A v \in V : allocator[handles[handle[c]]].space[v[1]] = <<c, v[2]>>

\* What a client knows is true until it asks to change it, and will be when it is answered.
Knows(c) ==
  /\ \A x \in AnswersFor(c) : req[c].type = "open" => handles[x.got] # Nobody
  /\ open[c] /\ req[c].type # "close" =>
       /\ handles[handle[c]] # Nobody
       /\ Pending(c) \/ req[c].type \in Adds => Holds(c, view[c])
       /\ \A x \in AnswersFor(c) : Holds(c, Told(c, req[c], x))

ViewInv == LockInv /\ RestInv /\ \A c \in Clients : Knows(c)

-----------------------------------------------------------------------------
(* The functions of an allocator.                                          *)

\* They change nothing of other clients, and of their own client what they answer.
Keeps(r, space, w) ==
  /\ \A d \in Clients, s \in Slots, k \in Kinds :
       d # r.by /\ space[s] = <<d, k>> => w.space[s] = <<d, k>>
  /\ r.type \in Adds => \A s \in Slots, k \in Kinds : space[s] = <<r.by, k>> => w.space[s] = <<r.by, k>>
  /\ ~w.answer.ok => w.space = space
  /\ w.answer.ok => w.answer.got \in Slots
  /\ w.answer.ok /\ r.type \in Adds => w.space[w.answer.got] = <<r.by, KindOf(r)>>
  /\ w.answer.ok /\ r.type \notin Adds => /\ space[w.answer.got] = <<r.by, KindOf(r)>>
       /\ \A s \in Slots : s # w.answer.got => w.space[s] = space[s]

LEMMA OutcomesKeep ==
  ASSUME NEW r, WellFormed(r), r.type \in OnSpace, NEW space \in Spaces, NEW w \in Outcomes(r, space)
  PROVE  Keeps(r, space, w)
<1> USE DEF Keeps
<1>1. \A d \in Clients, k \in Kinds : <<d, k>> # Nobody
  <2>1. Nobody \notin Owners
    BY AllocatorServerAssumption DEF AllocatorServerAssumption
  <2>2. \A d \in Clients, k \in Kinds : <<d, k>> \in Owners
    BY DEF Owners, Kinds
  <2> QED
    BY <2>1, <2>2
<1>2. r.by \in Clients /\ KindOf(r) \in Kinds
  BY DEF WellFormed, KindOf, Kinds
<1>3. \A s \in Slots : \A o : /\ Writes(space, s, o, s).space = [space EXCEPT ![s] = o]
                                /\ Writes(space, s, o, s).answer.ok = TRUE /\ Writes(space, s, o, s).answer.got = s
  BY DEF Writes, Answer
<1>5. CASE w = Refuses(space)
  <2>1. w.space = space /\ w.answer.ok = FALSE
    BY <1>5 DEF Refuses, Answer
  <2> QED
    BY <2>1
<1>6. CASE r.type = "alloc" /\ \E s \in Allocated(space, r.by) : w = [space |-> space, answer |-> Answer(TRUE, s)]
  <2>1. PICK s \in Slots : /\ space[s] = <<r.by, "allocated">> /\ w.space = space
                           /\ w.answer.ok = TRUE /\ w.answer.got = s
    BY <1>6 DEF Allocated, Answer
  <2> QED
    BY <1>6, <2>1 DEF Adds, KindOf
<1>7. CASE r.type \in Adds /\ \E s \in Slots : space[s] = Nobody /\ w = Writes(space, s, <<r.by, KindOf(r)>>, s)
  <2>0. PICK s \in Slots : space[s] = Nobody /\ w = Writes(space, s, <<r.by, KindOf(r)>>, s)
    BY <1>7
  <2>1. /\ space[s] = Nobody /\ w.space = [space EXCEPT ![s] = <<r.by, KindOf(r)>>]
        /\ w.answer.ok = TRUE /\ w.answer.got = s
    BY <1>3, <2>0
  <2>2. \A t \in Slots : w.space[t] = IF t = s THEN <<r.by, KindOf(r)>> ELSE space[t]
    BY <2>1 DEF Spaces
  <2>3. \A d \in Clients, t \in Slots, k \in Kinds : space[t] = <<d, k>> => w.space[t] = <<d, k>>
    BY <1>1, <2>1, <2>2
  <2> QED
    BY <1>2, <1>7, <2>1, <2>2, <2>3
<1>8. CASE r.type \notin Adds /\ \E s \in Slots : space[s] = <<r.by, KindOf(r)>> /\ w = Writes(space, s, Nobody, s)
  <2>0. PICK s \in Slots : space[s] = <<r.by, KindOf(r)>> /\ w = Writes(space, s, Nobody, s)
    BY <1>8
  <2>1. /\ space[s] = <<r.by, KindOf(r)>> /\ w.space = [space EXCEPT ![s] = Nobody]
        /\ w.answer.ok = TRUE /\ w.answer.got = s
    BY <1>3, <2>0
  <2>2. \A t \in Slots : w.space[t] = IF t = s THEN Nobody ELSE space[t]
    BY <2>1 DEF Spaces
  <2>3. \A d \in Clients, t \in Slots, k \in Kinds : d # r.by /\ space[t] = <<d, k>> => w.space[t] = <<d, k>>
    BY <2>1, <2>2
  <2> QED
    BY <1>8, <2>1, <2>2, <2>3
<1>9. r.type \in OnPlace => r.slot \in Slots
  BY DEF WellFormed
<1>10. CASE r.type = "alloc"
  <2>1. \/ w = Refuses(space)
        \/ \E s \in Allocated(space, r.by) : w = [space |-> space, answer |-> Answer(TRUE, s)]
        \/ \E s \in Unused(space) : w = Writes(space, s, <<r.by, "allocated">>, s)
    BY <1>10 DEF Outcomes
  <2>2. r.type \in Adds /\ KindOf(r) = "allocated" /\ \A s \in Unused(space) : s \in Slots /\ space[s] = Nobody
    BY <1>10 DEF Adds, KindOf, Unused
  <2> QED
    BY <1>10, <2>1, <2>2, <1>5, <1>6, <1>7
<1>11. CASE r.type = "free"
  <2>1. \/ w = Refuses(space)
        \/ \E s \in Allocated(space, r.by) : w = Writes(space, s, Nobody, s)
    BY <1>11 DEF Outcomes
  <2>2. /\ r.type \notin Adds /\ KindOf(r) = "allocated"
        /\ \A s \in Allocated(space, r.by) : s \in Slots /\ space[s] = <<r.by, "allocated">>
    BY <1>11 DEF Adds, KindOf, Allocated
  <2> QED
    BY <2>1, <2>2, <1>5, <1>8
<1>12. CASE r.type \in {"reserve", "reserve if not allocated"}
  <2>1. w = Refuses(space) \/ w = Reserve(r, space)
    BY <1>12 DEF Outcomes
  <2>2. r.type \in Adds /\ KindOf(r) = "reserved" /\ r.slot \in Slots
    BY <1>9, <1>12 DEF Adds, KindOf, OnPlace
  <2>3. w = Refuses(space) \/ (space[r.slot] = Nobody /\ w = Writes(space, r.slot, <<r.by, "reserved">>, r.slot))
    BY <2>1 DEF Reserve
  <2> QED
    BY <2>2, <2>3, <1>5, <1>7
<1>13. CASE r.type = "unreserve"
  <2>1. \/ w = Refuses(space)
        \/ space[r.slot] = <<r.by, "reserved">> /\ w = Writes(space, r.slot, Nobody, r.slot)
    BY <1>13 DEF Outcomes
  <2>2. r.type \notin Adds /\ KindOf(r) = "reserved" /\ r.slot \in Slots
    BY <1>9, <1>13 DEF Adds, KindOf, OnPlace
  <2> QED
    BY <2>1, <2>2, <1>5, <1>8
<1> QED
  BY <1>10, <1>11, <1>12, <1>13 DEF OnSpace

\* If what a client knew was true, what it will know is.
LEMMA ToldHolds ==
  ASSUME TypeInv, NEW c \in Clients, NEW r, WellFormed(r), r.type \in OnSpace, r.by = c,
         NEW space \in Spaces, NEW w \in Outcomes(r, space), Has(c, space, view[c])
  PROVE  /\ Has(c, w.space, Told(c, r, w.answer))
         /\ r.type \in Adds => Has(c, w.space, view[c])
<1> USE DEF Has
<1>a. Keeps(r, space, w)
  BY OutcomesKeep
<1>0. /\ r.type \in Adds => \A s \in Slots, k \in Kinds : space[s] = <<c, k>> => w.space[s] = <<c, k>>
      /\ ~w.answer.ok => w.space = space
      /\ w.answer.ok /\ r.type \in Adds => w.space[w.answer.got] = <<c, KindOf(r)>>
      /\ w.answer.ok /\ r.type \notin Adds => /\ space[w.answer.got] = <<c, KindOf(r)>>
           /\ \A s \in Slots : s # w.answer.got => w.space[s] = space[s]
  BY <1>a DEF Keeps
<1>1. \A v \in view[c] : v[1] \in Slots /\ v[2] \in Kinds /\ v = <<v[1], v[2]>>
  <2>1. view[c] \subseteq Slots \X Kinds
    BY DEF TypeInv, TypeOK, Kinds
  <2> QED
    BY <2>1
<1>2. r.type \in Adds => \A v \in view[c] : w.space[v[1]] = <<c, v[2]>>
  BY <1>1, <1>0
<1>3. CASE ~w.answer.ok
  <2>1. Told(c, r, w.answer) = view[c] /\ w.space = space
    BY <1>3, <1>0 DEF Told, OnSpace
  <2> QED
    BY <1>2, <2>1
<1>4. CASE w.answer.ok /\ r.type \in Adds
  <2>1. Told(c, r, w.answer) = view[c] \cup {<<w.answer.got, KindOf(r)>>}
    BY <1>4 DEF Told, Adds, KindOf
  <2>2. w.space[w.answer.got] = <<c, KindOf(r)>>
    BY <1>4, <1>0
  <2> QED
    BY <1>2, <1>4, <2>1, <2>2
<1>5. CASE w.answer.ok /\ r.type \notin Adds
  <2>1. Told(c, r, w.answer) = view[c] \ {<<w.answer.got, KindOf(r)>>}
    BY <1>5 DEF Told, Adds, KindOf, OnSpace
  <2>2. /\ space[w.answer.got] = <<c, KindOf(r)>>
        /\ \A s \in Slots : s # w.answer.got => w.space[s] = space[s]
    BY <1>5, <1>0
  <2>3. ASSUME NEW v \in view[c], v # <<w.answer.got, KindOf(r)>> PROVE w.space[v[1]] = <<c, v[2]>>
    <3>1. v[1] # w.answer.got
      BY <1>1, <2>2, <2>3
    <3> QED
      BY <1>1, <2>2, <3>1
  <2> QED
    BY <1>5, <2>1, <2>3
<1> QED
  BY <1>3, <1>4, <1>5

-----------------------------------------------------------------------------
(* What a client knows.                                                    *)

\* Answers go to children that wait, and whose request is nowhere any more.
LEMMA AnswersType ==
  ASSUME TypeInv, LinkInv, NEW c \in Clients, NEW x \in AnswersFor(c)
  PROVE  /\ Waiting(c) /\ Asks(c) /\ Suits(req[c], x) /\ ~Pending(c)
         /\ pc[Server] \in Busy => req[Server].by # c
<1>1. CASE pc[Server] = "answering" /\ req[Server].by = c /\ pc[c] = "waiting" /\ x = work[Server].answer
  <2>1. Engaged
    BY <1>1 DEF Engaged
  <2>2. Waiting(c) /\ req[c] = req[Server] /\ Suits(req[Server], x) /\ ~InQueue(c)
    BY <1>1, <2>1 DEF LinkInv, Worked
  <2> QED
    BY <1>1, <2>2 DEF Pending, Busy, LinkInv, Asked
<1>2. CASE \E m \in responses : m.tid = c /\ x = m.answer
  <2>1. Waiting(c) /\ Suits(req[c], x) /\ ~InQueue(c) /\ (Engaged => req[Server].by # c)
    BY <1>2 DEF LinkInv, Answered
  <2> QED
    BY <2>1 DEF Pending, Waiting, Engaged, LinkInv, Asked
<1> QED
  BY <1>1, <1>2 DEF AnswersFor

\* A client to which nothing comes back, and whose places and handle stay as they are.
LEMMA KnowsKept ==
  ASSUME ServerInv, NEW c \in Clients, Knows(c), req'[c] = req[c],
         open'[c] => open[c] /\ handle'[c] = handle[c] /\ view'[c] = view[c],
         Pending(c)' => Pending(c), AnswersFor(c)' \subseteq AnswersFor(c),
         \A x \in AnswersFor(c) :
           req[c].type = "open" /\ handles[x.got] # Nobody => handles'[x.got] = handles[x.got],
         open[c] /\ req[c].type # "close" => handles'[handle[c]] = handles[handle[c]],
         open[c] /\ req[c].type # "close" => \A s \in Slots, k \in Kinds :
           allocator[handles[handle[c]]].space[s] = <<c, k>> => allocator'[handles[handle[c]]].space[s] = <<c, k>>
  PROVE  Knows(c)'
<1>1. \A x \in AnswersFor(c)' : req'[c].type = "open" => handles'[x.got] # Nobody
  BY DEF Knows
<1>2. ASSUME open'[c], req[c].type # "close"
      PROVE  /\ handles'[handle'[c]] # Nobody
             /\ Pending(c)' \/ req'[c].type \in Adds => Holds(c, view[c])'
             /\ \A x \in AnswersFor(c)' : Holds(c, Told(c, req[c], x))'
  <2>1. open[c] /\ handle'[c] = handle[c] /\ view'[c] = view[c] /\ handles'[handle[c]] = handles[handle[c]]
    BY <1>2
  <2>2. \A V \in SUBSET (Slots \X Kinds) : Holds(c, V) =>
          \A v \in V : allocator'[handles'[handle'[c]]].space[v[1]] = <<c, v[2]>>
    BY <1>2, <2>1 DEF Holds
  <2>3. view[c] \in SUBSET (Slots \X Kinds)
    BY DEF ServerInv, TypeInv, TypeOK, Kinds
  <2>4. ASSUME NEW x \in AnswersFor(c)
        PROVE  Told(c, req[c], x) \in SUBSET (Slots \X Kinds) /\ Told(c, req[c], x)' = Told(c, req[c], x)
    <3>1. Told(c, req[c], x) \in SUBSET (Slots \X Kinds)
      BY AnswersType, ToldType DEF ServerInv, Asks, Kinds
    <3>2. Told(c, req[c], x)' = Told(c, req[c], x)
      BY <2>1 DEF Told
    <3> QED
      BY <3>1, <3>2
  <2>5. Pending(c)' \/ req'[c].type \in Adds => Holds(c, view[c])'
    BY <1>2, <2>1, <2>2, <2>3 DEF Knows, Holds
  <2>6. ASSUME NEW x \in AnswersFor(c)' PROVE Holds(c, Told(c, req[c], x))'
    <3>1. x \in AnswersFor(c) /\ Holds(c, Told(c, req[c], x))
      BY <1>2, <2>1 DEF Knows
    <3> QED
      BY <3>1, <2>2, <2>4 DEF Holds
  <2>7. handles'[handle'[c]] # Nobody
    BY <1>2, <2>1 DEF Knows
  <2> QED
    BY <2>5, <2>6, <2>7
<1> QED
  BY <1>1, <1>2 DEF Knows

LEMMA QuietKnows ==
  ASSUME ServerInv, NEW c \in Clients, Knows(c), UNCHANGED maps, req'[c] = req[c],
         open'[c] => open[c] /\ handle'[c] = handle[c] /\ view'[c] = view[c],
         Pending(c)' => Pending(c), AnswersFor(c)' \subseteq AnswersFor(c)
  PROVE  Knows(c)'
BY KnowsKept DEF maps

\* Who does not come inside an allocator.
LEMMA QuietLock ==
  ASSUME LockInv, UNCHANGED <<maps, mutex>>,
         \A b \in Actors : pc'[b] \in Using =>
           pc[b] = pc'[b] /\ req'[b] = req[b] /\ found'[b] = found[b] /\ work'[b] = work[b]
  PROVE  LockInv'
BY DEF LockInv, maps, Using

-----------------------------------------------------------------------------
(* The steps of handle_request().                                          *)

LEMMA InnerView ==
  ASSUME ServerInv, ViewInv, NEW a \in Actors, pc[a] \in Busy, NEW s \in Busy, pc' = [pc EXCEPT ![a] = s],
         UNCHANGED <<maps, req, clients, msgs>>,
         \A b \in Actors : pc[b] = "answering" => work'[b] = work[b], LockInv'
  PROVE  ViewInv'
<1> USE Constants
<1>1. \A p \in Clients \cup {Server} : pc'[p] = IF p = a THEN s ELSE pc[p]
  BY DEF ServerInv, TypeInv, TypeOK
<1>2. RestInv'
  BY <1>1 DEF ViewInv, RestInv, Aside, Busy, clients
<1>3. ASSUME NEW c \in Clients PROVE Knows(c)'
  <2>1. pc'[c] = "waiting" <=> pc[c] = "waiting"
    BY <1>1 DEF Busy
  <2>2. /\ pc'[Server] \in Busy <=> pc[Server] \in Busy
        /\ pc'[Server] = "answering" <=> pc[Server] = "answering"
    BY <1>1 DEF Busy
  <2>3. Pending(c)' <=> Pending(c)
    BY <2>1, <2>2 DEF Pending, InQueue, msgs
  <2>4. pc[Server] = "answering" => work'[Server] = work[Server]
    BY DEF Actors
  <2>5. AnswersFor(c)' = AnswersFor(c)
    BY <2>1, <2>2, <2>4 DEF AnswersFor, msgs
  <2> QED
    BY <2>3, <2>5, QuietKnows DEF ViewInv, clients
<1> QED
  BY <1>2, <1>3 DEF ViewInv

LEMMA LockMapsView ==
  ASSUME ServerInv, ViewInv, NEW a \in Actors, LockMaps(a)
  PROVE  ViewInv'
<1>1. /\ pc[a] = "called" /\ pc' = [pc EXCEPT ![a] = "in maps"]
      /\ UNCHANGED <<maps, req, clients, msgs>> /\ UNCHANGED <<mutex, found, work>>
  BY DEF LockMaps, working
<1>2. \A b \in Actors : pc'[b] \in Using => pc[b] = pc'[b]
  BY <1>1 DEF Using, ServerInv, TypeInv, TypeOK, Actors, Clients
<1>3. LockInv'
  BY <1>1, <1>2, QuietLock DEF ViewInv
<1> QED
  BY <1>1, <1>3, InnerView DEF Busy

LEMMA FindView ==
  ASSUME ServerInv, ViewInv, NEW a \in Actors, Find(a)
  PROVE  ViewInv'
<1>1. /\ pc[a] = "in maps" /\ pc' = [pc EXCEPT ![a] = "found"]
      /\ found' = [found EXCEPT ![a] = handles[req[a].handle]]
      /\ UNCHANGED <<maps, req, clients, msgs>> /\ UNCHANGED <<mutex, work>>
  BY DEF Find, InUse
<1>2. \A b \in Actors : /\ pc'[b] = "found" \/ pc'[b] = pc[b]
                        /\ b = a => pc'[b] = "found"
                        /\ b # a => found'[b] = found[b]
  BY <1>1 DEF ServerInv, TypeInv, TypeOK, Actors, Clients
<1>3. LockInv'
  <2>1. ASSUME NEW b \in Actors, pc'[b] \in {"inside", "writing"} PROVE mutex'[found'[b]] = b
    <3>0. UNCHANGED mutex
      BY <1>1
    <3>1. b # a /\ pc[b] \in {"inside", "writing"} /\ found'[b] = found[b] /\ mutex' = mutex
      BY <2>1, <3>0, <1>2
    <3> QED
      BY <3>1 DEF ViewInv, LockInv
  <2>2. ASSUME NEW b \in Actors, pc'[b] = "writing"
        PROVE  work'[b] \in Outcomes(req'[b], allocator'[found'[b]].space)
    <3>0. UNCHANGED <<work, req, allocator>>
      BY <1>1 DEF maps
    <3>1. /\ b # a /\ pc[b] = "writing" /\ found'[b] = found[b]
          /\ work' = work /\ req' = req /\ allocator' = allocator
      BY <2>2, <3>0, <1>2
    <3> QED
      BY <3>1 DEF ViewInv, LockInv
  <2> QED
    BY <2>1, <2>2 DEF LockInv
<1> QED
  BY <1>1, <1>3, InnerView DEF Busy

\* LockAllocator: nobody was inside.
LEMMA LockAllocatorView ==
  ASSUME ServerInv, ViewInv, NEW a \in Actors, LockAllocator(a)
  PROVE  ViewInv'
<1>1. /\ pc[a] = "found" /\ mutex[found[a]] = Nobody /\ mutex' = [mutex EXCEPT ![found[a]] = a]
      /\ pc' = [pc EXCEPT ![a] = "inside"]
      /\ UNCHANGED <<maps, req, clients, msgs>> /\ UNCHANGED <<found, work>>
  BY DEF LockAllocator, working
<1>2. \A b \in Actors : pc'[b] = IF b = a THEN "inside" ELSE pc[b]
  BY <1>1 DEF ServerInv, TypeInv, TypeOK, Actors, Clients
<1>3. found[a] \in Handles /\ Nobody \notin Actors
  BY <1>1, Constants DEF ServerInv, FoundInv, Actors
<1>4. \A h \in HandleOrNone : mutex'[h] = IF h = found[a] THEN a ELSE mutex[h]
  BY <1>1, <1>3 DEF ServerInv, TypeInv, TypeOK
<1>5. LockInv'
  <2>1. ASSUME NEW b \in Actors, pc'[b] \in {"inside", "writing"} PROVE mutex'[found'[b]] = b
    <3>1. CASE b = a
      BY <3>1, <1>1, <1>3, <1>4 DEF HandleOrNone
    <3>2. CASE b # a
      <4>1. mutex[found[b]] = b /\ found[b] \in Handles
        BY <2>1, <3>2, <1>2 DEF ViewInv, LockInv, ServerInv, FoundInv
      <4> QED
        BY <4>1, <1>1, <1>3, <1>4 DEF HandleOrNone
    <3> QED
      BY <3>1, <3>2
  <2>2. ASSUME NEW b \in Actors, pc'[b] = "writing"
        PROVE  work'[b] \in Outcomes(req'[b], allocator'[found'[b]].space)
    BY <2>2, <1>1, <1>2 DEF ViewInv, LockInv, maps
  <2> QED
    BY <2>1, <2>2 DEF LockInv
<1> QED
  BY <1>1, <1>5, InnerView DEF Busy

LEMMA ComputeView ==
  ASSUME ServerInv, ViewInv, NEW a \in Actors, Compute(a)
  PROVE  ViewInv'
<1>1. PICK w \in Outcomes(req[a], allocator[found[a]].space) : work' = [work EXCEPT ![a] = w]
  BY DEF Compute
<1>2. /\ pc[a] = "inside" /\ pc' = [pc EXCEPT ![a] = "writing"]
      /\ UNCHANGED <<maps, req, clients, msgs>> /\ UNCHANGED <<mutex, found>>
  BY DEF Compute
<1>3. \A b \in Actors : /\ pc'[b] = IF b = a THEN "writing" ELSE pc[b]
                        /\ work'[b] = IF b = a THEN w ELSE work[b]
  BY <1>1, <1>2 DEF ServerInv, TypeInv, TypeOK, Actors, Clients
<1>4. LockInv'
  <2>1. ASSUME NEW b \in Actors, pc'[b] \in {"inside", "writing"} PROVE mutex'[found'[b]] = b
    BY <2>1, <1>2, <1>3 DEF ViewInv, LockInv
  <2>2. ASSUME NEW b \in Actors, pc'[b] = "writing"
        PROVE  work'[b] \in Outcomes(req'[b], allocator'[found'[b]].space)
    BY <2>2, <1>1, <1>2, <1>3 DEF ViewInv, LockInv, maps
  <2> QED
    BY <2>1, <2>2 DEF LockInv
<1>5. \A b \in Actors : pc[b] = "answering" => work'[b] = work[b]
  BY <1>2, <1>3
<1> QED
  BY <1>2, <1>4, <1>5, InnerView DEF Busy

-----------------------------------------------------------------------------
(* The end of handle_request().                                            *)

\* It changes nothing of other clients, and of other threads that use an allocator.
LEMMA DoneOthers ==
  ASSUME ServerInv, NEW a \in Actors, pc[a] \in Busy, NEW answer, Done(a, answer), UNCHANGED msgs
  PROVE  /\ \A b \in Actors : b # a =>
              pc'[b] = pc[b] /\ req'[b] = req[b] /\ found'[b] = found[b] /\ work'[b] = work[b]
         /\ pc'[a] \in {"idle", "answering"}
         /\ \A c \in Clients : c # req[a].by =>
              /\ pc'[c] = pc[c] /\ req'[c] = req[c]
              /\ open'[c] = open[c] /\ handle'[c] = handle[c] /\ view'[c] = view[c]
              /\ Pending(c)' => Pending(c)
              /\ AnswersFor(c)' \subseteq AnswersFor(c)
<1> USE Constants
<1>1. CASE a = Server
  <2>1. /\ pc' = [pc EXCEPT ![Server] = "answering"]
        /\ work' = [work EXCEPT ![Server] = [space |-> Empty, answer |-> answer]]
        /\ found' = [found EXCEPT ![Server] = Nobody]
        /\ UNCHANGED <<req, handle, open, view, queue, responses>>
    BY <1>1 DEF Done, clients, msgs
  <2>2. /\ pc'[Server] = "answering"
        /\ \A b \in Clients \cup {Server} : b # Server => pc'[b] = pc[b]
        /\ \A b \in Actors : b # Server => found'[b] = found[b] /\ work'[b] = work[b]
    BY <2>1 DEF ServerInv, TypeInv, TypeOK
  <2>3. ASSUME NEW c \in Clients, c # req[a].by
        PROVE  (Pending(c)' => Pending(c)) /\ AnswersFor(c)' \subseteq AnswersFor(c)
    <3>1. pc'[c] = pc[c] /\ pc'[Server] \notin Busy /\ req'[Server].by # c
      BY <1>1, <2>1, <2>2, <2>3 DEF Busy
    <3>2. Pending(c)' => Pending(c)
      BY <2>1, <3>1 DEF Pending, InQueue
    <3>3. AnswersFor(c)' \subseteq AnswersFor(c)
      BY <2>1, <3>1 DEF AnswersFor
    <3> QED
      BY <3>2, <3>3
  <2> QED
    BY <1>1, <2>1, <2>2, <2>3 DEF Actors
<1>2. CASE a # Server
  <2>0. a \in Threads /\ a \in Clients /\ req[a].by = a
    BY <1>2, ActorRequest DEF Actors, ServerInv
  <2>1. /\ pc' = [pc EXCEPT ![a] = "idle"] /\ work' = [work EXCEPT ![a] = NoWork]
        /\ found' = [found EXCEPT ![a] = Nobody] /\ req' = [req EXCEPT ![a] = NoRequest]
        /\ Learns(a, req[a], answer) /\ UNCHANGED <<queue, responses>>
    BY <1>2 DEF Done, msgs
  <2>2. /\ pc'[a] = "idle"
        /\ \A b \in Clients \cup {Server} : b # a => pc'[b] = pc[b] /\ req'[b] = req[b]
        /\ \A b \in Actors : b # a => found'[b] = found[b] /\ work'[b] = work[b]
    BY <2>0, <2>1 DEF ServerInv, TypeInv, TypeOK
  <2>3. \A c \in Clients : c # a => open'[c] = open[c] /\ handle'[c] = handle[c] /\ view'[c] = view[c]
    BY <2>1 DEF Learns, ServerInv, TypeInv, TypeOK
  <2>4. ASSUME NEW c \in Clients, c # a
        PROVE  (Pending(c)' => Pending(c)) /\ AnswersFor(c)' \subseteq AnswersFor(c)
    <3>1. /\ pc'[c] = pc[c] /\ pc'[Server] = pc[Server] /\ req'[Server] = req[Server]
          /\ work'[Server] = work[Server]
      BY <1>2, <2>2, <2>4 DEF Actors
    <3>2. Pending(c)' => Pending(c)
      BY <2>1, <3>1 DEF Pending, InQueue
    <3>3. AnswersFor(c)' \subseteq AnswersFor(c)
      BY <2>1, <3>1 DEF AnswersFor
    <3> QED
      BY <3>2, <3>3
  <2> QED
    BY <2>0, <2>2, <2>3, <2>4 DEF Actors
<1> QED
  BY <1>1, <1>2

\* A step that ends somebody else's request takes nothing from c.
Spared(c) ==
  /\ \A x \in AnswersFor(c) :
       req[c].type = "open" /\ handles[x.got] # Nobody => handles'[x.got] = handles[x.got]
  /\ open[c] /\ req[c].type # "close" =>
       /\ handles'[handle[c]] = handles[handle[c]]
       /\ \A s \in Slots, k \in Kinds :
            allocator[handles[handle[c]]].space[s] = <<c, k>> =>
              allocator'[handles[handle[c]]].space[s] = <<c, k>>

\* Of the client whose request it is, it makes what is answered true.
LEMMA DoneKnows ==
  ASSUME ServerInv, RestInv, NEW a \in Actors, pc[a] \in Busy, NEW answer, Done(a, answer), UNCHANGED msgs,
         NEW c \in Clients, c = req[a].by,
         req[a].type = "open" => handles'[answer.got] # Nobody,
         open[c] /\ req[a].type # "close" =>
           /\ handles'[handle[c]] # Nobody
           /\ req[a].type \in Adds =>
                \A v \in view[c] : allocator'[handles'[handle[c]]].space[v[1]] = <<c, v[2]>>
           /\ \A v \in Told(c, req[a], answer) : allocator'[handles'[handle[c]]].space[v[1]] = <<c, v[2]>>
  PROVE  Knows(c)'
<1> USE Constants
<1>1. CASE a = Server
  <2>1. /\ pc' = [pc EXCEPT ![Server] = "answering"] /\ work'[Server].answer = answer
        /\ UNCHANGED <<req, handle, open, view, queue, responses>>
    <3>1. /\ pc' = [pc EXCEPT ![Server] = "answering"]
          /\ work' = [work EXCEPT ![Server] = [space |-> Empty, answer |-> answer]]
          /\ UNCHANGED <<req, handle, open, view, queue, responses>>
      BY <1>1 DEF Done, clients, msgs
    <3>2. Server \in DOMAIN work
      BY DEF ServerInv, TypeInv, Actors
    <3>3. work'[Server] = [space |-> Empty, answer |-> answer]
      BY <3>1, <3>2
    <3>4. work'[Server].answer = answer
      <4>1. [space |-> Empty, answer |-> answer].answer = answer
        OBVIOUS
      <4> QED
        BY <3>3, <4>1, Zenon
    <3> QED
      BY <3>1, <3>4
  <2>2. pc'[c] = pc[c] /\ pc'[Server] = "answering" /\ pc'[Server] \notin Busy
    BY <2>1 DEF ServerInv, TypeInv, TypeOK, Busy
  <2>3. Engaged /\ ~InQueue(c)
    BY <1>1 DEF Engaged, ServerInv, LinkInv, Worked
  <2>4. \A m \in responses : m.tid # c
    BY <1>1, <2>3 DEF ServerInv, LinkInv, Answered
  <2>5. AnswersFor(c)' \subseteq {answer} /\ (pc[c] # "waiting" => AnswersFor(c)' = {})
    <3>1. {n \in responses : n.tid = c} = {}
      BY <2>4
    <3>2. AnswersFor(c)' = {x \in {answer} : req[Server].by = c /\ pc'[c] = "waiting"}
      BY <2>1, <2>2, <3>1 DEF AnswersFor
    <3> QED
      BY <2>2, <3>2
  <2>6. CASE pc[c] = "waiting"
    <3>1. req[c] = req[Server]
      BY <1>1, <2>3, <2>6 DEF ServerInv, LinkInv, Worked
    <3>2. ~Pending(c)'
      BY <2>1, <2>2, <2>3, <2>6 DEF Pending, InQueue
    <3>3. \A x \in AnswersFor(c)' : req'[c].type = "open" => handles'[x.got] # Nobody
      BY <1>1, <2>1, <2>5, <3>1
    <3>4. ASSUME open'[c], req'[c].type # "close"
          PROVE  /\ handles'[handle'[c]] # Nobody
                 /\ req'[c].type \in Adds => Holds(c, view[c])'
                 /\ \A x \in AnswersFor(c)' : Holds(c, Told(c, req[c], x))'
      <4>1. Told(c, req[c], answer)' = Told(c, req[a], answer)'
        BY <1>1, <2>1, <3>1
      <4>2. open[c] /\ req[a].type # "close" /\ handle'[c] = handle[c] /\ view'[c] = view[c] /\ req'[c] = req[a]
        BY <1>1, <2>1, <3>1, <3>4
      <4>3. Holds(c, Told(c, req[c], answer))'
        <5>1. Told(c, req[a], answer)' = Told(c, req[a], answer)
          BY <2>1 DEF Told
        <5>2. \A v \in Told(c, req[a], answer) : allocator'[handles'[handle[c]]].space[v[1]] = <<c, v[2]>>
          BY <4>2
        <5>3. Told(c, req[c], answer)' = Told(c, req[a], answer)
          BY <4>1, <5>1
        <5>4. handle'[c] = handle[c]
          BY <4>2
        <5>5. \A v \in Told(c, req[c], answer)' : allocator'[handles'[handle'[c]]].space[v[1]] = <<c, v[2]>>
          BY <5>2, <5>3, <5>4
        <5> QED
          BY <5>5 DEF Holds
      <4>4. handles'[handle'[c]] # Nobody /\ (req'[c].type \in Adds => Holds(c, view[c])')
        BY <4>2 DEF Holds
      <4> QED
        BY <2>5, <4>3, <4>4
    <3> QED
      BY <3>2, <3>3, <3>4 DEF Knows
  <2>7. CASE pc[c] # "waiting"
    <3>1. pc[c] = "exited"
      BY <1>1, <2>3, <2>7 DEF ServerInv, LinkInv, Worked, Waiting
    <3>2. ~open'[c]
      BY <2>1, <3>1 DEF RestInv
    <3> QED
      BY <2>5, <2>7, <3>2 DEF Knows
  <2> QED
    BY <2>6, <2>7
<1>2. CASE a # Server
  <2>0. a \in Threads /\ c = a /\ a \notin Children /\ WellFormed(req[a])
    BY <1>2, ActorRequest DEF Actors, ServerInv
  <2>1. /\ pc' = [pc EXCEPT ![a] = "idle"] /\ req' = [req EXCEPT ![a] = NoRequest]
        /\ Learns(a, req[a], answer) /\ UNCHANGED responses
    BY <1>2 DEF Done, msgs
  <2>2. pc'[c] = "idle" /\ req'[c] = NoRequest
    BY <2>0, <2>1 DEF ServerInv, TypeInv, TypeOK
  <2>3. AnswersFor(c)' = {}
    BY <2>0, <2>1, <2>2 DEF AnswersFor, ServerInv, TypeInv
  <2>4. view'[c] = Told(c, req[a], answer)
    BY <2>0, <2>1 DEF Learns, ServerInv, TypeInv, TypeOK
  <2>5. ASSUME open'[c] PROVE handles'[handle'[c]] # Nobody /\ Holds(c, view[c])'
    <3>1. CASE req[a].type = "open"
      <4>1. handle'[c] = answer.got /\ view'[c] = {}
        BY <2>0, <2>1, <2>4, <3>1 DEF Learns, ServerInv, TypeInv, TypeOK, Told
      <4> QED
        BY <3>1, <4>1 DEF Holds
    <3>2. CASE req[a].type = "close"
      <4>1. ~open'[c]
        BY <2>0, <2>1, <3>2 DEF Learns, ServerInv, TypeInv, TypeOK
      <4> QED
        BY <2>5, <4>1
    <3>3. CASE req[a].type \notin {"open", "close"}
      <4>1. open'[c] = open[c] /\ handle'[c] = handle[c]
        BY <2>1, <3>3 DEF Learns
      <4> QED
        BY <2>4, <2>5, <3>3, <4>1 DEF Holds
    <3> QED
      BY <3>1, <3>2, <3>3
  <2> QED
    BY <2>3, <2>5 DEF Knows
<1> QED
  BY <1>1, <1>2

LEMMA DoneView ==
  ASSUME ServerInv, ViewInv, NEW a \in Actors, pc[a] \in Busy, NEW answer, Done(a, answer), UNCHANGED msgs,
         \A b \in Actors : b # a /\ pc[b] \in {"inside", "writing"} =>
           mutex'[found[b]] = b /\ allocator'[found[b]].space = allocator[found[b]].space,
         \A c \in Clients : c = req[a].by => Knows(c)',
         \A c \in Clients : c # req[a].by => Spared(c)
  PROVE  ViewInv'
<1> USE Constants
<1>0. /\ \A b \in Actors : b # a =>
           pc'[b] = pc[b] /\ req'[b] = req[b] /\ found'[b] = found[b] /\ work'[b] = work[b]
      /\ pc'[a] \in {"idle", "answering"}
      /\ \A c \in Clients : c # req[a].by =>
           /\ pc'[c] = pc[c] /\ req'[c] = req[c]
           /\ open'[c] = open[c] /\ handle'[c] = handle[c] /\ view'[c] = view[c]
           /\ Pending(c)' => Pending(c)
           /\ AnswersFor(c)' \subseteq AnswersFor(c)
  BY DoneOthers
<1>1. LockInv'
  <2>1. ASSUME NEW b \in Actors, pc'[b] \in {"inside", "writing"} PROVE mutex'[found'[b]] = b
    BY <2>1, <1>0
  <2>2. ASSUME NEW b \in Actors, pc'[b] = "writing"
        PROVE  work'[b] \in Outcomes(req'[b], allocator'[found'[b]].space)
    <3>1. /\ pc[b] = "writing" /\ req'[b] = req[b] /\ work'[b] = work[b] /\ found'[b] = found[b]
          /\ allocator'[found[b]].space = allocator[found[b]].space
      BY <2>2, <1>0
    <3> QED
      BY <3>1 DEF ViewInv, LockInv
  <2> QED
    BY <2>1, <2>2 DEF LockInv
<1>2. RestInv'
  <2>1. CASE a = Server
    <3>1. UNCHANGED <<req, open>> /\ \A c \in Clients : pc'[c] = pc[c]
      BY <2>1 DEF Done, clients, ServerInv, TypeInv, TypeOK
    <3> QED
      BY <3>1 DEF ViewInv, RestInv
  <2>2. CASE a # Server
    <3>1. a \in Threads /\ req[a].by = a
      BY <2>2, ActorRequest DEF Actors, ServerInv
    <3>2. pc' = [pc EXCEPT ![a] = "idle"] /\ req' = [req EXCEPT ![a] = NoRequest]
      BY <2>2 DEF Done
    <3>3. pc'[a] = "idle" /\ req'[a] = NoRequest
      BY <3>1, <3>2 DEF ServerInv, TypeInv, TypeOK
    <3> QED
      BY <1>0, <3>1, <3>3 DEF ViewInv, RestInv
  <2> QED
    BY <2>1, <2>2
<1>3. ASSUME NEW c \in Clients, c # req[a].by PROVE Knows(c)'
  BY <1>0, <1>3, KnowsKept DEF ViewInv, Spared
<1> QED
  BY <1>1, <1>2, <1>3 DEF ViewInv

\* An answer with a handle claims it.
LEMMA AnswersClaim ==
  ASSUME TypeInv, LinkInv, NEW c \in Clients, NEW x \in AnswersFor(c), req[c].type = "open"
  PROVE  x.got \in Handles /\ Claims(c, x.got)
<1>1. x.got \in Handles
  BY AnswersType DEF Suits
<1>2. CASE pc[Server] = "answering" /\ req[Server].by = c /\ pc[c] = "waiting" /\ x = work[Server].answer
  <2>1. Engaged
    BY <1>2 DEF Engaged
  <2>2. req[Server].type = "open"
    BY <1>2, <2>1 DEF LinkInv, Worked
  <2> QED
    BY <1>1, <1>2, <2>2 DEF Claims
<1>3. CASE \E m \in responses : m.tid = c /\ x = m.answer
  BY <1>1, <1>3 DEF Claims
<1> QED
  BY <1>2, <1>3 DEF AnswersFor

\* Who uses an allocator has an open handle of it.
LEMMA UsingHandle ==
  ASSUME ServerInv, NEW b \in Actors, pc[b] \in Using
  PROVE  /\ req[b].handle \in Handles /\ handles[req[b].handle] = found[b] /\ found[b] # Nobody
         /\ req[b].type \in OnSpace /\ req[b].type # "open" /\ pc[b] \in Busy
<1>1. pc[b] \in Busy
  BY DEF Busy, Using
<1>2. /\ req[b].type \in OnSpace /\ req[b].type # "open"
      /\ found[b] \in Handles /\ handles[req[b].handle] = found[b]
  BY DEF ServerInv, FoundInv, Using, OnSpace
<1>3. req[b].handle \in Handles
  BY <1>1, <1>2, ActorRequest DEF ServerInv, WellFormed
<1> QED
  BY <1>1, <1>2, <1>3, Constants

\* OpenAllocator: the handle is new, and who uses an allocator finds its space as it was.
LEMMA OpenView ==
  ASSUME ServerInv, ViewInv, NEW a \in Actors, OpenAllocator(a)
  PROVE  ViewInv'
<1> USE Constants
<1>1. /\ pc[a] \in Busy /\ req[a].type = "open" /\ Done(a, Answer(TRUE, next_handle))
      /\ UNCHANGED mutex /\ UNCHANGED msgs
  BY DEF OpenAllocator, Busy
<1>2. /\ next_handle \in Handles /\ handles[next_handle] = Nobody /\ handles'[next_handle] # Nobody
      /\ \A h \in Handles : h # next_handle => handles'[h] = handles[h]
      /\ \A j \in Handles : Users(j) # {} => allocator'[j].space = allocator[j].space
  BY OpenMaps DEF ServerInv
<1>3. \A h \in Handles : handles[h] # Nobody =>
        handles'[h] = handles[h] /\ allocator'[handles[h]].space = allocator[handles[h]].space
  BY <1>2, UsersOfOpen DEF ServerInv
<1>4. ASSUME NEW b \in Actors, b # a, pc[b] \in {"inside", "writing"}
      PROVE  mutex'[found[b]] = b /\ allocator'[found[b]].space = allocator[found[b]].space
  <2>1. mutex[found[b]] = b
    BY <1>4 DEF ViewInv, LockInv
  <2>2. /\ req[b].handle \in Handles /\ handles[req[b].handle] = found[b] /\ found[b] # Nobody
    BY <1>4, UsingHandle DEF Using
  <2> QED
    BY <1>1, <1>3, <2>1, <2>2
<1>5. \A c \in Clients : open[c] => handle[c] \in Handles
  BY DEF ServerInv, TypeInv
<1>6. ASSUME NEW c \in Clients, open[c], req[c].type # "close"
      PROVE  /\ handles'[handle[c]] = handles[handle[c]] /\ handles[handle[c]] # Nobody
             /\ \A s \in Slots, k \in Kinds :
                  allocator[handles[handle[c]]].space[s] = <<c, k>> =>
                    allocator'[handles[handle[c]]].space[s] = <<c, k>>
  BY <1>3, <1>5, <1>6 DEF ViewInv, Knows
<1>7. ASSUME NEW c \in Clients, c = req[a].by PROVE Knows(c)'
  <2>1. Answer(TRUE, next_handle).got = next_handle
    BY DEF Answer
  <2>2. open[c] => req[c].type = "open"
    <3>1. CASE a = Server
      <4>1. Engaged
        BY <1>1, <3>1 DEF Engaged
      <4> QED
        BY <1>1, <1>7, <3>1, <4>1 DEF ViewInv, RestInv, ServerInv, LinkInv, Worked
    <3>2. CASE a # Server
      BY <1>1, <1>7, <3>2, ActorRequest DEF Actors, ServerInv
    <3> QED
      BY <3>1, <3>2
  <2>3. open[c] => handles'[handle[c]] # Nobody
    BY <1>6, <2>2
  <2>4. PICK answer : answer = Answer(TRUE, next_handle)
    OBVIOUS
  <2>5. req[a].type \notin Adds /\ Told(c, req[a], answer) = {}
    BY <1>1 DEF Adds, Told
  <2>6. Done(a, answer) /\ handles'[answer.got] # Nobody
    BY <1>1, <1>2, <2>1, <2>4
  <2> QED
    BY <1>1, <1>7, <2>3, <2>5, <2>6, DoneKnows DEF ViewInv
<1>8. ASSUME NEW c \in Clients, c # req[a].by
      PROVE  \A x \in AnswersFor(c) :
               req[c].type = "open" /\ handles[x.got] # Nobody => handles'[x.got] = handles[x.got]
  BY <1>3, AnswersClaim DEF ServerInv
<1>9. \A c \in Clients : c # req[a].by => Spared(c)
  BY <1>6, <1>8 DEF Spared
<1> QED
  BY <1>1, <1>4, <1>7, <1>9, DoneView

\* CloseAllocator: the handle is nobody else's.
LEMMA CloseView ==
  ASSUME ServerInv, ViewInv, NEW a \in Actors, CloseAllocator(a)
  PROVE  ViewInv'
<1> USE Constants
<1> DEFINE h == req[a].handle
<1>0. ServerInv'
  BY CloseStep
<1>1. /\ pc[a] \in Busy /\ req[a].type = "close" /\ UNCHANGED mutex /\ UNCHANGED msgs
      /\ \E answer : Done(a, answer)
  BY DEF CloseAllocator, Busy
<1>2. /\ \A g \in Handles : g # h => handles'[g] = handles[g]
      /\ \A j \in Handles : Users(j)' # {} => allocator'[j].space = allocator[j].space
  BY CloseMaps DEF ServerInv
<1>3. ASSUME NEW g \in Handles, g # h, handles[g] # Nobody
      PROVE  handles'[g] = handles[g] /\ allocator'[handles[g]].space = allocator[handles[g]].space
  <2>1. handles'[g] = handles[g] /\ handles[g] \in Handles
    BY <1>2, <1>3, UsersOfOpen DEF ServerInv
  <2>2. allocator'[handles[g]].space = allocator[handles[g]].space
    <3>1. PICK j \in Handles : j = handles[g]
      BY <2>1
    <3>2. Users(j)' # {}
      BY <2>1, <3>1 DEF Users
    <3> QED
      BY <1>2, <3>1, <3>2
  <2> QED
    BY <2>1, <2>2
<1>4. WellFormed(req[a]) /\ h \in Handles /\ Claims(req[a].by, h)
  BY <1>1, ActorRequest DEF ServerInv, WellFormed
<1>5. \A c \in Clients : c # req[a].by => ~Claims(c, h)
  BY <1>4 DEF ServerInv, OwnInv, WellFormed
<1>6. ASSUME NEW b \in Actors, b # a, pc[b] \in {"inside", "writing"}
      PROVE  mutex'[found[b]] = b /\ allocator'[found[b]].space = allocator[found[b]].space
  <2>1. mutex[found[b]] = b
    BY <1>6 DEF ViewInv, LockInv
  <2>2. /\ req[b].handle \in Handles /\ handles[req[b].handle] = found[b] /\ found[b] # Nobody
        /\ req[b].type # "open" /\ pc[b] \in Busy
    BY <1>6, UsingHandle DEF Using
  <2>3. req[b].handle # h
    BY <1>1, <1>6, <2>2, HandlesDiffer DEF ServerInv
  <2> QED
    BY <1>1, <1>3, <2>1, <2>2, <2>3
<1>7. ASSUME NEW c \in Clients, c # req[a].by, open[c], req[c].type # "close"
      PROVE  /\ handles'[handle[c]] = handles[handle[c]]
             /\ \A s \in Slots, k \in Kinds :
                  allocator[handles[handle[c]]].space[s] = <<c, k>> =>
                    allocator'[handles[handle[c]]].space[s] = <<c, k>>
  <2>1. handle[c] \in Handles /\ handles[handle[c]] # Nobody
    BY <1>7 DEF ServerInv, TypeInv, ViewInv, Knows
  <2>2. handle[c] # h
    BY <1>5, <1>7 DEF Claims
  <2> QED
    BY <1>3, <2>1, <2>2
<1>8. ASSUME NEW c \in Clients, c # req[a].by
      PROVE  \A x \in AnswersFor(c) :
               req[c].type = "open" /\ handles[x.got] # Nobody => handles'[x.got] = handles[x.got]
  BY <1>3, <1>5, <1>8, AnswersClaim DEF ServerInv
<1>9. PICK answer : Done(a, answer)
  BY <1>1
<1>10. ASSUME NEW c \in Clients, c = req[a].by PROVE Knows(c)'
  BY <1>1, <1>9, <1>10, DoneKnows DEF ViewInv
<1>11. \A c \in Clients : c # req[a].by => Spared(c)
  BY <1>7, <1>8 DEF Spared
<1> QED
  BY <1>1, <1>6, <1>9, <1>10, <1>11, DoneView

LEMMA CloseUnknownView ==
  ASSUME ServerInv, ViewInv, NEW a \in Actors, CloseUnknown(a)
  PROVE  ViewInv'
<1>1. /\ pc[a] \in Busy /\ req[a].type = "close" /\ UNCHANGED mutex /\ UNCHANGED maps /\ UNCHANGED msgs
      /\ \E answer : Done(a, answer)
  BY DEF CloseUnknown, Busy
<1>2. PICK answer : Done(a, answer)
  BY <1>1
<1>3. UNCHANGED <<handles, allocator>>
  BY <1>1 DEF maps
<1>4. ASSUME NEW c \in Clients, c = req[a].by PROVE Knows(c)'
  BY <1>1, <1>2, <1>4, DoneKnows DEF ViewInv
<1>5. \A b \in Actors : pc[b] \in {"inside", "writing"} => mutex[found[b]] = b
  BY DEF ViewInv, LockInv
<1>6. \A c \in Clients : c # req[a].by => Spared(c)
  BY <1>3 DEF Spared
<1> QED
  BY <1>1, <1>2, <1>3, <1>4, <1>5, <1>6, DoneView

\* Commit: what was computed is written, by the only one inside.
LEMMA CommitView ==
  ASSUME ServerInv, ViewInv, NEW a \in Actors, Commit(a)
  PROVE  ViewInv'
<1> USE Constants
<1>1. /\ pc[a] = "writing" /\ pc[a] \in Busy /\ pc[a] \in Using /\ Done(a, work[a].answer)
      /\ allocator' = [allocator EXCEPT ![found[a]].space = work[a].space]
      /\ mutex' = [mutex EXCEPT ![found[a]] = Nobody] /\ UNCHANGED handles /\ UNCHANGED msgs
  BY DEF Commit, Busy, Using
<1>2. /\ req[a].type \in OnSpace /\ req[a].handle \in Handles /\ handles[req[a].handle] = found[a]
      /\ found[a] \in Handles /\ WellFormed(req[a])
  BY <1>1, UsingHandle, ActorRequest DEF ServerInv, FoundInv
<1>3. mutex[found[a]] = a /\ work[a] \in Outcomes(req[a], allocator[found[a]].space)
  BY <1>1 DEF ViewInv, LockInv
<1>4. allocator[found[a]].space \in Spaces
  BY <1>2 DEF ServerInv, TypeInv, TypeOK
<1>5. /\ allocator'[found[a]].space = work[a].space
      /\ \A i \in Handles : i # found[a] => allocator'[i].space = allocator[i].space
      /\ \A i \in Handles : i # found[a] => mutex'[i] = mutex[i]
  BY <1>1, <1>2 DEF ServerInv, TypeInv, TypeOK
<1>6. ASSUME NEW b \in Actors, b # a, pc[b] \in {"inside", "writing"}
      PROVE  mutex'[found[b]] = b /\ allocator'[found[b]].space = allocator[found[b]].space
  <2>1. mutex[found[b]] = b
    BY <1>6 DEF ViewInv, LockInv
  <2>2. found[b] \in Handles
    BY <1>6 DEF ServerInv, FoundInv
  <2>3. found[b] # found[a]
    BY <1>3, <1>6, <2>1
  <2> QED
    BY <1>5, <2>1, <2>2, <2>3
<1>7. ASSUME NEW c \in Clients, open[c], req[c].type # "close" PROVE handles[handle[c]] \in Handles
  <2>1. handle[c] \in Handles /\ handles[handle[c]] # Nobody
    BY <1>7 DEF ServerInv, TypeInv, ViewInv, Knows
  <2> QED
    BY <2>1, UsersOfOpen DEF ServerInv
<1>8. ASSUME NEW c \in Clients, c # req[a].by, open[c], req[c].type # "close",
             NEW s \in Slots, NEW k \in Kinds, allocator[handles[handle[c]]].space[s] = <<c, k>>
      PROVE  allocator'[handles[handle[c]]].space[s] = <<c, k>>
  <2>1. CASE handles[handle[c]] = found[a]
    <3>1. work[a].space[s] = <<c, k>>
      BY <1>2, <1>3, <1>4, <1>8, <2>1, OutcomesKeep DEF Keeps
    <3> QED
      BY <1>5, <2>1, <3>1
  <2>2. CASE handles[handle[c]] # found[a]
    BY <1>5, <1>7, <1>8, <2>2
  <2> QED
    BY <2>1, <2>2
<1>9. ASSUME NEW c \in Clients, c = req[a].by PROVE Knows(c)'
  <2>1. CASE open[c]
    <3>1. req[c] = req[a] /\ req[a].handle = handle[c] /\ Pending(c)
      <4>1. CASE a = Server
        <5>1. Engaged
          BY <1>1, <4>1 DEF Engaged
        <5>2. (Waiting(c) /\ req[c] = req[a]) \/ pc[c] = "exited"
          BY <1>9, <4>1, <5>1 DEF ServerInv, LinkInv, Worked
        <5>3. Waiting(c) /\ req[c] = req[a]
          BY <2>1, <5>2 DEF ViewInv, RestInv
        <5>4. Asks(c)
          BY <5>3 DEF ServerInv, LinkInv, Asked, Waiting
        <5> QED
          BY <1>1, <1>2, <1>9, <4>1, <5>3, <5>4 DEF Asks, Pending, OnSpace
      <4>2. CASE a # Server
        <5>1. c = a
          BY <1>1, <1>9, <4>2, ActorRequest DEF Actors, ServerInv
        <5>2. Asks(c)
          BY <1>1, <5>1 DEF ServerInv, LinkInv, Asked
        <5> QED
          BY <1>1, <1>2, <5>1, <5>2 DEF Asks, Pending, OnSpace
      <4> QED
        BY <4>1, <4>2
    <3>2. handles[handle[c]] = found[a] /\ found[a] # Nobody /\ handles'[handle[c]] = found[a]
      BY <1>1, <1>2, <3>1
    <3>3. Has(c, allocator[found[a]].space, view[c])
      <4>1. Knows(c) /\ req[c].type # "close" /\ open[c] /\ Pending(c)
        BY <1>2, <2>1, <3>1 DEF ViewInv, OnSpace
      <4>2. Holds(c, view[c])
        BY <4>1 DEF Knows
      <4> QED
        BY <3>2, <4>2 DEF Holds, Has
    <3>4. /\ Has(c, work[a].space, Told(c, req[a], work[a].answer))
          /\ req[a].type \in Adds => Has(c, work[a].space, view[c])
      BY <1>2, <1>3, <1>4, <1>9, <3>3, ToldHolds DEF ServerInv
    <3>5. /\ allocator'[handles'[handle[c]]].space = work[a].space
          /\ handles'[handle[c]] # Nobody /\ req[a].type # "open"
      BY <1>1, <1>2, <1>5, <3>2 DEF OnSpace
    <3>6. /\ \A v \in Told(c, req[a], work[a].answer) :
               allocator'[handles'[handle[c]]].space[v[1]] = <<c, v[2]>>
          /\ req[a].type \in Adds =>
               \A v \in view[c] : allocator'[handles'[handle[c]]].space[v[1]] = <<c, v[2]>>
      BY <3>4, <3>5 DEF Has
    <3> QED
      BY <1>1, <1>9, <3>5, <3>6, DoneKnows DEF ViewInv
  <2>2. CASE ~open[c]
    BY <1>1, <1>2, <1>9, <2>2, DoneKnows DEF ViewInv, OnSpace
  <2> QED
    BY <2>1, <2>2
<1>10. \A c \in Clients : c # req[a].by => Spared(c)
  BY <1>1, <1>8 DEF Spared
<1> QED
  BY <1>1, <1>6, <1>9, <1>10, DoneView

-----------------------------------------------------------------------------
(* Outside of handle_request().                                            *)

LEMMA OutsideView ==
  ASSUME ViewInv, UNCHANGED <<maps, mutex>>,
         \A b \in Actors : pc'[b] \in Using =>
           pc[b] = pc'[b] /\ req'[b] = req[b] /\ found'[b] = found[b] /\ work'[b] = work[b],
         RestInv', \A c \in Clients : Knows(c)'
  PROVE  ViewInv'
BY QuietLock DEF ViewInv

\* Who is gone knows nothing.
LEMMA GoneKnows ==
  ASSUME NEW c \in Clients, ~open'[c], AnswersFor(c)' = {}
  PROVE  Knows(c)'
BY DEF Knows

\* To whom does not wait no answer is on its way.
LEMMA NoAnswers ==
  ASSUME TypeInv, LinkInv, NEW c \in Clients, pc[c] # "waiting"
  PROVE  AnswersFor(c) = {} /\ \A m \in responses : m.tid # c
BY DEF AnswersFor, LinkInv, Answered, Waiting

\* FindFails: who asked is gone, or waits for an answer that never comes.
LEMMA FindFailsView ==
  ASSUME ServerInv, ViewInv, NEW a \in Actors, FindFails(a)
  PROVE  ViewInv'
<1> USE Constants
<1>1. /\ pc[a] = "in maps" /\ pc' = [pc EXCEPT ![a] = "failed"] /\ req' = [req EXCEPT ![a] = NoRequest]
      /\ UNCHANGED maps /\ UNCHANGED <<mutex, found, work>> /\ UNCHANGED <<queue, responses>>
      /\ open' = IF a \in Clients THEN [open EXCEPT ![a] = FALSE] ELSE open
      /\ handle' = IF a \in Clients THEN [handle EXCEPT ![a] = Nobody] ELSE handle
      /\ view' = IF a \in Clients THEN [view EXCEPT ![a] = {}] ELSE view
  BY DEF FindFails, InUse, Forgets, msgs
<1>2. /\ pc'[a] = "failed" /\ req'[a] = NoRequest /\ (a \in Clients => ~open'[a])
      /\ \A b \in Clients \cup {Server} : b # a => pc'[b] = pc[b] /\ req'[b] = req[b]
  BY <1>1 DEF ServerInv, TypeInv, TypeOK, Actors, Clients
<1>3. \A c \in Clients : c # a => open'[c] = open[c] /\ handle'[c] = handle[c] /\ view'[c] = view[c]
  BY <1>1 DEF ServerInv, TypeInv, TypeOK
<1>4. \A b \in Actors : pc'[b] \in Using =>
        pc[b] = pc'[b] /\ req'[b] = req[b] /\ found'[b] = found[b] /\ work'[b] = work[b]
  BY <1>1, <1>2 DEF Using, Actors
<1>5. RestInv'
  BY <1>2, <1>3 DEF ViewInv, RestInv, Aside
<1>6. /\ pc'[Server] \in Busy => pc[Server] \in Busy /\ req'[Server] = req[Server]
      /\ pc'[Server] = "answering" => pc[Server] = "answering" /\ req'[Server] = req[Server]
  BY <1>2 DEF Busy
<1>7. ASSUME NEW c \in Clients PROVE Knows(c)'
  <2>1. CASE c = a
    <3>1. a \in Threads /\ \A m \in responses : m.tid # c
      BY <1>1, <2>1, NoAnswers DEF Actors, ServerInv
    <3>2. AnswersFor(c)' = {}
      BY <1>1, <1>2, <2>1, <3>1 DEF AnswersFor
    <3> QED
      BY <1>2, <2>1, <3>2, GoneKnows
  <2>2. CASE c # a
    <3>1. pc'[c] = pc[c] /\ req'[c] = req[c]
      BY <1>2, <2>2
    <3>2. Pending(c)' => Pending(c)
      BY <1>1, <1>6, <3>1 DEF Pending, InQueue
    <3>3. AnswersFor(c)' \subseteq AnswersFor(c)
      BY <1>1, <1>6, <3>1 DEF AnswersFor
    <3> QED
      BY <1>1, <1>3, <2>2, <3>1, <3>2, <3>3, QuietKnows DEF ViewInv
  <2> QED
    BY <2>1, <2>2
<1> QED
  BY <1>1, <1>4, <1>5, <1>7, OutsideView

\* Call: who calls was answered before, and knows until it is answered again.
LEMMA CallView ==
  ASSUME ServerInv, ViewInv, NEW c \in Clients, Call(c)
  PROVE  ViewInv'
<1> USE Constants
<1>1. /\ pc[c] = "idle" /\ \E s \in {"called", "sending"} : pc' = [pc EXCEPT ![c] = s]
      /\ \E r : req' = [req EXCEPT ![c] = r]
      /\ UNCHANGED maps /\ UNCHANGED <<mutex, found, work, handle, open, view, queue, responses>>
  BY DEF Call, clients, msgs
<1>2. /\ pc'[c] \in {"called", "sending"}
      /\ \A b \in Clients \cup {Server} : b # c => pc'[b] = pc[b] /\ req'[b] = req[b]
      /\ pc'[Server] = pc[Server] /\ req'[Server] = req[Server]
  BY <1>1 DEF ServerInv, TypeInv, TypeOK
<1>3. \A b \in Actors : pc'[b] \in Using =>
        pc[b] = pc'[b] /\ req'[b] = req[b] /\ found'[b] = found[b] /\ work'[b] = work[b]
  BY <1>1, <1>2 DEF Using, Actors
<1>4. RestInv'
  BY <1>1, <1>2 DEF ViewInv, RestInv, Aside
<1>5. ASSUME NEW d \in Clients PROVE Knows(d)'
  <2>1. CASE d = c
    <3>1. \A m \in responses : m.tid # c
      BY <1>1, NoAnswers DEF ServerInv
    <3>2. AnswersFor(c)' = {}
      BY <1>1, <1>2, <3>1 DEF AnswersFor
    <3>3. open[c] => handles[handle[c]] # Nobody /\ Holds(c, view[c])
      <4>1. req[c].type # "close" /\ Pending(c)
        BY <1>1 DEF ViewInv, RestInv, Aside, NoRequest, Pending
      <4> QED
        BY <4>1 DEF ViewInv, Knows
    <3>4. open[c] => handles'[handle'[c]] # Nobody /\ Holds(c, view[c])'
      BY <1>1, <3>3 DEF maps, Holds
    <3> QED
      BY <1>1, <2>1, <3>2, <3>4 DEF Knows
  <2>2. CASE d # c
    <3>1. pc'[d] = pc[d] /\ req'[d] = req[d]
      BY <1>2, <2>2
    <3>2. Pending(d)' => Pending(d)
      BY <1>1, <1>2, <3>1 DEF Pending, InQueue
    <3>3. AnswersFor(d)' \subseteq AnswersFor(d)
      BY <1>1, <1>2, <3>1 DEF AnswersFor
    <3> QED
      BY <1>1, <3>1, <3>2, <3>3, QuietKnows DEF ViewInv
  <2> QED
    BY <2>1, <2>2
<1> QED
  BY <1>1, <1>3, <1>4, <1>5, OutsideView

\* A message sent: nobody who does not wait yet is answered.
LEMMA SendRequestView ==
  ASSUME ServerInv, ViewInv, NEW c \in Children, SendRequest(c)
  PROVE  ViewInv'
<1> USE Constants
<1>1. /\ pc[c] = "sending" /\ pc' = [pc EXCEPT ![c] = "waiting"] /\ queue' = Append(queue, req[c])
      /\ UNCHANGED maps /\ UNCHANGED <<mutex, req, found, work, handle, open, view, responses>>
  BY DEF SendRequest, working, clients
<1>2. pc'[c] = "waiting" /\ \A b \in Clients \cup {Server} : b # c => pc'[b] = pc[b]
  BY <1>1 DEF ServerInv, TypeInv, TypeOK
<1>3. \A b \in Actors : pc'[b] \in Using =>
        pc[b] = pc'[b] /\ req'[b] = req[b] /\ found'[b] = found[b] /\ work'[b] = work[b]
  BY <1>1, <1>2 DEF Using, Actors
<1>4. RestInv'
  BY <1>1, <1>2 DEF ViewInv, RestInv, Aside
<1>5. ~(pc[Server] = "answering" /\ req[Server].by = c)
  BY <1>1 DEF ServerInv, LinkInv, Worked, Engaged, Waiting
<1>6. Asks(c) /\ req[c] \in Requests
  BY <1>1 DEF ServerInv, LinkInv, Asked, TypeInv
<1>7. ASSUME NEW d \in Clients PROVE Knows(d)'
  <2>1. AnswersFor(d)' \subseteq AnswersFor(d)
    BY <1>1, <1>2, <1>5 DEF AnswersFor
  <2>2. Pending(d)' => Pending(d)
    <3>1. CASE d = c
      BY <1>1, <3>1 DEF Pending
    <3>2. CASE d # c
      <4>1. InQueue(d)' => InQueue(d)
        BY <1>1, <1>6, <3>2, SentQueue DEF InQueue, Asks, ServerInv
      <4> QED
        BY <1>1, <1>2, <3>2, <4>1 DEF Pending
    <3> QED
      BY <3>1, <3>2
  <2> QED
    BY <1>1, <2>1, <2>2, QuietKnows DEF ViewInv
<1> QED
  BY <1>1, <1>3, <1>4, <1>7, OutsideView

\* ReceiveResponse: what was answered is true.
LEMMA ReceiveResponseView ==
  ASSUME ServerInv, ViewInv, NEW c \in Children, ReceiveResponse(c)
  PROVE  ViewInv'
<1> USE Constants
<1>1. PICK m \in responses : m.tid = c /\ responses' = responses \ {m} /\ Learns(c, req[c], m.answer)
  BY DEF ReceiveResponse
<1>2. /\ pc[c] = "waiting" /\ pc' = [pc EXCEPT ![c] = "idle"] /\ req' = [req EXCEPT ![c] = NoRequest]
      /\ UNCHANGED maps /\ UNCHANGED <<mutex, found, work, queue>>
  BY DEF ReceiveResponse
<1>3. /\ pc'[c] = "idle" /\ req'[c] = NoRequest
      /\ \A b \in Clients \cup {Server} : b # c => pc'[b] = pc[b] /\ req'[b] = req[b]
      /\ pc'[Server] = pc[Server] /\ req'[Server] = req[Server]
  BY <1>2 DEF ServerInv, TypeInv, TypeOK
<1>4. \A d \in Clients : d # c => open'[d] = open[d] /\ handle'[d] = handle[d] /\ view'[d] = view[d]
  BY <1>1 DEF Learns, ServerInv, TypeInv, TypeOK
<1>5. \A b \in Actors : pc'[b] \in Using =>
        pc[b] = pc'[b] /\ req'[b] = req[b] /\ found'[b] = found[b] /\ work'[b] = work[b]
  BY <1>2, <1>3 DEF Using, Actors
<1>6. RestInv'
  BY <1>3, <1>4 DEF ViewInv, RestInv
<1>7. m.answer \in AnswersFor(c) /\ Knows(c)
  BY <1>1 DEF AnswersFor, ViewInv
<1>8. view'[c] = Told(c, req[c], m.answer)
  BY <1>1 DEF Learns, ServerInv, TypeInv, TypeOK
<1>9. Knows(c)'
  <2>1. AnswersFor(c)' = {}
    <3>1. \A n \in responses' : n.tid # c
      BY <1>1 DEF ServerInv, LinkInv, Answered
    <3> QED
      BY <1>3, <3>1 DEF AnswersFor
  <2>2. ASSUME open'[c] PROVE handles'[handle'[c]] # Nobody /\ Holds(c, view[c])'
    <3>1. CASE req[c].type = "open"
      <4>1. handle'[c] = m.answer.got /\ view'[c] = {}
        BY <1>1, <1>8, <3>1 DEF Learns, ServerInv, TypeInv, TypeOK, Told
      <4> QED
        BY <1>2, <1>7, <3>1, <4>1 DEF Knows, Holds, maps
    <3>2. CASE req[c].type = "close"
      <4>1. ~open'[c]
        BY <1>1, <3>2 DEF Learns, ServerInv, TypeInv, TypeOK
      <4> QED
        BY <2>2, <4>1
    <3>3. CASE req[c].type \notin {"open", "close"}
      <4>1. open'[c] = open[c] /\ handle'[c] = handle[c]
        BY <1>1, <3>3 DEF Learns
      <4>2. handles[handle[c]] # Nobody /\ Holds(c, Told(c, req[c], m.answer))
        BY <1>7, <2>2, <3>3, <4>1 DEF Knows
      <4> QED
        BY <1>2, <1>8, <4>1, <4>2 DEF Holds, maps
    <3> QED
      BY <3>1, <3>2, <3>3
  <2> QED
    BY <2>1, <2>2 DEF Knows
<1>10. ASSUME NEW d \in Clients, d # c PROVE Knows(d)'
  <2>1. pc'[d] = pc[d] /\ req'[d] = req[d]
    BY <1>3, <1>10
  <2>2. Pending(d)' => Pending(d)
    BY <1>2, <1>3, <2>1 DEF Pending, InQueue
  <2>3. AnswersFor(d)' \subseteq AnswersFor(d)
    BY <1>1, <1>2, <1>3, <2>1 DEF AnswersFor
  <2> QED
    BY <1>2, <1>4, <1>10, <2>1, <2>2, <2>3, QuietKnows DEF ViewInv
<1> QED
  BY <1>2, <1>5, <1>6, <1>9, <1>10, OutsideView

\* ChannelGone: with the queue the answers went.
LEMMA ChannelGoneView ==
  ASSUME ServerInv, ViewInv, NEW c \in Children, ChannelGone(c)
  PROVE  ViewInv'
<1> USE Constants
<1>1. /\ channel = "removed" /\ pc' = [pc EXCEPT ![c] = "exited"] /\ req' = [req EXCEPT ![c] = NoRequest]
      /\ open' = [open EXCEPT ![c] = FALSE] /\ handle' = [handle EXCEPT ![c] = Nobody]
      /\ view' = [view EXCEPT ![c] = {}]
      /\ UNCHANGED maps /\ UNCHANGED <<mutex, found, work, queue, responses>>
  BY DEF ChannelGone, Forgets, msgs
<1>2. /\ pc'[c] = "exited" /\ req'[c] = NoRequest /\ ~open'[c]
      /\ \A b \in Clients \cup {Server} : b # c => pc'[b] = pc[b] /\ req'[b] = req[b]
      /\ pc'[Server] = pc[Server] /\ req'[Server] = req[Server]
      /\ \A d \in Clients : d # c => open'[d] = open[d] /\ handle'[d] = handle[d] /\ view'[d] = view[d]
  BY <1>1 DEF ServerInv, TypeInv, TypeOK
<1>3. \A b \in Actors : pc'[b] \in Using =>
        pc[b] = pc'[b] /\ req'[b] = req[b] /\ found'[b] = found[b] /\ work'[b] = work[b]
  BY <1>1, <1>2 DEF Using, Actors
<1>4. RestInv'
  BY <1>2 DEF ViewInv, RestInv
<1>5. Knows(c)'
  <2>1. AnswersFor(c)' = {}
    BY <1>1, <1>2 DEF AnswersFor, ServerInv, LinkInv, Removed
  <2> QED
    BY <1>2, <2>1, GoneKnows
<1>6. ASSUME NEW d \in Clients, d # c PROVE Knows(d)'
  <2>1. pc'[d] = pc[d] /\ req'[d] = req[d]
    BY <1>2, <1>6
  <2>2. Pending(d)' => Pending(d)
    BY <1>1, <1>2, <2>1 DEF Pending, InQueue
  <2>3. AnswersFor(d)' \subseteq AnswersFor(d)
    BY <1>1, <1>2, <2>1 DEF AnswersFor
  <2> QED
    BY <1>1, <1>2, <1>6, <2>1, <2>2, <2>3, QuietKnows DEF ViewInv
<1> QED
  BY <1>1, <1>3, <1>4, <1>5, <1>6, OutsideView

\* The messages of the server, and its end.
LEMMA ServerView ==
  ASSUME ServerInv, ViewInv, ReceiveRequest \/ SendResponse \/ ServerGivesUp
  PROVE  ViewInv'
<1> USE Constants
<1>1. /\ \E s \in {"ended", "called", "receiving"} : pc' = [pc EXCEPT ![Server] = s]
      /\ \A b \in Clients : req'[b] = req[b]
      /\ \A b \in Actors : b # Server => found'[b] = found[b] /\ work'[b] = work[b]
      /\ UNCHANGED maps /\ UNCHANGED <<mutex, handle, open, view>>
  <2>1. CASE ReceiveRequest
    BY <2>1 DEF ReceiveRequest, clients, ServerInv, TypeInv, TypeOK
  <2>2. CASE SendResponse
    BY <2>2 DEF SendResponse, clients, ServerInv, TypeInv, TypeOK
  <2>3. CASE ServerGivesUp
    BY <2>3 DEF ServerGivesUp, working, clients
  <2> QED
    BY <2>1, <2>2, <2>3
<1>2. pc'[Server] \in {"ended", "called", "receiving"} /\ \A b \in Clients : pc'[b] = pc[b]
  BY <1>1 DEF ServerInv, TypeInv, TypeOK
<1>3. \A b \in Actors : pc'[b] \in Using =>
        pc[b] = pc'[b] /\ req'[b] = req[b] /\ found'[b] = found[b] /\ work'[b] = work[b]
  BY <1>1, <1>2 DEF Using, Actors, Clients
<1>4. RestInv'
  BY <1>1, <1>2 DEF ViewInv, RestInv
<1>5. ASSUME NEW c \in Clients PROVE (Pending(c)' => Pending(c)) /\ AnswersFor(c)' \subseteq AnswersFor(c)
  <2>1. CASE ReceiveRequest
    <3>1. queue # <<>> /\ queue' = Tail(queue) /\ UNCHANGED responses
      BY <2>1 DEF ReceiveRequest
    <3>2. InQueue(c)' => InQueue(c)
      BY <3>1, ReceivedQueue DEF ServerInv, InQueue
    <3>3. pc'[Server] = "called" => req'[Server] = Head(queue)
      BY <2>1 DEF ReceiveRequest, ServerInv, TypeInv, TypeOK
    <3>4. pc'[Server] = "called" /\ req'[Server].by = c => InQueue(c)
      BY <3>1, <3>3, ReceivedQueue DEF ServerInv, InQueue
    <3> QED
      BY <1>2, <3>1, <3>2, <3>4 DEF Pending, AnswersFor, Busy
  <2>2. CASE SendResponse
    <3>1. /\ pc[Server] = "answering" /\ channel # "removed" /\ UNCHANGED queue
          /\ responses' = responses \cup {[tid |-> req[Server].by, answer |-> work[Server].answer]}
          /\ pc'[Server] = "receiving"
      BY <2>2 DEF SendResponse, ServerInv, TypeInv, TypeOK
    <3>2. pc[req[Server].by] = "waiting"
      BY <3>1 DEF ServerInv, LinkInv, Worked, Engaged, Waiting
    <3>3. AnswersFor(c)' \subseteq AnswersFor(c)
      BY <3>1, <3>2 DEF AnswersFor
    <3> QED
      BY <1>2, <3>1, <3>3 DEF Pending, InQueue, Busy
  <2>3. CASE ServerGivesUp
    <3>1. UNCHANGED <<queue, responses>> /\ pc'[Server] = "ended"
      BY <2>3 DEF ServerGivesUp, msgs, ServerInv, TypeInv, TypeOK
    <3> QED
      BY <1>2, <3>1 DEF Pending, InQueue, AnswersFor, Busy
  <2> QED
    BY <2>1, <2>2, <2>3
<1>6. ASSUME NEW c \in Clients PROVE Knows(c)'
  BY <1>1, <1>5, QuietKnows DEF ViewInv
<1> QED
  BY <1>1, <1>3, <1>4, <1>6, OutsideView

\* SendStop, Deinit, Fork, Detach, OpenDetached, Join: the one who moves has no request.
LEMMA MoveView ==
  ASSUME ServerInv, ViewInv, NEW p \in Clients, pc[p] \in Aside, NEW s \in Aside, pc' = [pc EXCEPT ![p] = s],
         UNCHANGED maps, UNCHANGED <<mutex, req, found, work, handle, open, view>>,
         \A c \in Clients : InQueue(c)' => InQueue(c), responses' \subseteq responses
  PROVE  ViewInv'
<1> USE Constants
<1>1. pc'[p] = s /\ pc'[Server] = pc[Server] /\ \A b \in Clients : b # p => pc'[b] = pc[b]
  BY DEF ServerInv, TypeInv, TypeOK
<1>2. \A b \in Actors : pc'[b] \in Using =>
        pc[b] = pc'[b] /\ req'[b] = req[b] /\ found'[b] = found[b] /\ work'[b] = work[b]
  BY <1>1 DEF Using, Aside, Actors, Clients
<1>3. RestInv'
  BY <1>1 DEF ViewInv, RestInv, Aside
<1>4. ASSUME NEW c \in Clients PROVE Knows(c)'
  <2>1. pc'[c] = "waiting" <=> pc[c] = "waiting"
    BY <1>1 DEF Aside
  <2>2. Pending(c)' => Pending(c)
    BY <1>1, <2>1 DEF Pending
  <2>3. AnswersFor(c)' \subseteq AnswersFor(c)
    BY <1>1, <2>1 DEF AnswersFor
  <2> QED
    BY <2>2, <2>3, QuietKnows DEF ViewInv
<1> QED
  BY <1>2, <1>3, <1>4, OutsideView

-----------------------------------------------------------------------------
(* The theorem.                                                            *)

LEMMA InitView == Init => ViewInv
<1> SUFFICES ASSUME Init PROVE ViewInv
  OBVIOUS
<1>1. \A a \in Clients \cup {Server} : pc[a] \in {"idle", "receiving", "unborn"} /\ req[a] = NoRequest
  BY DEF Init
<1>2. LockInv
  BY <1>1 DEF LockInv, Actors, Clients
<1>3. (\A c \in Clients : ~open[c]) /\ responses = {}
  BY DEF Init
<1>4. RestInv
  BY <1>1, <1>3 DEF RestInv
<1>5. \A c \in Clients : Knows(c)
  BY <1>1, <1>3 DEF Knows, AnswersFor
<1> QED
  BY <1>2, <1>4, <1>5 DEF ViewInv

LEMMA NextView == ServerInv /\ ViewInv /\ [Next]_vars => ViewInv'
<1> SUFFICES ASSUME ServerInv, ViewInv, [Next]_vars PROVE ViewInv'
  OBVIOUS
<1> USE Constants
<1>1. ASSUME NEW a \in Actors, HandleRequest(a) PROVE ViewInv'
  BY <1>1, LockMapsView, OpenView, CloseView, CloseUnknownView, FindView, FindFailsView, LockAllocatorView,
     ComputeView, CommitView DEF HandleRequest
<1>2. ASSUME NEW c \in Clients, Call(c) PROVE ViewInv'
  BY <1>2, CallView
<1>3. ASSUME NEW c \in Children, ChildStep(c) PROVE ViewInv'
  BY <1>3, SendRequestView, ReceiveResponseView, ChannelGoneView DEF ChildStep
<1>4. CASE ServerStep
  BY <1>1, <1>4, ServerView DEF ServerStep, Actors
<1>5. ASSUME NEW c \in Children, Fork(c) \/ Detach(c) \/ OpenDetached(c) PROVE ViewInv'
  <2>1. /\ pc[c] \in Aside /\ \E s \in Aside : pc' = [pc EXCEPT ![c] = s]
        /\ UNCHANGED maps /\ UNCHANGED <<mutex, req, found, work, handle, open, view>>
        /\ UNCHANGED <<queue, responses>>
    BY <1>5 DEF Fork, Detach, OpenDetached, Aside, working, clients, msgs
  <2>2. \A d \in Clients : InQueue(d)' => InQueue(d)
    BY <2>1 DEF InQueue
  <2> QED
    BY <2>1, <2>2, MoveView
<1>6. CASE SendStop
  <2>1. /\ pc[Main] \in Aside /\ \E s \in Aside : pc' = [pc EXCEPT ![Main] = s]
        /\ UNCHANGED maps /\ UNCHANGED <<mutex, req, found, work, handle, open, view>>
        /\ UNCHANGED responses /\ queue' = Append(queue, Stop)
    BY <1>6 DEF SendStop, Aside, working, clients
  <2>2. Stop \in Requests /\ Stop.by = Nobody
    BY DEF Stop, NoRequest, Requests, HandleOrNone
  <2>3. \A d \in Clients : InQueue(d)' => InQueue(d)
    BY <2>1, <2>2, SentQueue DEF InQueue, ServerInv
  <2> QED
    BY <2>1, <2>3, MoveView
<1>7. CASE Deinit \/ Join
  <2>1. /\ pc[Main] \in Aside /\ \E s \in Aside : pc' = [pc EXCEPT ![Main] = s]
        /\ UNCHANGED maps /\ UNCHANGED <<mutex, req, found, work, handle, open, view>>
        /\ responses' \subseteq responses /\ (queue' = queue \/ queue' = <<>>)
    BY <1>7 DEF Deinit, Join, Aside, working, clients, msgs
  <2>2. \A d \in Clients : InQueue(d)' => InQueue(d)
    BY <2>1 DEF InQueue
  <2> QED
    BY <2>1, <2>2, MoveView
<1>8. CASE UNCHANGED vars
  <2>1. UNCHANGED maps /\ UNCHANGED <<mutex, pc, req, found, work, handle, open, view, queue, responses>>
    BY <1>8 DEF vars, working, clients, msgs
  <2>2. RestInv'
    BY <2>1 DEF ViewInv, RestInv
  <2>3. ASSUME NEW c \in Clients PROVE Knows(c)'
    <3>1. (Pending(c)' => Pending(c)) /\ AnswersFor(c)' \subseteq AnswersFor(c)
      BY <2>1 DEF Pending, InQueue, AnswersFor
    <3> QED
      BY <2>1, <3>1, QuietKnows DEF ViewInv
  <2> QED
    BY <2>1, <2>2, <2>3, OutsideView
<1> QED
  BY <1>1, <1>2, <1>3, <1>4, <1>5, <1>6, <1>7, <1>8 DEF Next, Actors

\* What a client was told it has, it has, as long as it does not give it back.  Between the
\* write to a space and the client that learns of it there are the end of
\* handle_request(), the queue and steps of all others: none of them can touch a place
\* that is another client's, or destroy the allocator of an open handle.
THEOREM KeptAsTold == Spec => []KeepsWhatItWasTold
<1>1. ServerInv /\ ViewInv => KeepsWhatItWasTold
  <2> SUFFICES ASSUME ViewInv, NEW c \in Clients, open[c],
                      pc[c] = "idle" \/ req[c].type \in {"alloc", "reserve", "reserve if not allocated"}
               PROVE  \A v \in view[c] : allocator[handles[handle[c]]].space[v[1]] = <<c, v[2]>>
    BY DEF KeepsWhatItWasTold
  <2>1. pc[c] = "idle" => req[c].type # "close" /\ Pending(c)
    BY DEF ViewInv, RestInv, Aside, NoRequest, Pending
  <2>2. Holds(c, view[c])
    BY <2>1 DEF ViewInv, Knows, Adds
  <2> QED
    BY <2>2 DEF Holds
<1>2. Init => ServerInv /\ ViewInv
  BY InitInv, InitView
<1>3. (ServerInv /\ ViewInv) /\ [Next]_vars => (ServerInv /\ ViewInv)'
  BY NextInv, NextView
<1> QED
  BY <1>1, <1>2, <1>3, PTL DEF Spec

-----------------------------------------------------------------------------
(* The spaces as their keys find them: AllocatorServer implements SharedSpaces. *)

UsersOf == [k \in Keys |-> Cardinality({h \in Handles : handles[h] # Nobody /\ allocator[handles[h]].key = k})]
SpaceOf == [k \in Keys |-> IF instance[k] = Nobody THEN Empty ELSE allocator[instance[k]].space]

\* The reference counter of an allocator is how often the space of its key is open.
CountIsUsers ==
  \A k \in Keys : UsersOf[k] = IF instance[k] = Nobody THEN 0 ELSE allocator[instance[k]].refcount

LEMMA CountsUsers == ServerInv => CountIsUsers
<1> SUFFICES ASSUME ServerInv, NEW k \in Keys
             PROVE  UsersOf[k] = IF instance[k] = Nobody THEN 0 ELSE allocator[instance[k]].refcount
  BY DEF CountIsUsers
<1>1. UsersOf[k] = Cardinality({h \in Handles : handles[h] # Nobody /\ allocator[handles[h]].key = k})
  BY DEF UsersOf
<1>2. \A h \in Handles : handles[h] # Nobody =>
        /\ handles[h] \in Handles /\ allocator[handles[h]].key \in Keys
        /\ instance[allocator[handles[h]].key] = handles[h]
  BY UsersOfOpen DEF ServerInv, MapsInv
<1>3. CASE instance[k] = Nobody
  <2>1. {h \in Handles : handles[h] # Nobody /\ allocator[handles[h]].key = k} = {}
    BY <1>2, <1>3
  <2> QED
    BY <1>1, <1>3, <2>1, FS_EmptySet
<1>4. CASE instance[k] # Nobody
  <2>1. instance[k] \in Handles /\ allocator[instance[k]].key = k
    BY <1>4 DEF ServerInv, TypeInv, TypeOK, HandleOrNone, MapsInv
  <2>2. {h \in Handles : handles[h] # Nobody /\ allocator[handles[h]].key = k} = Users(instance[k])
    BY <1>2, <1>4, <2>1 DEF Users
  <2>3. allocator[instance[k]].refcount = Cardinality(Users(instance[k]))
    BY <2>1 DEF ServerInv, MapsInv
  <2> QED
    BY <1>1, <1>4, <2>2, <2>3
<1> QED
  BY <1>3, <1>4

LEMMA CountsUsersNext == ServerInv' => CountIsUsers'
BY CountsUsers, PTL

\* Different keys have different allocators, which were made before.
LEMMA KeysApart ==
  ASSUME ServerInv, NEW k \in Keys, instance[k] # Nobody
  PROVE  /\ instance[k] \in Handles /\ instance[k] < next_handle /\ allocator[instance[k]].key = k
         /\ allocator[instance[k]].refcount \in Nat \ {0}
<1>1. instance[k] \in Handles /\ allocator[instance[k]].key = k /\ Users(instance[k]) # {}
  BY DEF ServerInv, TypeInv, TypeOK, HandleOrNone, MapsInv
<1>2. PICK h \in Handles : handles[h] = instance[k]
  BY <1>1 DEF Users
<1>3. handles[h] # Nobody
  BY <1>2, Constants, <1>1
<1>4. instance[k] < next_handle
  BY <1>2, <1>3 DEF ServerInv, MapsInv
<1>5. Cardinality(Users(instance[k])) \in Nat /\ Cardinality(Users(instance[k])) > 0
  BY <1>2, <1>3, UsersOfOpen DEF ServerInv
<1>6. allocator[instance[k]].refcount \in Nat \ {0}
  BY <1>1, <1>5 DEF ServerInv, MapsInv
<1> QED
  BY <1>1, <1>4, <1>6

LEMMA OpenShared ==
  ASSUME ServerInv, ServerInv', NEW a \in Actors, OpenAllocator(a)
  PROVE  \E k \in Keys : UsersOf' = [UsersOf EXCEPT ![k] = @ + 1] /\ UNCHANGED SpaceOf
<1> USE Constants
<1>1. PICK k : k = req[a].key
  OBVIOUS
<1>2. PICK i : i = IF instance[k] = Nobody THEN next_handle ELSE instance[k]
  OBVIOUS
<1>3. /\ pc[a] = "in maps" /\ req[a].type = "open" /\ next_handle \in Handles
      /\ instance' = [instance EXCEPT ![k] = i]
      /\ allocator' = [allocator EXCEPT ![i] =
           IF instance[k] = Nobody
           THEN [key |-> k, refcount |-> 1, ial_refcount |-> 1, alive |-> TRUE, space |-> Empty]
           ELSE Counted(allocator[i], 1)]
  BY <1>1, <1>2 DEF OpenAllocator
<1>4. k \in Keys
  BY <1>1, <1>3, ActorRequest DEF ServerInv, WellFormed, Busy
<1>5. i \in Handles /\ i # Nobody
  BY <1>2, <1>3, <1>4, KeysApart
<1>6. /\ instance'[k] = i
      /\ allocator'[i].refcount = IF instance[k] = Nobody THEN 1 ELSE allocator[i].refcount + 1
      /\ allocator'[i].space = IF instance[k] = Nobody THEN Empty ELSE allocator[i].space
  <2>1. instance'[k] = i
    BY <1>3, <1>4 DEF ServerInv, TypeInv, TypeOK
  <2>2. allocator \in [Handles -> Allocators]
    BY DEF ServerInv, TypeInv, TypeOK, Allocators
  <2>3. CASE instance[k] = Nobody
    <3>1. allocator'[i] = [key |-> k, refcount |-> 1, ial_refcount |-> 1, alive |-> TRUE, space |-> Empty]
      BY <1>3, <1>5, <2>2, <2>3
    <3> QED
      BY <2>1, <2>3, <3>1
  <2>4. CASE instance[k] # Nobody
    <3>1. allocator'[i] = Counted(allocator[i], 1) /\ allocator[i] \in Allocators
      BY <1>3, <1>5, <2>2, <2>4
    <3>2. allocator[i].refcount + 1 \in Nat /\ allocator[i].ial_refcount + 1 \in Nat
      BY <3>1 DEF Allocators
    <3>3. /\ Counted(allocator[i], 1).refcount = allocator[i].refcount + 1
          /\ Counted(allocator[i], 1).space = allocator[i].space
      BY <3>1, <3>2, CountedType
    <3> QED
      BY <2>1, <2>4, <3>1, <3>3
  <2> QED
    BY <2>3, <2>4
<1>7. ASSUME NEW l \in Keys, l # k
      PROVE  instance'[l] = instance[l] /\ (instance[l] # Nobody => allocator'[instance[l]] = allocator[instance[l]])
  <2>1. instance'[l] = instance[l]
    BY <1>3, <1>4, <1>7 DEF ServerInv, TypeInv, TypeOK
  <2>2. ASSUME instance[l] # Nobody PROVE instance[l] # i /\ instance[l] \in Handles
    <3>1. /\ instance[l] \in Handles /\ instance[l] < next_handle /\ allocator[instance[l]].key = l
      BY <2>2, KeysApart
    <3>2. instance[k] # Nobody => allocator[instance[k]].key = k
      BY <1>4, KeysApart
    <3>3. next_handle \in Nat /\ instance[l] \in Nat
      BY <1>3, <3>1
    <3> QED
      BY <1>2, <1>7, <3>1, <3>2, <3>3
  <2>3. instance[l] # Nobody => allocator'[instance[l]] = allocator[instance[l]]
    BY <1>3, <2>2 DEF ServerInv, TypeInv, TypeOK
  <2> QED
    BY <2>1, <2>3
<1>8. CountIsUsers /\ CountIsUsers'
  BY CountsUsers, CountsUsersNext
<1>9. \A l \in Keys : UsersOf'[l] = IF l = k THEN UsersOf[l] + 1 ELSE UsersOf[l]
  <2>1. UsersOf'[k] = UsersOf[k] + 1
    <3>1. UsersOf'[k] = allocator'[i].refcount
      BY <1>4, <1>5, <1>6, <1>8 DEF CountIsUsers
    <3>2. CASE instance[k] = Nobody
      BY <1>4, <1>6, <1>8, <3>1, <3>2 DEF CountIsUsers
    <3>3. CASE instance[k] # Nobody
      BY <1>2, <1>4, <1>6, <1>8, <3>1, <3>3 DEF CountIsUsers
    <3> QED
      BY <3>2, <3>3
  <2>2. ASSUME NEW l \in Keys, l # k PROVE UsersOf'[l] = UsersOf[l]
    BY <1>7, <1>8, <2>2 DEF CountIsUsers
  <2> QED
    BY <2>1, <2>2
<1>10. UsersOf' = [UsersOf EXCEPT ![k] = @ + 1]
  BY <1>4, <1>9 DEF UsersOf
<1>11. \A l \in Keys : SpaceOf'[l] = SpaceOf[l]
  <2>1. SpaceOf'[k] = SpaceOf[k]
    BY <1>2, <1>4, <1>5, <1>6 DEF SpaceOf
  <2>2. ASSUME NEW l \in Keys, l # k PROVE SpaceOf'[l] = SpaceOf[l]
    BY <1>7, <2>2 DEF SpaceOf
  <2> QED
    BY <2>1, <2>2
<1>12. UNCHANGED SpaceOf
  BY <1>11 DEF SpaceOf
<1> QED
  BY <1>4, <1>10, <1>12

LEMMA CloseShared ==
  ASSUME ServerInv, ServerInv', NEW a \in Actors, CloseAllocator(a)
  PROVE  \E k \in Keys : /\ UsersOf[k] > 0 /\ UsersOf' = [UsersOf EXCEPT ![k] = @ - 1]
                         /\ SpaceOf' = IF UsersOf[k] = 1 THEN [SpaceOf EXCEPT ![k] = Empty] ELSE SpaceOf
<1> USE Constants
<1>1. PICK i : i = handles[req[a].handle]
  OBVIOUS
<1>2. PICK k : k = allocator[i].key
  OBVIOUS
<1>3. /\ pc[a] = "in maps" /\ req[a].type = "close" /\ i # Nobody
      /\ allocator' = [allocator EXCEPT ![i] =
           IF allocator[i].ial_refcount > 1 THEN Counted(allocator[i], -1) ELSE Gone]
      /\ instance' = IF allocator[i].refcount = 1 THEN [instance EXCEPT ![k] = Nobody] ELSE instance
  BY <1>1, <1>2 DEF CloseAllocator
<1>4. /\ i \in Handles /\ k \in Keys /\ instance[k] = i
      /\ allocator[i].refcount = allocator[i].ial_refcount
  <2>1. req[a].handle \in Handles
    BY <1>3, ActorRequest DEF ServerInv, WellFormed, Busy
  <2>2. i \in Handles /\ Users(i) # {}
    BY <1>1, <1>3, <2>1, UsersOfOpen DEF ServerInv
  <2> QED
    BY <1>2, <2>2 DEF ServerInv, MapsInv
<1>5. instance[k] # Nobody /\ allocator[i].refcount \in Nat \ {0} /\ allocator \in [Handles -> Allocators]
  BY <1>3, <1>4, KeysApart DEF ServerInv, TypeInv, TypeOK, Allocators
<1>6. ASSUME NEW l \in Keys, l # k
      PROVE  instance'[l] = instance[l] /\ (instance[l] # Nobody => allocator'[instance[l]] = allocator[instance[l]])
  <2>1. instance'[l] = instance[l]
    BY <1>3, <1>4, <1>6 DEF ServerInv, TypeInv, TypeOK
  <2>2. ASSUME instance[l] # Nobody PROVE instance[l] # i /\ instance[l] \in Handles
    BY <1>2, <1>6, <2>2, KeysApart
  <2>3. instance[l] # Nobody => allocator'[instance[l]] = allocator[instance[l]]
    BY <1>3, <1>5, <2>2
  <2> QED
    BY <2>1, <2>3
<1>7. CountIsUsers /\ CountIsUsers'
  BY CountsUsers, CountsUsersNext
<1>8. UsersOf[k] = allocator[i].refcount
  BY <1>4, <1>5, <1>7 DEF CountIsUsers
<1>9. ASSUME NEW l \in Keys, l # k PROVE UsersOf'[l] = UsersOf[l] /\ SpaceOf'[l] = SpaceOf[l]
  BY <1>6, <1>7, <1>9 DEF CountIsUsers, SpaceOf
<1>10. CASE allocator[i].refcount = 1
  <2>1. instance'[k] = Nobody
    BY <1>3, <1>4, <1>10 DEF ServerInv, TypeInv, TypeOK
  <2>2. UsersOf'[k] = UsersOf[k] - 1 /\ UsersOf[k] > 0
    BY <1>4, <1>7, <1>8, <1>10, <2>1 DEF CountIsUsers
  <2>3. SpaceOf'[k] = Empty
    BY <1>4, <2>1 DEF SpaceOf
  <2>4. UsersOf' = [UsersOf EXCEPT ![k] = @ - 1]
    BY <1>4, <1>9, <2>2 DEF UsersOf
  <2>5. SpaceOf' = [SpaceOf EXCEPT ![k] = Empty]
    BY <1>4, <1>9, <2>3 DEF SpaceOf
  <2> QED
    BY <1>4, <1>8, <1>10, <2>2, <2>4, <2>5
<1>11. CASE allocator[i].refcount # 1
  <2>1. allocator'[i] = Counted(allocator[i], -1) /\ instance' = instance /\ allocator[i] \in Allocators
    <3>1. allocator[i].ial_refcount > 1
      BY <1>4, <1>5, <1>11
    <3> QED
      BY <1>3, <1>4, <1>5, <1>11, <3>1
  <2>2. allocator[i].refcount + (-1) \in Nat /\ allocator[i].ial_refcount + (-1) \in Nat
    BY <1>4, <1>5, <1>11
  <2>3. /\ Counted(allocator[i], -1).refcount = allocator[i].refcount + (-1)
        /\ Counted(allocator[i], -1).space = allocator[i].space
    BY <2>1, <2>2, CountedType
  <2>4. allocator'[i].refcount = allocator[i].refcount - 1 /\ allocator'[i].space = allocator[i].space
    BY <1>5, <2>1, <2>3
  <2>5. UsersOf'[k] = UsersOf[k] - 1 /\ UsersOf[k] > 0 /\ UsersOf[k] # 1
    BY <1>4, <1>5, <1>7, <1>8, <1>11, <2>1, <2>4 DEF CountIsUsers
  <2>6. SpaceOf'[k] = SpaceOf[k]
    BY <1>4, <1>5, <2>1, <2>4 DEF SpaceOf
  <2>7. UsersOf' = [UsersOf EXCEPT ![k] = @ - 1]
    BY <1>4, <1>9, <2>5 DEF UsersOf
  <2>8. SpaceOf' = SpaceOf
    BY <1>4, <1>9, <2>6 DEF SpaceOf
  <2> QED
    BY <1>4, <2>5, <2>7, <2>8
<1> QED
  BY <1>10, <1>11

\* A function of an allocator takes a free place, or frees one.
OnePlace(space, new) ==
  \/ new = space
  \/ \E s \in Slots : new = [space EXCEPT ![s] = Nobody]
  \/ \E s \in Slots, o \in Owners : space[s] = Nobody /\ new = [space EXCEPT ![s] = o]

LEMMA OutcomesShape ==
  ASSUME NEW r, WellFormed(r), r.type \in OnSpace, NEW space, NEW w \in Outcomes(r, space)
  PROVE  OnePlace(space, w.space)
<1> USE DEF OnePlace
<1>1. <<r.by, "allocated">> \in Owners /\ <<r.by, "reserved">> \in Owners
  BY DEF WellFormed, Owners
<1>2. \A s, o : Writes(space, s, o, s).space = [space EXCEPT ![s] = o]
  BY DEF Writes
<1>3. Refuses(space).space = space
  BY DEF Refuses
<1>4. CASE r.type = "alloc"
  <2>1. \/ w = Refuses(space)
        \/ \E s \in Slots : w = [space |-> space, answer |-> Answer(TRUE, s)]
        \/ \E s \in Slots : space[s] = Nobody /\ w = Writes(space, s, <<r.by, "allocated">>, s)
    BY <1>4 DEF Outcomes, Allocated, Unused
  <2>2. ASSUME NEW s \in Slots, space[s] = Nobody, w = Writes(space, s, <<r.by, "allocated">>, s)
        PROVE  \E o \in Owners : w.space = [space EXCEPT ![s] = o]
    BY <1>1, <1>2, <2>2
  <2>3. ASSUME NEW s \in Slots, w = [space |-> space, answer |-> Answer(TRUE, s)] PROVE w.space = space
    BY <2>3
  <2> QED
    BY <1>3, <2>1, <2>2, <2>3
<1>5. CASE r.type = "free"
  <2>1. w = Refuses(space) \/ \E s \in Slots : w = Writes(space, s, Nobody, s)
    BY <1>5 DEF Outcomes, Allocated
  <2> QED
    BY <1>2, <1>3, <2>1
<1>6. CASE r.type \in OnPlace
  <2>1. r.slot \in Slots
    BY <1>6 DEF WellFormed
  <2>2. \/ w = Refuses(space)
        \/ space[r.slot] = Nobody /\ w = Writes(space, r.slot, <<r.by, "reserved">>, r.slot)
        \/ w = Writes(space, r.slot, Nobody, r.slot)
    BY <1>6 DEF Outcomes, Reserve, OnPlace
  <2>3. CASE space[r.slot] = Nobody /\ w = Writes(space, r.slot, <<r.by, "reserved">>, r.slot)
    <3>1. w.space = [space EXCEPT ![r.slot] = <<r.by, "reserved">>]
      BY <1>2, <2>3
    <3> QED
      BY <1>1, <2>1, <2>3, <3>1
  <2>4. CASE w = Writes(space, r.slot, Nobody, r.slot)
    <3>1. w.space = [space EXCEPT ![r.slot] = Nobody]
      BY <1>2, <2>4
    <3> QED
      BY <2>1, <3>1
  <2> QED
    BY <1>3, <2>2, <2>3, <2>4
<1> QED
  BY <1>4, <1>5, <1>6 DEF OnSpace, OnPlace

LEMMA CommitShared ==
  ASSUME ServerInv, LockInv, ServerInv', NEW a \in Actors, Commit(a)
  PROVE  \E k \in Keys :
           /\ UsersOf[k] > 0 /\ UNCHANGED UsersOf
           /\ \/ UNCHANGED SpaceOf
              \/ \E s \in Slots : SpaceOf' = [SpaceOf EXCEPT ![k][s] = Nobody]
              \/ \E s \in Slots, o \in Owners :
                   SpaceOf[k][s] = Nobody /\ SpaceOf' = [SpaceOf EXCEPT ![k][s] = o]
<1> USE Constants
<1>1. PICK i : i = found[a]
  OBVIOUS
<1>2. PICK k : k = allocator[i].key
  OBVIOUS
<1>3. /\ pc[a] = "writing" /\ allocator' = [allocator EXCEPT ![i].space = work[a].space]
      /\ UNCHANGED <<handles, instance>>
  BY <1>1 DEF Commit
<1>4. /\ req[a].type \in OnSpace /\ WellFormed(req[a]) /\ req[a].handle \in Handles
      /\ handles[req[a].handle] = i /\ i # Nobody
  BY <1>1, <1>3, UsingHandle, ActorRequest DEF Using, ServerInv
<1>5. i \in Handles /\ k \in Keys /\ instance[k] = i /\ instance[k] # Nobody
  <2>1. i \in Handles /\ Users(i) # {}
    BY <1>4, UsersOfOpen DEF ServerInv
  <2> QED
    BY <1>2, <1>4, <2>1 DEF ServerInv, MapsInv
<1>6. work[a] \in Outcomes(req[a], allocator[i].space)
  BY <1>1, <1>3 DEF LockInv
<1>7. /\ allocator'[i].space = work[a].space
      /\ \A j \in Handles : /\ allocator'[j].refcount = allocator[j].refcount
                            /\ j # i => allocator'[j].space = allocator[j].space
  BY <1>3, <1>5 DEF ServerInv, TypeInv, TypeOK
<1>8. CountIsUsers /\ CountIsUsers'
  BY CountsUsers, CountsUsersNext
<1>9. UsersOf[k] > 0
  <2>1. UsersOf[k] = allocator[instance[k]].refcount
    BY <1>5, <1>8 DEF CountIsUsers
  <2> QED
    BY <1>5, <2>1, KeysApart
<1>10. \A l \in Keys : UsersOf'[l] = UsersOf[l]
  BY <1>3, <1>7, <1>8, KeysApart DEF CountIsUsers
<1>11. UNCHANGED UsersOf
  BY <1>10 DEF UsersOf
<1>12. SpaceOf[k] = allocator[i].space /\ SpaceOf'[k] = work[a].space
  BY <1>3, <1>5, <1>7 DEF SpaceOf
<1>13. ASSUME NEW l \in Keys, l # k PROVE SpaceOf'[l] = SpaceOf[l]
  <2>1. instance[l] # Nobody => instance[l] \in Handles /\ instance[l] # i
    BY <1>2, <1>13, KeysApart
  <2> QED
    BY <1>3, <1>7, <2>1 DEF SpaceOf
<1>14. SpaceOf' = [SpaceOf EXCEPT ![k] = work[a].space]
  BY <1>5, <1>12, <1>13 DEF SpaceOf
<1>15. \/ work[a].space = SpaceOf[k]
       \/ \E s \in Slots : work[a].space = [SpaceOf[k] EXCEPT ![s] = Nobody]
       \/ \E s \in Slots, o \in Owners :
            SpaceOf[k][s] = Nobody /\ work[a].space = [SpaceOf[k] EXCEPT ![s] = o]
  <2>1. OnePlace(SpaceOf[k], work[a].space)
    BY <1>4, <1>6, <1>12, OutcomesShape
  <2> QED
    BY <2>1 DEF OnePlace
<1>16. CASE work[a].space = SpaceOf[k]
  <2>1. UNCHANGED SpaceOf
    BY <1>14, <1>16 DEF SpaceOf
  <2> QED
    BY <1>5, <1>9, <1>11, <2>1
<1>17. CASE \E s \in Slots : work[a].space = [SpaceOf[k] EXCEPT ![s] = Nobody]
  <2>1. \E s \in Slots : SpaceOf' = [SpaceOf EXCEPT ![k][s] = Nobody]
    BY <1>14, <1>17
  <2> QED
    BY <1>5, <1>9, <1>11, <2>1
<1>18. CASE \E s \in Slots, o \in Owners :
              SpaceOf[k][s] = Nobody /\ work[a].space = [SpaceOf[k] EXCEPT ![s] = o]
  <2>1. \E s \in Slots, o \in Owners :
          SpaceOf[k][s] = Nobody /\ SpaceOf' = [SpaceOf EXCEPT ![k][s] = o]
    BY <1>14, <1>18
  <2> QED
    BY <1>5, <1>9, <1>11, <2>1
<1> QED
  BY <1>15, <1>16, <1>17, <1>18

LEMMA NextShared == ServerInv /\ ViewInv /\ ServerInv' /\ [Next]_vars => [Shared!Next]_Shared!vars
<1> SUFFICES ASSUME ServerInv, ViewInv, ServerInv', [Next]_vars PROVE [Shared!Next]_Shared!vars
  OBVIOUS
<1>1. UNCHANGED UsersOf /\ UNCHANGED SpaceOf => UNCHANGED Shared!vars
  BY DEF UsersOf, SpaceOf, Shared!vars
<1>2. UNCHANGED maps => UNCHANGED Shared!vars
  BY DEF maps, Shared!vars
<1>3. ASSUME NEW a \in Actors, OpenAllocator(a) PROVE Shared!Next
  <2>1. PICK k \in Keys : UsersOf' = [UsersOf EXCEPT ![k] = @ + 1] /\ UNCHANGED SpaceOf
    BY <1>3, OpenShared
  <2>2. Shared!Open(k)
    BY <2>1 DEF Shared!Open, UsersOf, SpaceOf
  <2> QED
    BY <2>1, <2>2 DEF Shared!Next
<1>4. ASSUME NEW a \in Actors, CloseAllocator(a) PROVE Shared!Next
  <2>1. PICK k \in Keys : /\ UsersOf[k] > 0 /\ UsersOf' = [UsersOf EXCEPT ![k] = @ - 1]
                          /\ SpaceOf' = IF UsersOf[k] = 1 THEN [SpaceOf EXCEPT ![k] = Empty] ELSE SpaceOf
    BY <1>4, CloseShared
  <2>2. Shared!Empty = Empty
    BY DEF Shared!Empty, Empty
  <2>3. Shared!Close(k)
    BY <2>1, <2>2 DEF Shared!Close, UsersOf, SpaceOf
  <2> QED
    BY <2>1, <2>3 DEF Shared!Next
<1>5. ASSUME NEW a \in Actors, Commit(a) PROVE [Shared!Next]_Shared!vars
  <2>1. PICK k \in Keys :
          /\ UsersOf[k] > 0 /\ UNCHANGED UsersOf
          /\ \/ UNCHANGED SpaceOf
             \/ \E s \in Slots : SpaceOf' = [SpaceOf EXCEPT ![k][s] = Nobody]
             \/ \E s \in Slots, o \in Owners :
                  SpaceOf[k][s] = Nobody /\ SpaceOf' = [SpaceOf EXCEPT ![k][s] = o]
    BY <1>5, CommitShared DEF ViewInv
  <2>2. CASE UNCHANGED SpaceOf
    BY <1>1, <2>1, <2>2
  <2>3. CASE \E s \in Slots : SpaceOf' = [SpaceOf EXCEPT ![k][s] = Nobody]
    <3>1. PICK s \in Slots : SpaceOf' = [SpaceOf EXCEPT ![k][s] = Nobody]
      BY <2>3
    <3>2. Shared!GiveBack(k, s)
      BY <2>1, <3>1 DEF Shared!GiveBack, UsersOf, SpaceOf
    <3> QED
      BY <2>1, <3>1, <3>2 DEF Shared!Next
  <2>4. CASE \E s \in Slots, o \in Owners :
               SpaceOf[k][s] = Nobody /\ SpaceOf' = [SpaceOf EXCEPT ![k][s] = o]
    <3>1. PICK s \in Slots, o \in Owners :
            SpaceOf[k][s] = Nobody /\ SpaceOf' = [SpaceOf EXCEPT ![k][s] = o]
      BY <2>4
    <3>2. Shared!Take(k, s, o)
      BY <2>1, <3>1 DEF Shared!Take, UsersOf, SpaceOf
    <3> QED
      BY <2>1, <3>1, <3>2 DEF Shared!Next
  <2> QED
    BY <2>1, <2>2, <2>3, <2>4
<1>6. ASSUME NEW a \in Actors, HandleRequest(a) PROVE [Shared!Next]_Shared!vars
  <2>1. \/ OpenAllocator(a) \/ CloseAllocator(a) \/ Commit(a) \/ UNCHANGED maps
    BY <1>6 DEF HandleRequest, LockMaps, CloseUnknown, Find, FindFails, LockAllocator, Compute
  <2> QED
    BY <1>2, <1>3, <1>4, <1>5, <2>1
<1>7. CASE ~\E a \in Actors : HandleRequest(a)
  <2>1. Server \in Actors /\ Threads \subseteq Actors
    BY DEF Actors
  <2>2. UNCHANGED maps
    <3>1. ASSUME NEW c \in Clients, Call(c) PROVE UNCHANGED maps
      BY <3>1 DEF Call
    <3>2. ASSUME NEW c \in Children, ChildStep(c) \/ Fork(c) \/ Detach(c) \/ OpenDetached(c)
          PROVE  UNCHANGED maps
      BY <3>2 DEF ChildStep, SendRequest, ReceiveResponse, ChannelGone, Fork, Detach, OpenDetached
    <3>3. CASE ServerStep
      BY <1>7, <2>1, <3>3 DEF ServerStep, ReceiveRequest, SendResponse, ServerGivesUp
    <3>4. CASE SendStop \/ Deinit \/ Join
      BY <3>4 DEF SendStop, Deinit, Join
    <3>5. CASE UNCHANGED vars
      BY <3>5 DEF vars
    <3> QED
      BY <1>7, <2>1, <3>1, <3>2, <3>3, <3>4, <3>5 DEF Next
  <2> QED
    BY <1>2, <2>2
<1> QED
  BY <1>6, <1>7

\* Threads, messages, handles and two kinds of mutexes are a set of shared spaces: each
\* change of a space is one step of a client that has it open, and a space is there as
\* long as a handle of it is.
THEOREM SpacesAreShared == Spec => IsSharedSpaces
<1>1. Init => Shared!Init
  <2> SUFFICES ASSUME Init PROVE Shared!Init
    OBVIOUS
  <2>1. UsersOf = [k \in Keys |-> 0]
    <3>1. {h \in Handles : handles[h] # Nobody} = {}
      BY DEF Init
    <3>2. \A k \in Keys : {h \in Handles : handles[h] # Nobody /\ allocator[handles[h]].key = k} = {}
      BY <3>1
    <3> QED
      BY <3>2, FS_EmptySet DEF UsersOf
  <2>2. SpaceOf = [k \in Keys |-> Empty] /\ Shared!Empty = Empty
    BY DEF Init, SpaceOf, Shared!Empty, Empty
  <2> QED
    BY <2>1, <2>2 DEF Shared!Init, UsersOf, SpaceOf
<1>2. Init => ServerInv /\ ViewInv
  BY InitInv, InitView
<1>3. (ServerInv /\ ViewInv) /\ [Next]_vars => (ServerInv /\ ViewInv)' /\ [Shared!Next]_Shared!vars
  BY NextInv, NextView, NextShared
<1> QED
  BY <1>1, <1>2, <1>3, PTL DEF Spec, IsSharedSpaces, Shared!Spec
=============================================================================
