------------------------------ MODULE HashMap ------------------------------
(***************************************************************************)
(* lib/igt_map.c: a hash table with open addressing.  A key is looked for  *)
(* along a path of entries that its hash decides; a removed entry is       *)
(* marked and stays on the paths that go through it; when entries and      *)
(* marks are too many, what is present moves to a new table by insertions, *)
(* each of which may need a new table itself.                              *)
(*                                                                         *)
(* The code's hashes have 32 bits.  A definition marked "mutant" is a      *)
(* deliberately wrong variant of the one below it.                         *)
(***************************************************************************)
EXTENDS Integers, Sequences, FiniteSets, FiniteSetsExt, SequencesExt

CONSTANTS
  Keys, Data,
  Hash,                    \* hash_function
  Free, Deleted, NoData,   \* key NULL and deleted_key, data of nothing
  Row                      \* hash_sizes

\* Sizes are primes: a multiple of one is no product of two smaller numbers.
IsPrime(n) == n > 1 /\ \A a, b \in 1 .. n - 1 : (a * b) % n # 0

ASSUME HashMapAssumption ==
  /\ Hash \in [Keys -> Nat]
  /\ Free \notin Keys /\ Deleted \notin Keys /\ Free # Deleted /\ NoData \notin Data
  /\ Row \in Seq([max_entries : Nat \ {0}, size : Nat, rehash : Nat]) /\ Row # <<>>
  /\ \A r \in DOMAIN Row :
       /\ Row[r].max_entries < Row[r].rehash /\ Row[r].rehash < Row[r].size
       /\ IsPrime(Row[r].size)
       /\ r > 1 => Row[r - 1].max_entries < Row[r].max_entries /\ Row[r - 1].size < Row[r].size

VARIABLES
  map,      \* size_index, table, entries, deleted_entries
  calls,    \* the calls of igt_map_insert_pre_hashed(), the innermost is the last
  cursor,   \* position of an igt_map_foreach(), or NotIterating
  visited,  \* keys it has come to
  refused   \* whether there was no new table, ever

vars == <<map, calls, cursor, visited, refused>>

NotIterating == -1
AtEnd == -2

FreeEntry == [key |-> Free, data |-> NoData]

EmptyMap(index) ==
  [index |-> index, table |-> [p \in 0 .. Row[index].size - 1 |-> FreeEntry],
   entries |-> 0, deleted_entries |-> 0]

\* A call checks whether it needs a new table, moves the entries of the old one to it
\* from a position on, and puts its own entry where it belongs.
Call(step, k, d, old, at) == [step |-> step, key |-> k, data |-> d, old |-> old, at |-> at]
NoOld == EmptyMap(1)
Called(k, d) == Call("check", k, d, NoOld, 0)

Init == map = EmptyMap(1) /\ calls = <<>> /\ cursor = NotIterating /\ visited = {} /\ refused = FALSE

Present(e) == e.key \notin {Free, Deleted}

-----------------------------------------------------------------------------
(***************************************************************************)
(* The path of a key: from its start, by a step of its own, back to the    *)
(* start.                                                                  *)
(***************************************************************************)
Size(m) == Row[m.index].size

StepMayBeZero(r, k) == Hash[k] % Row[r].rehash  \* mutant
Step(r, k) == 1 + (Hash[k] % Row[r].rehash)

PathPosition(r, k, i) == ((Hash[k] % Row[r].size) + i * Step(r, k)) % Row[r].size
Round(r, k) == Min({i \in 1 .. Row[r].size : PathPosition(r, k, i) = PathPosition(r, k, 0)})
Path == [r \in DOMAIN Row |-> [k \in Keys |-> [i \in 0 .. Round(r, k) - 1 |-> PathPosition(r, k, i)]]]

OnPath(m, k) == DOMAIN Path[m.index][k]
EntryAt(m, k, i) == m.table[Path[m.index][k][i]]

\* igt_map_search_pre_hashed(): a search stops at the key and at a free entry.
Stops(m, k) == {i \in OnPath(m, k) : EntryAt(m, k, i).key \in {Free, k}}

Finds(m, k) ==
  LET stops == Stops(m, k) IN stops # {} /\ EntryAt(m, k, Min(stops)).key = k
Position(m, k) == Path[m.index][k][Min(Stops(m, k))]
Search(m, k) == IF Finds(m, k) THEN m.table[Position(m, k)].data ELSE NoData

-----------------------------------------------------------------------------
(***************************************************************************)
(* igt_map_insert_pre_hashed(): replace, or take the first entry that is   *)
(* not present on the way.                                                 *)
(***************************************************************************)
Available(m, k) ==
  {i \in OnPath(m, k) : ~Present(EntryAt(m, k, i)) /\ \A j \in Stops(m, k) : i <= j}

PutFirst(m, k, d) ==  \* mutant
  IF Available(m, k) = {} THEN m
  ELSE LET i == Min(Available(m, k))
       IN [m EXCEPT !.table[Path[m.index][k][i]] = [key |-> k, data |-> d],
                    !.entries = @ + 1,
                    !.deleted_entries = IF EntryAt(m, k, i).key = Deleted THEN @ - 1 ELSE @]

PutKeepsMarks(m, k, d) ==  \* mutant
  IF Finds(m, k) THEN [m EXCEPT !.table[Position(m, k)].data = d]
  ELSE IF Available(m, k) = {} THEN m
  ELSE LET i == Min(Available(m, k))
       IN [m EXCEPT !.table[Path[m.index][k][i]] = [key |-> k, data |-> d], !.entries = @ + 1]

Put(m, k, d) ==
  IF Finds(m, k) THEN [m EXCEPT !.table[Position(m, k)].data = d]
  ELSE IF Available(m, k) = {} THEN m
  ELSE LET i == Min(Available(m, k))
       IN [m EXCEPT !.table[Path[m.index][k][i]] = [key |-> k, data |-> d],
                    !.entries = @ + 1,
                    !.deleted_entries = IF EntryAt(m, k, i).key = Deleted THEN @ - 1 ELSE @]

\* The entries igt_map_foreach() still comes to, from position p on.
From(m, p) == {q \in p .. Size(m) - 1 : Present(m.table[q])}

\* The table an insertion needs: the next size, the same without marks, or none.
NewIndexOnlyGrows(m) ==  \* mutant
  IF m.entries >= Row[m.index].max_entries THEN m.index + 1 ELSE 0
NewIndex(m) ==
  IF m.entries >= Row[m.index].max_entries THEN m.index + 1
  ELSE IF m.deleted_entries + m.entries >= Row[m.index].max_entries THEN m.index
  ELSE 0

Top == Last(calls)
AtTop(call) == Front(calls) \o <<call>>

\* igt_map_insert()
Insert(k, d) ==
  /\ calls = <<>> /\ cursor = NotIterating
  /\ calls' = <<Called(k, d)>>
  /\ UNCHANGED <<map, cursor, visited, refused>>

\* The table is good, or there is no other: no larger size, or no memory.  Then the old
\* one is used, as long as it has room.
Keep ==
  /\ calls # <<>> /\ Top.step = "check"
  /\ refused' = (refused \/ NewIndex(map) # 0)
  /\ calls' = AtTop([Top EXCEPT !.step = "put"])
  /\ UNCHANGED <<map, cursor, visited>>

\* igt_map_rehash()
Rehash ==
  /\ calls # <<>> /\ Top.step = "check"
  /\ NewIndex(map) \in DOMAIN Row
  /\ map' = EmptyMap(NewIndex(map))
  /\ calls' = AtTop(Call("move", Top.key, Top.data, map, 0))
  /\ UNCHANGED <<cursor, visited, refused>>

Move ==
  /\ calls # <<>> /\ Top.step = "move"
  /\ From(Top.old, Top.at) # {}
  /\ LET q == Min(From(Top.old, Top.at))
         e == Top.old.table[q]
     IN calls' = Append(AtTop([Top EXCEPT !.at = q + 1]), Called(e.key, e.data))
  /\ UNCHANGED <<map, cursor, visited, refused>>

Moved ==
  /\ calls # <<>> /\ Top.step = "move"
  /\ From(Top.old, Top.at) = {}
  /\ calls' = AtTop(Call("put", Top.key, Top.data, NoOld, 0))
  /\ UNCHANGED <<map, cursor, visited, refused>>

\* The end of a call; one that finds no room returns NULL.
PutEntry ==
  /\ calls # <<>> /\ Top.step = "put"
  /\ map' = Put(map, Top.key, Top.data)
  /\ calls' = Front(calls)
  /\ UNCHANGED <<cursor, visited, refused>>

\* igt_map_remove(), also while somebody iterates over the map.
RemoveKey(k) ==
  /\ calls = <<>> /\ Finds(map, k)
  /\ map' = [map EXCEPT !.table[Position(map, k)] = [key |-> Deleted, data |-> NoData],
                        !.entries = @ - 1, !.deleted_entries = @ + 1]
  /\ UNCHANGED <<calls, cursor, visited, refused>>

-----------------------------------------------------------------------------
(***************************************************************************)
(* igt_map_foreach(): igt_map_next_entry() until it finds no more.         *)
(***************************************************************************)
Iterate ==
  /\ calls = <<>> /\ cursor = NotIterating /\ cursor' = 0 /\ visited' = {}
  /\ UNCHANGED <<map, calls, refused>>

NextEntrySkips ==  \* mutant
  /\ cursor # NotIterating /\ cursor # AtEnd
  /\ IF From(map, cursor) = {}
     THEN cursor' = AtEnd /\ UNCHANGED visited
     ELSE LET q == Min(From(map, cursor))
          IN cursor' = q + 2 /\ visited' = visited \cup {map.table[q].key}
  /\ UNCHANGED <<map, calls, refused>>

NextEntry ==
  /\ cursor # NotIterating /\ cursor # AtEnd
  /\ IF From(map, cursor) = {}
     THEN cursor' = AtEnd /\ UNCHANGED visited
     ELSE LET q == Min(From(map, cursor))
          IN cursor' = q + 1 /\ visited' = visited \cup {map.table[q].key}
  /\ UNCHANGED <<map, calls, refused>>

EndIteration ==
  /\ cursor = AtEnd /\ cursor' = NotIterating /\ visited' = {}
  /\ UNCHANGED <<map, calls, refused>>

Next ==
  \/ \E k \in Keys : RemoveKey(k) \/ \E d \in Data : Insert(k, d)
  \/ Keep \/ Rehash \/ Move \/ Moved \/ PutEntry
  \/ Iterate \/ NextEntry \/ EndIteration

Spec == Init /\ [][Next]_vars

-----------------------------------------------------------------------------
(***************************************************************************)
(* Properties.                                                             *)
(***************************************************************************)
Entries == [key : Keys, data : Data] \cup [key : {Free, Deleted}, data : {NoData}]
Marks(m) == {p \in 0 .. Size(m) - 1 : m.table[p].key = Deleted}

\* The counters, which decide when the table is replaced, agree with the table.
IsMap(m) ==
  /\ m \in [index : DOMAIN Row, table : [0 .. Size(m) - 1 -> Entries], entries : Nat, deleted_entries : Nat]
  /\ m.entries = Cardinality(From(m, 0)) /\ m.deleted_entries = Cardinality(Marks(m))

IsCall(call) ==
  /\ call \in [step : {"check", "move", "put"}, key : Keys, data : Data, old : {call.old}, at : 0 .. Size(call.old)]
  /\ IsMap(call.old)

TypeOK ==
  /\ IsMap(map)
  /\ calls \in Seq({calls[i] : i \in DOMAIN calls}) /\ \A i \in DOMAIN calls : IsCall(calls[i])
  /\ cursor \in {NotIterating, AtEnd} \cup 0 .. Size(map)
  /\ visited \subseteq Keys /\ refused \in BOOLEAN

\* Every search returns what a function from keys to data has there, whatever was
\* inserted, replaced, marked and moved before; an insertion that returns has inserted,
\* unless there once was no new table.  While entries are moved the map is the old one.
Whole   == IF calls # <<>> /\ calls[1].step = "move" THEN calls[1].old ELSE map
Request == IF calls = <<>> THEN <<>> ELSE <<calls[1].key, calls[1].data>>
Found   == INSTANCE Dictionary WITH dict <- [k \in Keys |-> Search(Whole, k)], request <- Request
IsDictionary == Found!Spec

\* Every entry is where a search for its key ends: none is cut off from its path by a
\* free entry, and none hides behind another entry with its key and comes back when
\* that one is removed.
IsReached(m) ==
  \A p \in From(m, 0) : Finds(m, m.table[p].key) /\ Position(m, m.table[p].key) = p
EntriesAreFound == IsReached(map)

\* While there are new tables there is a free entry, so that a search for a key that is
\* not there ends before it has been through the whole table.
FreeEntryLeft == refused \/ \E p \in 0 .. Size(map) - 1 : map.table[p].key = Free

\* So every search ends where it should.
SearchesEnd == EntriesAreFound /\ FreeEntryLeft

\* "an iteration over the map deleting entries is safe": at its end it has come to
\* everything that is still there.
IterationIsComplete ==
  cursor = AtEnd => \A p \in From(map, 0) : map.table[p].key \in visited
=============================================================================
