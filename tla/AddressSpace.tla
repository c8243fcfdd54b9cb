---------------------------- MODULE AddressSpace ----------------------------
(***************************************************************************)
(* What an address allocator promises: an area is handed out only when     *)
(* every address of it is free, and exactly its addresses become free      *)
(* again when it is given back.                                            *)
(***************************************************************************)
EXTENDS Integers

CONSTANT Addresses

VARIABLES
  free,   \* the addresses nobody has
  taken   \* the areas handed out: <<purpose, [offset, size, ...]>>

vars == <<free, taken>>

Area(r) == r[2].offset .. r[2].offset + r[2].size - 1

Init == free = Addresses /\ taken = {}

Take(r) ==
  /\ Area(r) # {} /\ Area(r) \subseteq free
  /\ free' = free \ Area(r) /\ taken' = taken \cup {r}

Release(r) ==
  /\ free' = free \cup Area(r) /\ taken' = taken \ {r}

Next == (\E r \in taken' \ taken : Take(r)) \/ (\E r \in taken : Release(r))

Spec == Init /\ [][Next]_vars
=============================================================================
