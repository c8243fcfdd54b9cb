---------------------------- MODULE SharedSpaces ----------------------------
(***************************************************************************)
(* What the allocator server promises to those who share an address space  *)
(* by its key: it lives exactly as long as somebody has it open.  Until    *)
(* then one place after the other is taken or given back; with the last    *)
(* one who closes it, and not before, everything in it is gone.            *)
(***************************************************************************)
EXTENDS Integers

CONSTANTS Keys, Slots, Owners, Free

VARIABLES
  users,  \* how often the space of a key is open
  space   \* who has which place in it

vars == <<users, space>>

Empty == [s \in Slots |-> Free]

Init == users = [k \in Keys |-> 0] /\ space = [k \in Keys |-> Empty]

Open(k) == users' = [users EXCEPT ![k] = @ + 1] /\ UNCHANGED space

Close(k) ==
  /\ users[k] > 0
  /\ users' = [users EXCEPT ![k] = @ - 1]
  /\ space' = IF users[k] = 1 THEN [space EXCEPT ![k] = Empty] ELSE space

Take(k, s, o) ==
  /\ users[k] > 0 /\ space[k][s] = Free
  /\ space' = [space EXCEPT ![k][s] = o] /\ UNCHANGED users

GiveBack(k, s) ==
  /\ users[k] > 0
  /\ space' = [space EXCEPT ![k][s] = Free] /\ UNCHANGED users

Next == \E k \in Keys : \/ Open(k) \/ Close(k)
                        \/ \E s \in Slots : GiveBack(k, s) \/ \E o \in Owners : Take(k, s, o)

Spec == Init /\ [][Next]_vars
=============================================================================
