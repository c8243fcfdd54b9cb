----------------------------- MODULE Dictionary -----------------------------
(***************************************************************************)
(* What a map promises: a call that inserts something has done so when it  *)
(* returns, and the data inserted last with a key is found until the key   *)
(* is removed.  Once a larger map was refused, an insertion may fail; then *)
(* it has changed nothing.                                                 *)
(***************************************************************************)
CONSTANTS Keys, Data, NoData

VARIABLES
  dict,
  request,   \* what is being inserted: key and data, or <<>>
  refused

vars == <<dict, request, refused>>

Init == dict = [k \in Keys |-> NoData] /\ request = <<>> /\ refused = FALSE

Insert(k, d) == request = <<>> /\ request' = <<k, d>> /\ UNCHANGED <<dict, refused>>

Inserted ==
  /\ request # <<>> /\ request' = <<>>
  /\ dict' = [dict EXCEPT ![request[1]] = request[2]]
  /\ UNCHANGED refused

Refuse == request # <<>> /\ refused' = TRUE /\ UNCHANGED <<dict, request>>
Fail   == request # <<>> /\ request' = <<>> /\ refused /\ UNCHANGED <<dict, refused>>

Remove(k) == request = <<>> /\ dict' = [dict EXCEPT ![k] = NoData] /\ UNCHANGED <<request, refused>>

Next == Inserted \/ Refuse \/ Fail \/ \E k \in Keys : Remove(k) \/ \E d \in Data : Insert(k, d)

Spec == Init /\ [][Next]_vars
=============================================================================
