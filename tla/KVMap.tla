-------------------------------- MODULE KVMap --------------------------------
(***************************************************************************)
(* What the B+tree promises the storage engine: a map from keys to values  *)
(* with insert (refused for a key that is present), search and delete.     *)
(***************************************************************************)
CONSTANTS Keys, Values, NoValue

VARIABLES map,      \* what a search for each key finds
          answer    \* the last call and whether it returned true

vars == <<map, answer>>

Answer == [op : {"none", "insert", "delete"}, ok : BOOLEAN]
Empty  == [k \in Keys |-> NoValue]

Init == map = Empty /\ answer = [op |-> "none", ok |-> TRUE]

Insert(k, v) ==
    \/ /\ answer' = [op |-> "insert", ok |-> TRUE]
       /\ map[k] = NoValue
       /\ map' = [map EXCEPT ![k] = v]
    \/ /\ answer' = [op |-> "insert", ok |-> FALSE]
       /\ map[k] # NoValue
       /\ UNCHANGED map

Delete(k) ==
    /\ answer' = [op |-> "delete", ok |-> map[k] # NoValue]
    /\ map' = [map EXCEPT ![k] = NoValue]

Next == \E k \in Keys : Delete(k) \/ \E v \in Values : Insert(k, v)

Spec == Init /\ [][Next]_vars
=============================================================================
