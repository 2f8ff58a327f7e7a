----------------------------- MODULE TableSpace -----------------------------
(* What the storage engine promises its callers: named tables, each a map  *)
(* from keys to values, that closing, reopening and a normal stop of the   *)
(* process do not change.  Only a step with a fault (a failing read or     *)
(* write, a process killed) may refuse what would be done otherwise, or    *)
(* take a table back to what its file held.  A table whose creation or     *)
(* whose last write stopped part-way may be Broken: it reads as empty and  *)
(* refuses every change.                                                   *)
EXTENDS Naturals

CONSTANTS Names, Keys, Values, NoValue, NoTable, Broken

VARIABLES table,    \* what a reader finds
          saved,    \* what a reader would find if the process were killed now
          faults,   \* faults so far
          answer    \* what the last call on a record or a table returned

vars == <<table, saved, faults, answer>>

Empty == [k \in Keys |-> NoValue]
Maps  == [Keys -> Values \cup {NoValue}]
Answer(op, t, k, result) == [op |-> op, table |-> t, key |-> k, result |-> result]
None  == Answer("none", NoTable, NoValue, FALSE)

Init == /\ table = [t \in Names |-> NoTable] /\ saved = table
        /\ faults = 0 /\ answer = None

Fault == faults' > faults

(* Without a fault a file holds what it held, or the table as it is now.   *)
Saving == Fault \/ \A t \in Names : saved'[t] \in {saved[t], table'[t]}

Holds(t, k) == table[t] \in Maps /\ table[t][k] # NoValue

(* A table is also created, empty, by opening one that does not exist.     *)
Create(t) == /\ answer' \in {Answer("create", t, NoValue, TRUE), None}
             /\ table[t] = NoTable
             /\ table' = [table EXCEPT ![t] = Empty] /\ saved'[t] = Empty

Put(t, k, v)    == table' = [table EXCEPT ![t][k] = v]
Insert(t, k, v) == /\ answer' = Answer("insert", t, k, TRUE)
                   /\ table[t] \in Maps /\ ~Holds(t, k) /\ Put(t, k, v)
Update(t, k, v) == /\ answer' = Answer("update", t, k, TRUE)
                   /\ Holds(t, k) /\ Put(t, k, v)
Delete(t, k)    == /\ answer' = Answer("delete", t, k, TRUE)
                   /\ Holds(t, k) /\ Put(t, k, NoValue)

(* The old record is deleted first: where the new one is refused, and this *)
(* takes a fault or an update of a table's only record, nothing is left.   *)
LostUpdate(t, k) == /\ answer' = Answer("update", t, k, FALSE)
                    /\ Holds(t, k) /\ Put(t, k, NoValue)
                    /\ Fault \/ table'[t] = Empty

(* Without a fault, an insert is refused for a key that is there or, in an *)
(* empty table, when there is no page for its root.                        *)
RefuseInsert(t, k) == /\ answer' = Answer("insert", t, k, FALSE)
                      /\ Fault \/ Holds(t, k) \/ table[t] \in {Broken, Empty}
                      /\ UNCHANGED table
RefuseChange(t, k) == /\ \E op \in {"update", "delete"} : answer' = Answer(op, t, k, FALSE)
                      /\ Fault \/ ~Holds(t, k)
                      /\ UNCHANGED table

Get(t, k) == /\ answer'.op = "get"
             /\ \/ answer' = Answer("get", t, k, IF Holds(t, k) THEN table[t][k] ELSE NoValue)
                \/ Fault /\ answer' = Answer("get", t, k, NoValue)
             /\ UNCHANGED table

RefuseCreate(t) == /\ answer' = Answer("create", t, NoValue, FALSE)
                   /\ Fault \/ table[t] # NoTable
                   /\ UNCHANGED table

Drop(t) == /\ answer' = Answer("drop", t, NoValue, table[t] # NoTable)
           /\ table' = [table EXCEPT ![t] = NoTable] /\ saved'[t] = NoTable

Other == answer' = None /\ UNCHANGED table

(* With a fault, tables go back to what their files hold, and a creation   *)
(* that stops part-way leaves a file.                                      *)
Lose == /\ Fault
        /\ \A t \in Names : table'[t] \in {table[t], saved'[t]}
        /\ \/ answer' = None
           \/ \E t \in Names, op \in {"create", "drop"} :
                 answer' = Answer(op, t, NoValue, FALSE)

Next == /\ Saving
        /\ \/ \E t \in Names : Create(t) \/ RefuseCreate(t) \/ Drop(t)
           \/ \E t \in Names, k \in Keys :
                \/ Delete(t, k) \/ LostUpdate(t, k)
                \/ RefuseInsert(t, k) \/ RefuseChange(t, k)
                \/ Get(t, k)
                \/ \E v \in Values : Insert(t, k, v) \/ Update(t, k, v)
           \/ Other \/ Lose

Spec == Init /\ [][Next]_vars
=============================================================================
