--------------------------- MODULE CatalogStore ---------------------------
(* What the SQL server's catalog promises to its callers, without its      *)
(* cache: every table has one header page ("head", the row-id and          *)
(* AUTO_INCREMENT counters) and one meta page ("body", the schema).        *)
(* meta is what the next read answers, saved what the table file holds.    *)
(* Any operation may write pages out; only Stop (the process gone) and     *)
(* Reload go back to what the file holds.  A change of database does not:  *)
(* the cache is documented to flush its dirty pages first.                 *)
EXTENDS Naturals

CONSTANTS Dbs, Names, Counters, Schemas, None

VARIABLES meta, saved, answer

vars == <<meta, saved, answer>>

Tables == Dbs \X Names
Parts  == {"head", "body"}
Error == [table |-> None, value |-> None]
Answer(t, v) == [table |-> t, value |-> v]

FirstIds == [c \in Counters |-> IF c = "row" THEN 1 ELSE 0]
New(s)   == [head |-> FirstIds, body |-> s]

Init == /\ meta = [t \in Tables |-> None] /\ saved = meta
        /\ answer = Error

(* Pages of meta reach the file in any number; the file holds nothing else. *)
KeptOrSaved(t) == \/ saved'[t] = saved[t]
                  \/ /\ saved[t] # None /\ saved'[t] # None
                     /\ \A p \in Parts : saved'[t][p] \in {saved[t][p], meta[t][p]}
Saving == \A t \in Tables : KeptOrSaved(t)

(* The file of a new table holds both pages, or only the header page when  *)
(* the creation failed on the way; other tables may be written out.        *)
Make(t, s) == /\ saved[t] = None /\ saved'[t] = New(s)
              /\ meta' = [meta EXCEPT ![t] = New(s)]
              /\ \A u \in Tables \ {t} : KeptOrSaved(u)
Create(t, s)  == answer' \in {Answer(t, s), Error} /\ Make(t, s)
CreateTorn(t) == answer' = Error /\ Make(t, None)

Readable(t) == meta[t] # None /\ meta[t].body # None

Take(t, c) ==
    /\ Readable(t)
    /\ answer' = Answer(t, meta[t].head[c])
    /\ meta' = [meta EXCEPT ![t].head[c] = @ + 1]
    /\ Saving

Read(t) == /\ Readable(t) /\ answer' = Answer(t, meta[t].body)
           /\ Saving /\ UNCHANGED meta

Alter(t, s) == /\ Readable(t) /\ answer' = Answer(t, s)
               /\ meta' = [meta EXCEPT ![t].body = s]
               /\ Saving

Fail == answer' = Error /\ UNCHANGED meta /\ Saving

(* The explicit reload of a table: its pages may fall back to the file's. *)
Reload(t) == /\ Readable(t)
             /\ answer' = Error /\ UNCHANGED saved
             /\ \E P \in SUBSET Parts :
                   meta' = [meta EXCEPT ![t] = [p \in Parts |-> IF p \in P THEN saved[t][p] ELSE @[p]]]

(* The process stops: nothing is answered, what was not written is gone.   *)
Stop == answer' = None /\ UNCHANGED saved /\ meta' = saved

(* A dropped database takes its tables along; the others are untouched.    *)
Drop(d) == /\ answer' = Error
           /\ meta'  = [t \in Tables |-> IF t[1] = d THEN None ELSE meta[t]]
           /\ saved' = [t \in Tables |-> IF t[1] = d THEN None ELSE saved[t]]

Next == \/ Fail \/ Stop \/ \E d \in Dbs : Drop(d)
        \/ \E t \in Tables : \/ CreateTorn(t) \/ Read(t) \/ Reload(t)
                             \/ \E s \in Schemas : Create(t, s) \/ Alter(t, s)
                             \/ \E c \in Counters : Take(t, c)

Spec == Init /\ [][Next]_vars
=============================================================================
