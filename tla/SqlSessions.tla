----------------------------- MODULE SqlSessions -----------------------------
(***************************************************************************)
(* What the SQL server promises its clients: statements of one session are *)
(* executed one at a time, once each, in the order they were sent, each in *)
(* the database that session selected last, whatever other sessions do.    *)
(***************************************************************************)
EXTENDS Sequences

CONSTANTS
    Conns, Dbs, Tables, Statements,
    None,      \* no database selected
    Reserved   \* names that stand for no database: selecting one selects none

VARIABLES databases,  \* existing databases
          tables,     \* existing tables, pairs <<database, table>>
          session,    \* the database a session has selected, or None
          pending,    \* statements sent by a session and not executed yet
          open        \* sessions that can send

vars == <<databases, tables, session, pending, open>>

Init == /\ databases \in SUBSET Dbs
        /\ tables = {}
        /\ session = [c \in Conns |-> None]
        /\ pending = [c \in Conns |-> <<>>]
        /\ open = {}

Open(c) == /\ c \notin open
           /\ open' = open \union {c}
           /\ session' = [session EXCEPT ![c] = None]
           /\ UNCHANGED <<databases, tables, pending>>

Submit(c, s) == /\ c \in open
                /\ pending' = [pending EXCEPT ![c] = Append(@, s)]
                /\ UNCHANGED <<databases, tables, session, open>>

\* a session ends; what it sent and was not executed is dropped
Close(c) == /\ c \in open
            /\ open' = open \ {c}
            /\ pending' = [pending EXCEPT ![c] = <<>>]
            /\ UNCHANGED <<databases, tables, session>>

Selected(d) == IF d \in Reserved THEN None ELSE d

Use(c, d) == /\ session' = IF d \in databases THEN [session EXCEPT ![c] = Selected(d)]
                                              ELSE session
             /\ UNCHANGED <<databases, tables>>

CreateDatabase(d) == /\ databases' = databases \union {d}
                     /\ UNCHANGED <<tables, session>>

CreateTable(c, t) ==
    LET d == session[c]
    IN  /\ IF d = None
           THEN UNCHANGED <<databases, tables>>
           ELSE /\ tables' = tables \union {<<d, t>>}
                /\ databases' = databases \union {d}
        /\ UNCHANGED session

\* a statement that does not parse or is not supported
NoEffect == UNCHANGED <<databases, tables, session>>

Execute(c) ==
    /\ c \in open
    /\ pending[c] # <<>>
    /\ pending' = [pending EXCEPT ![c] = Tail(@)]
    /\ LET s == Head(pending[c])
       IN  \/ s.op = "use" /\ Use(c, s.arg)
           \/ s.op = "create database" /\ CreateDatabase(s.arg)
           \/ s.op = "create table" /\ CreateTable(c, s.arg)
           \/ s.op = "other" /\ NoEffect
    /\ UNCHANGED open

\* the session's database is gone: its statement is refused
Refuse(c) == /\ c \in open
             /\ pending[c] # <<>>
             /\ session[c] \notin databases \union {None}
             /\ pending' = [pending EXCEPT ![c] = Tail(@)]
             /\ UNCHANGED <<databases, tables, session, open>>

\* a database directory is removed from outside
Remove(d) == /\ databases' = databases \ {d}
             /\ tables' = {p \in tables : p[1] # d}
             /\ UNCHANGED <<session, pending, open>>

Next == \/ \E c \in Conns : Open(c) \/ Close(c) \/ Execute(c) \/ Refuse(c)
        \/ \E c \in Conns, s \in Statements : Submit(c, s)
        \/ \E d \in Dbs : Remove(d)

Spec == Init /\ [][Next]_vars
=============================================================================
