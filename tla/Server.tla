------------------------------- MODULE Server -------------------------------
(***************************************************************************)
(* src/server/main.cpp: the select() loop of the main thread and the one   *)
(* database worker thread, which share the connection map (conn_mutex) and *)
(* the task queue (queue_mutex).  The worker keeps a pointer into the map  *)
(* and uses it without the mutex.  A statement is run through              *)
(* TransactionManager::execute, whose only caller is this worker; with one *)
(* caller it is the blocking call of BlockingExecute, so it is one action. *)
(* An operator with an underscore in its name is a faulty variant of the   *)
(* one that follows it; the specification uses none of them.               *)
(***************************************************************************)
EXTENDS Naturals, Sequences, FiniteSets

CONSTANTS
    MaxConns,    \* bound: connections accepted
    Dbs,         \* database names
    Tables,      \* table names
    None,        \* the string "none", which a session without a database carries
    NoDb,        \* the empty string, DatabaseManager's current_db without a database
    Lines,       \* what a client may send as a line
    MaxLines,    \* bound: lines sent on all connections together
    RespLen,     \* length of a response, in units send() may split
    MaxRemovals  \* bound: database directories removed from outside

NL    == [op |-> "newline", arg |-> NoDb]
Empty == [op |-> "empty line", arg |-> NoDb]
Exit  == [op |-> "exit", arg |-> NoDb]          \* "exit;" or "quit;"

Statements ==
    [op : {"use", "create database"}, arg : Dbs]
        \union [op : {"create table"}, arg : Tables]
        \union [op : {"other"}, arg : {NoDb}]

\* No directory has an empty name; one may be called "none".
ASSUME ServerAssumption ==
    /\ MaxConns \in Nat /\ MaxLines \in Nat /\ MaxRemovals \in Nat
    /\ RespLen \in Nat \ {0}
    /\ NoDb \notin Dbs \union {None}
    /\ Lines \subseteq Statements \union {Exit, Empty}
    /\ {NL, Empty, Exit} \cap Statements = {}

Conns == 1..MaxConns

VARIABLES
    databases,   \* directories under the root path
    tables,      \* table files, pairs <<database, table>>
    currentDb,   \* DatabaseManager::current_db
    connState,   \* Connection::state; "ABSENT" when not in the map
    sessionDb,   \* Connection::current_db
    recvBuffer,  \* Connection::recv_buffer: words and newlines
    sendLeft,    \* bytes of Connection::response not sent yet
    nextId,      \* next_connection_id
    taskQueue,   \* task_queue: pairs of connection id and statement
    workerPc,    \* where the worker is in db_worker_thread
    task,        \* the worker's local task
    mainPc,      \* where the main thread is in its loop
    readSet,     \* read_fds
    writeSet,    \* write_fds
    todo,        \* ready connections this pass has still to visit
    stream,      \* external: sent by the client, not received yet
    peerOpen,    \* external: the client has not closed its socket
    sent,        \* external: number of lines sent
    removals     \* external: number of directories removed

fileVars   == <<databases, tables, currentDb>>
connVars   == <<connState, sessionDb, recvBuffer, sendLeft, nextId>>
workerVars == <<workerPc, task>>
mainVars   == <<mainPc, readSet, writeSet, todo>>
peerVars   == <<stream, peerOpen, sent, removals>>
vars == <<databases, tables, currentDb, connState, sessionDb, recvBuffer, sendLeft,
          nextId, taskQueue, workerPc, task, mainPc, readSet, writeSet, todo,
          stream, peerOpen, sent, removals>>

NoTask == [conn |-> 0, stmt |-> NoDb]

Init == /\ databases \in SUBSET Dbs
        /\ tables = {}
        /\ currentDb = NoDb
        /\ connState = [c \in Conns |-> "ABSENT"]
        /\ sessionDb = [c \in Conns |-> None]
        /\ recvBuffer = [c \in Conns |-> <<>>]
        /\ sendLeft = [c \in Conns |-> 0]
        /\ nextId = 1
        /\ taskQueue = <<>>
        /\ workerPc = "pop"
        /\ task = NoTask
        /\ mainPc = "build"
        /\ readSet = {} /\ writeSet = {} /\ todo = {}
        /\ stream = [c \in Conns |-> <<>>]
        /\ peerOpen = [c \in Conns |-> TRUE]
        /\ sent = 0
        /\ removals = 0

\* the main thread holds conn_mutex during its pass over the connections
ConnMutexFree == mainPc # "pass"

Live(c) == connState[c] \notin {"ABSENT", "CLOSED"}

-----------------------------------------------------------------------------
(* Lines in a receive buffer                                               *)

HasLine(buf)  == \E i \in DOMAIN buf : buf[i] = NL
FirstNL(buf)  == CHOOSE i \in DOMAIN buf : buf[i] = NL /\ \A j \in 1..(i - 1) : buf[j] # NL
FirstLine(buf) == IF FirstNL(buf) = 1 THEN Empty ELSE buf[1]
AfterLine(buf) == SubSeq(buf, FirstNL(buf) + 1, Len(buf))

\* the buffer without its leading empty lines
SkipEmpty(buf) ==
    IF \A i \in DOMAIN buf : buf[i] = NL
    THEN <<>>
    ELSE LET k == CHOOSE i \in DOMAIN buf : buf[i] # NL /\ \A j \in 1..(i - 1) : buf[j] = NL
         IN  SubSeq(buf, k, Len(buf))

-----------------------------------------------------------------------------
(* db_worker_thread                                                        *)

\* pop the oldest task; a timeout of wait_for with an empty queue changes nothing
Pop == /\ workerPc = "pop"
       /\ taskQueue # <<>>
       /\ task' = [conn |-> Head(taskQueue)[1], stmt |-> Head(taskQueue)[2]]
       /\ taskQueue' = Tail(taskQueue)
       /\ workerPc' = "lookup"
       /\ UNCHANGED <<fileVars, connVars, mainVars, peerVars>>

\* find the connection and keep a pointer to it
Lookup == /\ workerPc = "lookup"
          /\ ConnMutexFree
          /\ IF connState[task.conn] = "ABSENT"
             THEN workerPc' = "pop" /\ task' = NoTask
             ELSE workerPc' = "context" /\ UNCHANGED task
          /\ UNCHANGED <<fileVars, connVars, taskQueue, mainVars, peerVars>>

ClearCurrentDb_Skipped == currentDb' = currentDb
ClearCurrentDb == currentDb' = NoDb

\* bring the database manager to the session's database, through the pointer
SetContext ==
    /\ workerPc = "context"
    /\ LET d == sessionDb[task.conn]
       IN  \/ /\ d = None
              /\ ClearCurrentDb
              /\ workerPc' = "run"
           \/ /\ d \in databases \ {None}
              /\ currentDb' = d
              /\ workerPc' = "run"
           \/ /\ d \notin databases \union {None}
              /\ workerPc' = "publish"   \* the response is "Database does not exist"
              /\ UNCHANGED currentDb
    /\ UNCHANGED <<databases, tables, connVars, taskQueue, task, mainVars, peerVars>>

\* USE d
RunUse(d) == /\ currentDb' = IF d \in databases THEN d ELSE currentDb
             /\ UNCHANGED <<databases, tables>>

\* CREATE DATABASE d; an error if it exists
RunCreateDatabase(d) == /\ databases' = databases \union {d}
                        /\ UNCHANGED <<tables, currentDb>>

\* CREATE TABLE t; the directory is created again if it has been removed since
RunCreateTable(t) ==
    /\ IF currentDb = NoDb \/ <<currentDb, t>> \in tables
       THEN UNCHANGED <<databases, tables>>
       ELSE /\ tables' = tables \union {<<currentDb, t>>}
            /\ databases' = databases \union {currentDb}
    /\ UNCHANGED currentDb

\* run_query: parse, analyse, execute; errors are caught and reported as text
Run == /\ workerPc = "run"
       /\ LET s == task.stmt
          IN  \/ s.op = "use" /\ RunUse(s.arg)
              \/ s.op = "create database" /\ RunCreateDatabase(s.arg)
              \/ s.op = "create table" /\ RunCreateTable(s.arg)
              \/ s.op = "other" /\ UNCHANGED fileVars
       /\ workerPc' = "save"
       /\ UNCHANGED <<connVars, taskQueue, task, mainVars, peerVars>>

\* conn->current_db = current_db, through the pointer, with "none" for ""
Save == /\ workerPc = "save"
        /\ sessionDb' = [sessionDb EXCEPT ![task.conn] =
                            IF currentDb = NoDb THEN None ELSE currentDb]
        /\ workerPc' = "publish"
        /\ UNCHANGED <<fileVars, connState, recvBuffer, sendLeft, nextId, taskQueue, task,
                       mainVars, peerVars>>

\* hand the response to the main thread
Publish ==
    /\ workerPc = "publish"
    /\ ConnMutexFree
    /\ IF connState[task.conn] = "ABSENT"
       THEN UNCHANGED <<connState, sendLeft>>
       ELSE /\ connState' = [connState EXCEPT ![task.conn] = "WRITING"]
            /\ sendLeft' = [sendLeft EXCEPT ![task.conn] = RespLen]
    /\ workerPc' = "pop"
    /\ task' = NoTask
    /\ UNCHANGED <<fileVars, sessionDb, recvBuffer, nextId, taskQueue, mainVars, peerVars>>

Worker == Pop \/ Lookup \/ SetContext \/ Run \/ Save \/ Publish

-----------------------------------------------------------------------------
(* The main loop                                                           *)

Readers_WithPending == {"IDLE", "READING", "PENDING_RESULT"}
Readers == {"IDLE", "READING"}

BuildSets ==
    /\ mainPc = "build"
    /\ readSet'  = {c \in Conns : connState[c] \in Readers}
    /\ writeSet' = {c \in Conns : connState[c] = "WRITING"}
    /\ mainPc' = "select"
    /\ UNCHANGED <<fileVars, connVars, taskQueue, workerVars, todo, peerVars>>

Readable(c) == stream[c] # <<>> \/ ~peerOpen[c]

\* select(): W are the sockets with room to send, a tells that a client waits
\* to be accepted; with nothing ready it times out
Select(W, a) ==
    /\ mainPc = "select"
    /\ a => nextId <= MaxConns
    /\ LET R == {c \in readSet : Readable(c)}
       IN  /\ todo' = R \union W
           /\ readSet' = R
           /\ writeSet' = W
           /\ mainPc' = IF a THEN "accept" ELSE IF R \union W # {} THEN "pass" ELSE "build"
    /\ UNCHANGED <<fileVars, connVars, taskQueue, workerVars, peerVars>>

SelectAny == \E W \in SUBSET writeSet, a \in BOOLEAN : Select(W, a)

Accept == /\ mainPc = "accept"
          /\ connState' = [connState EXCEPT ![nextId] = "IDLE"]
          /\ sessionDb' = [sessionDb EXCEPT ![nextId] = None]
          /\ nextId' = nextId + 1
          /\ mainPc' = "pass"
          /\ UNCHANGED <<fileVars, recvBuffer, sendLeft, taskQueue, workerVars,
                         readSet, writeSet, todo, peerVars>>

\* close_socket, state CLOSED, to_remove.push_back
CloseConn(c, buf) ==
    /\ connState' = [connState EXCEPT ![c] = "CLOSED"]
    /\ recvBuffer' = [recvBuffer EXCEPT ![c] = buf]
    /\ UNCHANGED taskQueue

Push_Twice(c, s) == taskQueue' = taskQueue \o << <<c, s>>, <<c, s>> >>
Push(c, s) == taskQueue' = Append(taskQueue, <<c, s>>)

\* leave the statement s to the worker
Enqueue(c, s, buf) ==
    /\ connState' = [connState EXCEPT ![c] = "PENDING_RESULT"]
    /\ recvBuffer' = [recvBuffer EXCEPT ![c] = buf]
    /\ Push(c, s)

\* nothing to leave to the worker
Wait(c, st, buf) ==
    /\ connState' = [connState EXCEPT ![c] = st]
    /\ recvBuffer' = [recvBuffer EXCEPT ![c] = buf]
    /\ UNCHANGED taskQueue

\* the first complete line of buf, if there is one
TakeLine(c, buf) ==
    \/ ~HasLine(buf) /\ Wait(c, "READING", buf)
    \/ /\ HasLine(buf)
       /\ LET line == FirstLine(buf)
              rest == AfterLine(buf)
          IN  \/ line = Exit /\ CloseConn(c, rest)
              \/ line = Empty /\ Wait(c, "IDLE", rest)
              \/ line \notin {Exit, Empty} /\ Enqueue(c, line, rest)

\* recv_available got the first n units of the stream
Receive(c, n) ==
    /\ mainPc = "pass"
    /\ c \in todo \cap readSet
    /\ connState[c] \in {"IDLE", "READING"}
    /\ n \in 1..Len(stream[c])
    /\ TakeLine(c, recvBuffer[c] \o SubSeq(stream[c], 1, n))
    /\ stream' = [stream EXCEPT ![c] = SubSeq(@, n + 1, Len(@))]
    /\ todo' = todo \ {c}
    /\ UNCHANGED <<fileVars, sessionDb, sendLeft, nextId, workerVars, mainPc, readSet,
                   writeSet, peerOpen, sent, removals>>

\* recv_available or send_remaining reports that the peer is gone
PeerGone(c) ==
    /\ mainPc = "pass"
    /\ c \in todo
    /\ ~peerOpen[c]
    /\ CloseConn(c, recvBuffer[c])
    /\ todo' = todo \ {c}
    /\ UNCHANGED <<fileVars, sessionDb, sendLeft, nextId, workerVars, mainPc, readSet,
                   writeSet, peerVars>>

\* the line loop after a whole response was sent: the first non-empty line
NextLine_NoExit(c, buf) ==
    \/ ~HasLine(buf) /\ Wait(c, "IDLE", buf)
    \/ HasLine(buf) /\ Enqueue(c, FirstLine(buf), AfterLine(buf))
NextLine_Idle(c, buf) == Wait(c, "IDLE", buf)
NextLine(c, buf) ==
    \/ ~HasLine(buf) /\ Wait(c, "IDLE", buf)
    \/ /\ HasLine(buf)
       /\ IF FirstLine(buf) = Exit
          THEN CloseConn(c, AfterLine(buf))
          ELSE Enqueue(c, FirstLine(buf), AfterLine(buf))

\* send_remaining sent n bytes
Send(c, n) ==
    /\ mainPc = "pass"
    /\ c \in todo \cap writeSet
    /\ connState[c] = "WRITING"
    /\ n \in 1..sendLeft[c]
    /\ sendLeft' = [sendLeft EXCEPT ![c] = @ - n]
    /\ IF n < sendLeft[c]
       THEN UNCHANGED <<connState, recvBuffer, taskQueue>>
       ELSE NextLine(c, SkipEmpty(recvBuffer[c]))
    /\ todo' = todo \ {c}
    /\ UNCHANGED <<fileVars, sessionDb, nextId, workerVars, mainPc, readSet, writeSet,
                   peerVars>>

\* erase to_remove and release conn_mutex
EndPass ==
    /\ mainPc = "pass"
    /\ todo = {}
    /\ connState' = [c \in Conns |-> IF connState[c] = "CLOSED" THEN "ABSENT" ELSE connState[c]]
    /\ recvBuffer' = [c \in Conns |-> IF connState[c] = "CLOSED" THEN <<>> ELSE recvBuffer[c]]
    /\ stream' = [c \in Conns |-> IF connState[c] = "CLOSED" THEN <<>> ELSE stream[c]]
    /\ mainPc' = "build"
    /\ readSet' = {} /\ writeSet' = {}
    /\ UNCHANGED <<fileVars, sessionDb, sendLeft, nextId, taskQueue, workerVars, todo,
                   peerOpen, sent, removals>>

Visit(c) == \/ \E n \in 1..Len(stream[c]) : Receive(c, n)
            \/ \E n \in 1..sendLeft[c] : Send(c, n)
            \/ PeerGone(c)

Main == BuildSets \/ SelectAny \/ Accept \/ (\E c \in Conns : Visit(c)) \/ EndPass

-----------------------------------------------------------------------------
(* Outside the server                                                      *)

ClientSends(c) ==
    /\ Live(c) /\ peerOpen[c] /\ sent < MaxLines
    /\ \E line \in Lines :
          stream' = [stream EXCEPT ![c] =
                        @ \o (IF line = Empty THEN <<NL>> ELSE <<line, NL>>)]
    /\ sent' = sent + 1
    /\ UNCHANGED <<fileVars, connVars, taskQueue, workerVars, mainVars, peerOpen, removals>>

ClientCloses(c) ==
    /\ Live(c) /\ peerOpen[c]
    /\ peerOpen' = [peerOpen EXCEPT ![c] = FALSE]
    /\ UNCHANGED <<fileVars, connVars, taskQueue, workerVars, mainVars, stream, sent, removals>>

\* a database directory is removed by another program
DirectoryRemoved(d) ==
    /\ d \in databases
    /\ removals < MaxRemovals
    /\ databases' = databases \ {d}
    /\ tables' = {p \in tables : p[1] # d}
    /\ removals' = removals + 1
    /\ UNCHANGED <<currentDb, connVars, taskQueue, workerVars, mainVars, stream, peerOpen, sent>>

Next == \/ Main
        \/ Worker
        \/ \E c \in Conns : ClientSends(c) \/ ClientCloses(c)
        \/ \E d \in Dbs : DirectoryRemoved(d)

(***************************************************************************)
(* Both threads keep running, and a client that reads its responses makes  *)
(* its socket writable again and again.                                    *)
(***************************************************************************)
Writable(c) == \E W \in SUBSET writeSet, a \in BOOLEAN : c \in W /\ Select(W, a)

Fairness == /\ WF_vars(Main)
            /\ WF_vars(Worker)
            /\ \A c \in Conns : SF_vars(Writable(c))

Spec == Init /\ [][Next]_vars /\ Fairness

-----------------------------------------------------------------------------
Words == Statements \union {Exit, NL}

TypeOK ==
    /\ databases \subseteq Dbs
    /\ tables \subseteq Dbs \X Tables
    /\ currentDb \in Dbs \union {NoDb}
    /\ connState \in [Conns -> {"ABSENT", "IDLE", "READING", "PENDING_RESULT", "WRITING", "CLOSED"}]
    /\ sessionDb \in [Conns -> Dbs \union {None}]
    /\ recvBuffer \in [Conns -> Seq(Words)]
    /\ sendLeft \in [Conns -> 0..RespLen]
    /\ nextId \in 1..(MaxConns + 1)
    /\ taskQueue \in Seq(Conns \X Statements)
    /\ workerPc \in {"pop", "lookup", "context", "run", "save", "publish"}
    /\ IF workerPc = "pop" THEN task = NoTask ELSE task \in [conn : Conns, stmt : Statements]
    /\ mainPc \in {"build", "select", "accept", "pass"}
    /\ readSet \subseteq Conns /\ writeSet \subseteq Conns /\ todo \subseteq readSet \union writeSet
    /\ stream \in [Conns -> Seq(Words)]
    /\ peerOpen \in [Conns -> BOOLEAN]
    /\ sent \in 0..MaxLines
    /\ removals \in 0..MaxRemovals

\* A connection has a statement queued or with the worker exactly while it is
\* PENDING_RESULT, and never more than one: no two statements of a session run
\* out of order and no response is overwritten before it is sent.
InQueue(c)    == {i \in DOMAIN taskQueue : taskQueue[i][1] = c}
WithWorker(c) == workerPc # "pop" /\ task.conn = c
QueuedOnce    == \A i, j \in DOMAIN taskQueue : taskQueue[i][1] = taskQueue[j][1] => i = j
NotBoth       == \A c \in Conns : WithWorker(c) => InQueue(c) = {}
PendingIffTasked ==
    \A c \in Conns : connState[c] = "PENDING_RESULT" <=> WithWorker(c) \/ InQueue(c) # {}
OneOutstanding == QueuedOnce /\ NotBoth /\ PendingIffTasked

\* While the worker uses its Connection* without conn_mutex, the connection is in
\* the map and the main thread neither visits nor erases it.
PointerValid ==
    workerPc \in {"context", "run", "save"} =>
        /\ connState[task.conn] = "PENDING_RESULT"
        /\ task.conn \notin todo

\* Each session sees SqlSessions: its statements are executed once, in the order
\* sent, in the database it selected, and change no other session's database. A
\* session that selects the database "none" is one that has selected none.
SentUpTo(buf) == LET f[n \in 0..Len(buf)] ==
                         IF n = 0 THEN <<>>
                         ELSE IF buf[n] \in Statements THEN Append(f[n - 1], buf[n])
                         ELSE f[n - 1]
                 IN  f
Sent(buf) == SentUpTo(buf)[Len(buf)]
Outstanding(c) ==
    (IF WithWorker(c) /\ workerPc \in {"lookup", "context", "run"} THEN <<task.stmt>> ELSE <<>>)
        \o [i \in 1..Cardinality(InQueue(c)) |-> taskQueue[CHOOSE j \in InQueue(c) : TRUE][2]]
OpenSet == {c \in Conns : Live(c)}
PendingMap == [c \in Conns |-> IF Live(c) THEN Outstanding(c) \o Sent(recvBuffer[c] \o stream[c])
                                          ELSE <<>>]
InForce(d) == IF d = None THEN NoDb ELSE d
SessionMap == [c \in Conns |-> InForce(IF workerPc = "save" /\ task.conn = c
                                      THEN currentDb ELSE sessionDb[c])]
Sessions == INSTANCE SqlSessions WITH
    None <- NoDb, Reserved <- {None},
    open <- OpenSet, session <- SessionMap, pending <- PendingMap
SessionsKept == Sessions!Spec

\* The same with no name set apart (connection.h: "Per-session USE db"): the database
\* a USE has just selected is the session's, whatever it is called.
Selections == INSTANCE SqlSessions WITH
    None <- NoDb, Reserved <- {},
    open <- OpenSet, pending <- PendingMap,
    session <- [c \in Conns |-> IF workerPc = "save" /\ task.conn = c
                                THEN currentDb ELSE InForce(sessionDb[c])]
DatabaseKept == Selections!Spec

\* Between two passes, the buffer of a connection that waits for input holds no
\* complete line (connection.h: "Accumulate until \n").
BufferHoldsPartialLine ==
    \A c \in Conns :
        (mainPc # "pass" /\ connState[c] \in {"IDLE", "READING"}) => ~HasLine(recvBuffer[c])

\* Whatever a client sends is executed and answered completely, unless the
\* connection ends first.
Served ==
    \A c \in Conns :
        stream[c] # <<>> ~>
            \/ ~Live(c)
            \/ stream[c] = <<>> /\ recvBuffer[c] = <<>> /\ connState[c] = "IDLE"
=============================================================================
