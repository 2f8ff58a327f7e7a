---------------------------- MODULE ServerProofs ----------------------------
(***************************************************************************)
(* Theorems about Server, for every number of connections, every set of    *)
(* lines and every length of a response: what the receive buffers and the  *)
(* responses hold, and that every session is the one SqlSessions describes *)
(* where no line is empty.                                                 *)
(***************************************************************************)
EXTENDS Server, SequenceTheorems, FiniteSetTheorems, WellFoundedInduction, TLAPS

-----------------------------------------------------------------------------
(* Receive buffers                                                         *)

LEMMA LeastElement ==
    ASSUME NEW T, T \subseteq Nat, T # {}
    PROVE  \E x \in T : \A y \in T : x <= y
<1>1. \E x \in T : \A y \in T : ~(<<y, x>> \in OpToRel(<, Nat))
  BY NatLessThanWellFounded, WFMin
<1>2. \A x, y \in T : y < x => <<y, x>> \in OpToRel(<, Nat)
  BY DEF OpToRel
<1>3. \A x, y \in T : ~(y < x) => x <= y
  OBVIOUS
<1> QED BY <1>1, <1>2, <1>3

LEMMA FirstNLProperties ==
    ASSUME NEW buf \in Seq(Words), HasLine(buf)
    PROVE  /\ FirstNL(buf) \in 1..Len(buf)
           /\ buf[FirstNL(buf)] = NL
           /\ \A j \in 1..(FirstNL(buf) - 1) : buf[j] # NL
<1> DEFINE T == {i \in DOMAIN buf : buf[i] = NL}
<1>1. T \subseteq Nat /\ T # {}
  BY DEF HasLine
<1>2. PICK x \in T : \A y \in T : x <= y
  BY <1>1, LeastElement
<1>3. x \in DOMAIN buf /\ buf[x] = NL /\ DOMAIN buf = 1..Len(buf) /\ Len(buf) \in Nat
  OBVIOUS
<1>4. \A j \in 1..(x - 1) : buf[j] # NL
  <2> SUFFICES ASSUME NEW j \in 1..(x - 1), buf[j] = NL PROVE FALSE
    OBVIOUS
  <2>1. j \in T /\ j < x
    BY <1>3
  <2> QED BY <1>2, <1>3, <2>1
<1>5. \E i \in DOMAIN buf : buf[i] = NL /\ \A j \in 1..(i - 1) : buf[j] # NL
  BY <1>3, <1>4
<1>6. FirstNL(buf) \in DOMAIN buf /\ buf[FirstNL(buf)] = NL
        /\ \A j \in 1..(FirstNL(buf) - 1) : buf[j] # NL
  BY <1>5 DEF FirstNL
<1> QED BY <1>3, <1>6

\* What a complete line leaves behind, and what it can be.
LEMMA LineProperties ==
    ASSUME NEW buf \in Seq(Words), HasLine(buf)
    PROVE  /\ AfterLine(buf) \in Seq(Words)
           /\ FirstLine(buf) \in Statements \union {Exit, Empty}
           /\ buf[1] # NL => FirstLine(buf) # Empty
<1>1. /\ FirstNL(buf) \in 1..Len(buf)
      /\ \A j \in 1..(FirstNL(buf) - 1) : buf[j] # NL
  BY FirstNLProperties
<1>2. Len(buf) \in Nat /\ \A i \in 1..Len(buf) : buf[i] \in Words
  BY LenProperties, ElementOfSeq
<1>3. AfterLine(buf) \in Seq(Words)
  BY <1>1, <1>2, SubSeqProperties DEF AfterLine
<1>4. CASE FirstNL(buf) = 1
  BY <1>3, <1>4, FirstNLProperties DEF FirstLine
<1>5. CASE FirstNL(buf) # 1
  <2>1. buf[1] # NL /\ buf[1] \in Words
    BY <1>1, <1>2, <1>5
  <2>2. Empty \notin Words
    BY ServerAssumption DEF Words, Empty, Exit, NL
  <2> QED BY <1>3, <1>5, <2>1, <2>2 DEF FirstLine, Words
<1> QED BY <1>4, <1>5

LEMMA SkipEmptyProperties ==
    ASSUME NEW buf \in Seq(Words)
    PROVE  /\ SkipEmpty(buf) \in Seq(Words)
           /\ HasLine(SkipEmpty(buf)) => SkipEmpty(buf)[1] # NL
<1>0. Len(buf) \in Nat /\ DOMAIN buf = 1..Len(buf) /\ \A i \in 1..Len(buf) : buf[i] \in Words
  BY LenProperties, ElementOfSeq
<1>1. CASE \A i \in DOMAIN buf : buf[i] = NL
  <2>1. SkipEmpty(buf) = <<>>
    BY <1>1 DEF SkipEmpty
  <2>2. ~HasLine(<<>>)
    BY EmptySeq DEF HasLine
  <2> QED BY <2>1, <2>2
<1>2. CASE ~(\A i \in DOMAIN buf : buf[i] = NL)
  <2> DEFINE T == {i \in DOMAIN buf : buf[i] # NL}
             k == CHOOSE i \in DOMAIN buf : buf[i] # NL /\ \A j \in 1..(i - 1) : buf[j] = NL
  <2>1. T \subseteq Nat /\ T # {}
    BY <1>0, <1>2
  <2>2. PICK x \in T : \A y \in T : x <= y
    BY <2>1, LeastElement
  <2>3. \A j \in 1..(x - 1) : buf[j] = NL
    <3> SUFFICES ASSUME NEW j \in 1..(x - 1), buf[j] # NL PROVE FALSE
      OBVIOUS
    <3>1. j \in T /\ j < x
      BY <1>0, <2>2
    <3> QED BY <1>0, <2>2, <3>1
  <2>4. \E i \in DOMAIN buf : buf[i] # NL /\ \A j \in 1..(i - 1) : buf[j] = NL
    BY <2>2, <2>3
  <2>5. k \in 1..Len(buf) /\ buf[k] # NL
    BY <1>0, <2>4
  <2> HIDE DEF k
  <2>6. SkipEmpty(buf) = SubSeq(buf, k, Len(buf))
    BY <1>2 DEF SkipEmpty, k
  <2>7. /\ SubSeq(buf, k, Len(buf)) \in Seq(Words)
        /\ SubSeq(buf, k, Len(buf))[1] = buf[k]
    BY <1>0, <2>5, SubSeqProperties
  <2> QED BY <2>5, <2>6, <2>7
<1> QED BY <1>1, <1>2

-----------------------------------------------------------------------------
(* Types                                                                   *)

\* what the two fd sets and the visits still to make say of the connections
States == {"ABSENT", "IDLE", "READING", "PENDING_RESULT", "WRITING", "CLOSED"}
ReadReady(c)  == c \in readSet /\ connState[c] \in {"IDLE", "READING"}
WriteReady(c) == c \in writeSet /\ connState[c] = "WRITING"
Scheduling ==
    /\ mainPc = "accept" => nextId <= MaxConns
    /\ \A c \in Conns : nextId <= c => connState[c] = "ABSENT"
    /\ mainPc = "select" => /\ \A c \in readSet : ReadReady(c)
                           /\ \A c \in writeSet : WriteReady(c)
    /\ mainPc \in {"build", "select"} => todo = {}
    /\ \A c \in todo : ReadReady(c) \/ WriteReady(c)
    /\ mainPc # "pass" => \A c \in Conns : connState[c] # "CLOSED"

LEMMA SkipEmptyLine ==
    ASSUME NEW buf \in Seq(Words), HasLine(SkipEmpty(buf)),
           FirstLine(SkipEmpty(buf)) # Exit
    PROVE  FirstLine(SkipEmpty(buf)) \in Statements
BY SkipEmptyProperties, LineProperties

LEMMA ConnOps ==
    ASSUME TypeOK, NEW c \in Conns, NEW buf \in Seq(Words)
    PROVE  /\ CloseConn(c, buf) \/ Wait(c, "IDLE", buf) \/ Wait(c, "READING", buf) =>
                /\ connState' \in [Conns -> States]
                /\ recvBuffer' \in [Conns -> Seq(Words)]
                /\ taskQueue' \in Seq(Conns \X Statements)
           /\ \A s \in Statements : Enqueue(c, s, buf) =>
                /\ connState' \in [Conns -> States]
                /\ recvBuffer' \in [Conns -> Seq(Words)]
                /\ taskQueue' \in Seq(Conns \X Statements)
<1>1. ASSUME NEW s \in Statements, Enqueue(c, s, buf)
      PROVE  taskQueue' \in Seq(Conns \X Statements)
  <2>1. taskQueue \in Seq(Conns \X Statements) /\ <<c, s>> \in Conns \X Statements
    BY DEF TypeOK
  <2> QED BY <1>1, <2>1, AppendProperties DEF Enqueue, Push
<1>2. ASSUME CloseConn(c, buf) \/ Wait(c, "IDLE", buf) \/ Wait(c, "READING", buf)
      PROVE  /\ connState' \in [Conns -> States]
             /\ recvBuffer' \in [Conns -> Seq(Words)]
             /\ taskQueue' \in Seq(Conns \X Statements)
  <2>1. \E st \in States : connState' = [connState EXCEPT ![c] = st]
    BY <1>2 DEF CloseConn, Wait, States
  <2>2. recvBuffer' = [recvBuffer EXCEPT ![c] = buf] /\ taskQueue' = taskQueue
    BY <1>2 DEF CloseConn, Wait
  <2> QED BY <2>1, <2>2 DEF TypeOK, States
<1>3. ASSUME NEW s \in Statements, Enqueue(c, s, buf)
      PROVE  /\ connState' \in [Conns -> States]
             /\ recvBuffer' \in [Conns -> Seq(Words)]
  BY <1>3 DEF TypeOK, States, Enqueue
<1> QED BY <1>1, <1>2, <1>3

LEMMA TypeStep ==
    ASSUME TypeOK, Scheduling, [Next]_vars
    PROVE  TypeOK'
<1>a. /\ MaxConns \in Nat /\ RespLen \in Nat \ {0} /\ NoDb \notin Dbs \union {None}
      /\ MaxLines \in Nat /\ MaxRemovals \in Nat
      /\ Lines \subseteq Statements \union {Exit, Empty}
  BY ServerAssumption
<1>1. CASE Pop
  <2>1. /\ Head(taskQueue) \in Conns \X Statements
        /\ Tail(taskQueue) \in Seq(Conns \X Statements)
    BY <1>1, HeadTailProperties DEF Pop, TypeOK
  <2>2. task' \in [conn : Conns, stmt : Statements]
    BY <1>1, <2>1 DEF Pop
  <2> QED BY <1>1, <2>1, <2>2 DEF Pop, TypeOK, fileVars, connVars, mainVars, peerVars
<1>2. CASE Lookup
  BY <1>2 DEF Lookup, TypeOK, fileVars, connVars, mainVars, peerVars, NoTask
<1>3. CASE SetContext
  BY <1>3 DEF SetContext, ClearCurrentDb, TypeOK, connVars, mainVars, peerVars
<1>4. CASE Run
  <2>1. task \in [conn : Conns, stmt : Statements]
    BY <1>4 DEF Run, TypeOK
  <2>2. task.stmt.op = "use" \/ task.stmt.op = "create database" => task.stmt.arg \in Dbs
    BY <2>1 DEF Statements
  <2>3. task.stmt.op = "create table" => task.stmt.arg \in Tables
    BY <2>1 DEF Statements
  <2> DEFINE FilesOK == /\ databases' \subseteq Dbs
                        /\ tables' \subseteq Dbs \X Tables
                        /\ currentDb' \in Dbs \union {NoDb}
  <2>4. ASSUME NEW d \in Dbs, RunUse(d) \/ RunCreateDatabase(d)
        PROVE  FilesOK
    BY <2>4 DEF RunUse, RunCreateDatabase, TypeOK
  <2>5. ASSUME NEW t \in Tables, RunCreateTable(t)
        PROVE  FilesOK
    BY <2>5 DEF RunCreateTable, TypeOK
  <2>6. UNCHANGED fileVars => FilesOK
    BY DEF TypeOK, fileVars
  <2>7. FilesOK
    BY <1>4, <2>2, <2>3, <2>4, <2>5, <2>6 DEF Run
  <2> HIDE DEF FilesOK
  <2>8. workerPc' = "save" /\ task' \in [conn : Conns, stmt : Statements]
    BY <1>4, <2>1 DEF Run
  <2>9. UNCHANGED <<connVars, taskQueue, mainVars, peerVars>>
    BY <1>4 DEF Run
  <2> QED BY <2>7, <2>8, <2>9 DEF FilesOK, TypeOK, connVars, mainVars, peerVars
<1>5. CASE Save
  BY <1>5 DEF Save, TypeOK, fileVars, mainVars, peerVars
<1>6. CASE Publish
  <2>1. task \in [conn : Conns, stmt : Statements]
    BY <1>6 DEF Publish, TypeOK
  <2>2. connState' \in [Conns -> States] /\ sendLeft' \in [Conns -> 0..RespLen]
    <3>1. CASE connState[task.conn] = "ABSENT"
      BY <1>6, <3>1 DEF Publish, TypeOK, States
    <3>2. CASE connState[task.conn] # "ABSENT"
      <4>1. /\ connState' = [connState EXCEPT ![task.conn] = "WRITING"]
            /\ sendLeft' = [sendLeft EXCEPT ![task.conn] = RespLen]
        BY <1>6, <3>2 DEF Publish
      <4>2. connState \in [Conns -> States] /\ sendLeft \in [Conns -> 0..RespLen]
        BY DEF TypeOK, States
      <4>3. "WRITING" \in States /\ RespLen \in 0..RespLen
        BY <1>a DEF States
      <4> QED BY <4>1, <4>2, <4>3
    <3> QED BY <3>1, <3>2
  <2>3. workerPc' = "pop" /\ task' = NoTask
    BY <1>6 DEF Publish
  <2>4. UNCHANGED <<fileVars, sessionDb, recvBuffer, nextId, taskQueue, mainVars, peerVars>>
    BY <1>6 DEF Publish
  <2> QED BY <2>2, <2>3, <2>4 DEF TypeOK, States, fileVars, mainVars, peerVars
<1>7. CASE BuildSets
  BY <1>7 DEF BuildSets, TypeOK, Scheduling, fileVars, connVars, workerVars, peerVars
<1>8. ASSUME NEW W \in SUBSET writeSet, NEW a \in BOOLEAN, Select(W, a)
      PROVE  TypeOK'
  BY <1>8 DEF Select, TypeOK, fileVars, connVars, workerVars, peerVars
<1>9. CASE Accept
  BY <1>9, <1>a, SMTT(40) DEF Accept, TypeOK, Scheduling, fileVars, workerVars, peerVars, Conns
<1>10. ASSUME NEW c \in Conns, NEW n \in 1..Len(stream[c]), Receive(c, n)
       PROVE  TypeOK'
  <2> DEFINE buf == recvBuffer[c] \o SubSeq(stream[c], 1, n)
  <2>1. stream[c] \in Seq(Words) /\ recvBuffer[c] \in Seq(Words)
    BY DEF TypeOK
  <2>2. /\ Len(stream[c]) \in Nat
        /\ \A i \in 1..Len(stream[c]) : stream[c][i] \in Words
    BY <2>1, LenProperties, ElementOfSeq
  <2>3. SubSeq(stream[c], 1, n) \in Seq(Words)
    BY <2>2, SubSeqProperties
  <2>4. SubSeq(stream[c], n + 1, Len(stream[c])) \in Seq(Words)
    BY <2>2, SubSeqProperties
  <2>5. buf \in Seq(Words)
    BY <2>1, <2>3, ConcatProperties
  <2> HIDE DEF buf
  <2>6. /\ connState' \in [Conns -> States]
        /\ recvBuffer' \in [Conns -> Seq(Words)]
        /\ taskQueue' \in Seq(Conns \X Statements)
    <3>1. TakeLine(c, buf)
      BY <1>10 DEF Receive, buf
    <3>2. CASE ~HasLine(buf)
      BY <2>5, <3>1, <3>2, ConnOps DEF TakeLine
    <3>3. CASE HasLine(buf)
      <4>1. AfterLine(buf) \in Seq(Words) /\ FirstLine(buf) \in Statements \union {Exit, Empty}
        BY <2>5, <3>3, LineProperties
      <4> QED BY <3>1, <3>3, <4>1, ConnOps DEF TakeLine
    <3> QED BY <3>2, <3>3
  <2> QED BY <1>10, <2>4, <2>6 DEF Receive, TypeOK, States, fileVars, workerVars
<1>11. ASSUME NEW c \in Conns, NEW n \in 1..sendLeft[c], Send(c, n)
       PROVE  TypeOK'
  <2> DEFINE buf == SkipEmpty(recvBuffer[c])
  <2>1. recvBuffer[c] \in Seq(Words) /\ buf \in Seq(Words)
    BY SkipEmptyProperties DEF TypeOK
  <2>2. HasLine(buf) /\ FirstLine(buf) # Exit => FirstLine(buf) \in Statements
    BY <2>1, SkipEmptyLine
  <2>3. HasLine(buf) => AfterLine(buf) \in Seq(Words)
    BY <2>1, LineProperties
  <2> HIDE DEF buf
  <2>4. /\ connState' \in [Conns -> States]
        /\ recvBuffer' \in [Conns -> Seq(Words)]
        /\ taskQueue' \in Seq(Conns \X Statements)
    <3>1. CASE NextLine(c, buf)
      BY <2>1, <2>2, <2>3, <3>1, ConnOps DEF NextLine
    <3>2. CASE UNCHANGED <<connState, recvBuffer, taskQueue>>
      BY <3>2 DEF TypeOK, States
    <3> QED BY <1>11, <3>1, <3>2 DEF Send, buf
  <2>5. sendLeft' \in [Conns -> 0..RespLen]
    <3>1. sendLeft[c] - n \in 0..RespLen
      BY <1>a DEF TypeOK
    <3> QED BY <1>11, <3>1 DEF Send, TypeOK
  <2>6. todo' \subseteq readSet' \union writeSet'
    BY <1>11 DEF Send, TypeOK
  <2>7. UNCHANGED <<fileVars, sessionDb, nextId, workerVars, mainPc, readSet, writeSet, peerVars>>
    BY <1>11 DEF Send
  <2> QED BY <2>4, <2>5, <2>6, <2>7 DEF TypeOK, States, fileVars, workerVars, peerVars
<1>12. ASSUME NEW c \in Conns, PeerGone(c)
       PROVE  TypeOK'
  BY <1>12 DEF PeerGone, CloseConn, TypeOK, fileVars, workerVars, peerVars
<1>13. CASE EndPass
  BY <1>13 DEF EndPass, TypeOK, fileVars, workerVars
<1>14. ASSUME NEW c \in Conns, ClientSends(c)
       PROVE  TypeOK'
  <2>1. PICK line \in Lines : stream' = [stream EXCEPT ![c] =
                        @ \o (IF line = Empty THEN <<NL>> ELSE <<line, NL>>)]
    BY <1>14 DEF ClientSends
  <2>2. (IF line = Empty THEN <<NL>> ELSE <<line, NL>>) \in Seq(Words)
    <3>1. NL \in Words /\ (line # Empty => line \in Words)
      BY <1>a DEF Words
    <3>2. line # Empty => <<line, NL>> \in Seq(Words)
      BY <3>1
    <3> QED BY <3>1, <3>2
  <2>3. stream' \in [Conns -> Seq(Words)]
    BY <2>1, <2>2, ConcatProperties DEF TypeOK
  <2> QED BY <1>14, <2>3, <1>a, SMTT(40) DEF ClientSends, TypeOK, fileVars, connVars, workerVars, mainVars
<1>15. ASSUME NEW c \in Conns, ClientCloses(c)
       PROVE  TypeOK'
  BY <1>15 DEF ClientCloses, TypeOK, fileVars, connVars, workerVars, mainVars
<1>16. ASSUME NEW d \in Dbs, DirectoryRemoved(d)
       PROVE  TypeOK'
  BY <1>16, <1>a DEF DirectoryRemoved, TypeOK, connVars, workerVars, mainVars
<1>17. CASE UNCHANGED vars
  BY <1>17 DEF vars, TypeOK
<1> QED
  BY <1>1, <1>2, <1>3, <1>4, <1>5, <1>6, <1>7, <1>8, <1>9, <1>10, <1>11, <1>12,
     <1>13, <1>14, <1>15, <1>16, <1>17 DEF Next, Main, Worker, Visit, SelectAny

-----------------------------------------------------------------------------
(* The fd sets and the visits                                              *)

\* a step of the main thread on connection c, seen from the other connections
LEMMA VisitFrame ==
    ASSUME NEW c \in Conns, Visit(c), TypeOK
    PROVE  /\ mainPc = "pass" /\ mainPc' = "pass"
           /\ c \in todo /\ todo' = todo \ {c}
           /\ readSet' = readSet /\ writeSet' = writeSet
           /\ nextId' = nextId /\ workerPc' = workerPc /\ task' = task
           /\ \A d \in Conns \ {c} : connState'[d] = connState[d]
           /\ \/ connState'[c] # "PENDING_RESULT" /\ taskQueue' = taskQueue
              \/ /\ connState'[c] = "PENDING_RESULT"
                 /\ \E s : taskQueue' = Append(taskQueue, <<c, s>>)
              \/ connState'[c] = connState[c] /\ taskQueue' = taskQueue
<1> USE DEF workerVars, TypeOK
<1>1. ASSUME NEW n \in 1..Len(stream[c]), Receive(c, n)
      PROVE  TakeLine(c, recvBuffer[c] \o SubSeq(stream[c], 1, n))
  BY <1>1 DEF Receive
<1>2. ASSUME NEW buf, CloseConn(c, buf) \/ Wait(c, "IDLE", buf) \/ Wait(c, "READING", buf)
                      \/ \E s : Enqueue(c, s, buf)
      PROVE  /\ \A d \in Conns \ {c} : connState'[d] = connState[d]
             /\ \/ connState'[c] # "PENDING_RESULT" /\ taskQueue' = taskQueue
                \/ /\ connState'[c] = "PENDING_RESULT"
                   /\ \E s : taskQueue' = Append(taskQueue, <<c, s>>)
  <2>1. CASE CloseConn(c, buf) \/ Wait(c, "IDLE", buf) \/ Wait(c, "READING", buf)
    BY <2>1 DEF CloseConn, Wait
  <2>2. CASE \E s : Enqueue(c, s, buf)
    BY <2>2 DEF Enqueue, Push
  <2> QED BY <1>2, <2>1, <2>2
<1>3. CASE \E n \in 1..Len(stream[c]) : Receive(c, n)
  <2>1. PICK n \in 1..Len(stream[c]) : Receive(c, n)
    BY <1>3
  <2>2. TakeLine(c, recvBuffer[c] \o SubSeq(stream[c], 1, n))
    BY <2>1, <1>1
  <2>3. \E buf : CloseConn(c, buf) \/ Wait(c, "IDLE", buf) \/ Wait(c, "READING", buf)
                   \/ \E s : Enqueue(c, s, buf)
    BY <2>2 DEF TakeLine
  <2> QED BY <2>1, <2>3, <1>2 DEF Receive
<1>4. CASE \E n \in 1..sendLeft[c] : Send(c, n)
  <2>1. PICK n \in 1..sendLeft[c] : Send(c, n)
    BY <1>4
  <2>2. CASE UNCHANGED <<connState, recvBuffer, taskQueue>>
    BY <2>1, <2>2 DEF Send, peerVars
  <2>3. CASE NextLine(c, SkipEmpty(recvBuffer[c]))
    <3>1. \E buf : CloseConn(c, buf) \/ Wait(c, "IDLE", buf) \/ \E s : Enqueue(c, s, buf)
      BY <2>3 DEF NextLine
    <3> QED BY <2>1, <3>1, <1>2 DEF Send
  <2> QED BY <2>1, <2>2, <2>3 DEF Send
<1>5. CASE PeerGone(c)
  BY <1>5, <1>2 DEF PeerGone
<1> QED BY <1>3, <1>4, <1>5 DEF Visit

LEMMA SchedulingStep ==
    ASSUME TypeOK, Scheduling, OneOutstanding, [Next]_vars
    PROVE  Scheduling'
<1> USE DEF Scheduling, ReadReady, WriteReady
<1>1. CASE Pop \/ SetContext \/ Run \/ Save \/ Lookup
  BY <1>1 DEF Pop, SetContext, Run, Save, Lookup, connVars, mainVars
<1>2. CASE Publish
  <2>1. task.conn \in Conns /\ WithWorker(task.conn)
    BY <1>2 DEF Publish, TypeOK, WithWorker
  <2>2. connState[task.conn] = "PENDING_RESULT"
    BY <2>1 DEF OneOutstanding, PendingIffTasked
  <2>3. task.conn \notin todo /\ (mainPc = "select" => task.conn \notin readSet \union writeSet)
    BY <2>2
  <2>4. connState' = [connState EXCEPT ![task.conn] = "WRITING"]
    BY <1>2, <2>2 DEF Publish
  <2>5. UNCHANGED <<mainPc, nextId, readSet, writeSet, todo>>
    BY <1>2 DEF Publish, mainVars
  <2>6. todo \subseteq Conns /\ readSet \subseteq Conns /\ writeSet \subseteq Conns
    BY DEF TypeOK
  <2>7. \A d \in Conns : d # task.conn => connState'[d] = connState[d]
    BY <2>4 DEF TypeOK
  <2>8. connState'[task.conn] = "WRITING"
    BY <2>1, <2>4 DEF TypeOK
  <2> QED BY <2>1, <2>2, <2>3, <2>5, <2>6, <2>7, <2>8
<1>3. CASE BuildSets
  BY <1>3 DEF BuildSets, Readers, connVars
<1>4. ASSUME NEW W \in SUBSET writeSet, NEW a \in BOOLEAN, Select(W, a)
      PROVE  Scheduling'
  BY <1>4 DEF Select, connVars
<1>5. CASE Accept
  <2>1. connState' = [connState EXCEPT ![nextId] = "IDLE"] /\ nextId' = nextId + 1
    BY <1>5 DEF Accept
  <2>2. mainPc = "accept" /\ mainPc' = "pass" /\ UNCHANGED <<todo, readSet, writeSet>>
    BY <1>5 DEF Accept
  <2>3. nextId \in Conns /\ connState[nextId] = "ABSENT"
    BY <2>2, ServerAssumption DEF Conns, TypeOK
  <2>4. nextId \notin todo /\ todo \subseteq Conns
    BY <2>3 DEF TypeOK
  <2>5. \A d \in Conns : d # nextId => connState'[d] = connState[d]
    BY <2>1 DEF TypeOK
  <2>6. \A d \in Conns : nextId' <= d => nextId <= d /\ d # nextId
    BY <2>1, <2>3 DEF Conns
  <2> QED BY <2>1, <2>2, <2>3, <2>4, <2>5, <2>6
<1>6. ASSUME NEW c \in Conns, Visit(c)
      PROVE  Scheduling'
  <2>1. todo \subseteq Conns
    BY DEF TypeOK
  <2>2. connState[c] # "ABSENT"
    BY <1>6, VisitFrame
  <2> QED BY <1>6, VisitFrame, <2>1, <2>2
<1>7. CASE EndPass
  BY <1>7 DEF EndPass, connVars
<1>8. ASSUME NEW c \in Conns, ClientSends(c) \/ ClientCloses(c)
      PROVE  Scheduling'
  BY <1>8 DEF ClientSends, ClientCloses, connVars, mainVars
<1>9. ASSUME NEW d \in Dbs, DirectoryRemoved(d)
      PROVE  Scheduling'
  BY <1>9 DEF DirectoryRemoved, connVars, mainVars
<1>10. CASE UNCHANGED vars
  BY <1>10 DEF vars
<1> QED
  BY <1>1, <1>2, <1>3, <1>4, <1>5, <1>6, <1>7, <1>8, <1>9, <1>10
  DEF Next, Main, Worker, SelectAny

-----------------------------------------------------------------------------
(* One statement of a connection at a time                                 *)

\* steps that leave the queue, the worker's task and every PENDING_RESULT alone
LEMMA OutstandingFrame ==
    ASSUME OneOutstanding,
           UNCHANGED taskQueue,
           \A c \in Conns : WithWorker(c)' <=> WithWorker(c),
           \A c \in Conns : connState'[c] = "PENDING_RESULT" <=> connState[c] = "PENDING_RESULT"
    PROVE  OneOutstanding'
<1>1. \A c \in Conns : InQueue(c)' = InQueue(c)
  BY DEF InQueue
<1>2. QueuedOnce'
  BY DEF OneOutstanding, QueuedOnce
<1>3. NotBoth'
  BY <1>1 DEF OneOutstanding, NotBoth
<1>4. PendingIffTasked'
  BY <1>1 DEF OneOutstanding, PendingIffTasked
<1> QED BY <1>2, <1>3, <1>4 DEF OneOutstanding

LEMMA OutstandingStep ==
    ASSUME TypeOK, Scheduling, OneOutstanding, [Next]_vars
    PROVE  OneOutstanding'
<1>q. /\ taskQueue \in Seq(Conns \X Statements)
      /\ Len(taskQueue) \in Nat
      /\ DOMAIN taskQueue = 1..Len(taskQueue)
      /\ \A i \in 1..Len(taskQueue) : taskQueue[i][1] \in Conns
  BY LenProperties, ElementOfSeq, SMTT(40) DEF TypeOK
<1>1. CASE Pop
  <2> DEFINE h == Head(taskQueue)[1]
  <2>1. /\ h = taskQueue[1][1] /\ h \in Conns /\ Len(taskQueue) # 0
        /\ DOMAIN taskQueue' = 1..(Len(taskQueue) - 1)
        /\ \A i \in 1..(Len(taskQueue) - 1) : taskQueue'[i] = taskQueue[i + 1]
    BY <1>q, <1>1, HeadTailProperties, EmptySeq, LenProperties DEF Pop
  <2>2. workerPc = "pop" /\ workerPc' = "lookup" /\ task'.conn = h /\ connState' = connState
    BY <1>1 DEF Pop, connVars
  <2>3. \A c \in Conns : ~WithWorker(c) /\ (WithWorker(c)' <=> c = h)
    BY <2>2 DEF WithWorker
  <2>4. \A c \in Conns : InQueue(c)' # {} => InQueue(c) # {} /\ c # h
    <3> SUFFICES ASSUME NEW c \in Conns, NEW i \in 1..(Len(taskQueue) - 1), taskQueue'[i][1] = c
                 PROVE  InQueue(c) # {} /\ c # h
      BY <2>1 DEF InQueue
    <3>1. i + 1 \in DOMAIN taskQueue /\ taskQueue[i + 1][1] = c /\ i + 1 # 1 /\ 1 \in DOMAIN taskQueue
      BY <1>q, <2>1
    <3> QED BY <2>1, <3>1 DEF InQueue, OneOutstanding, QueuedOnce
  <2>5. \A c \in Conns : InQueue(c) # {} /\ c # h => InQueue(c)' # {}
    <3> SUFFICES ASSUME NEW c \in Conns, NEW i \in 1..Len(taskQueue), taskQueue[i][1] = c, c # h
                 PROVE  InQueue(c)' # {}
      BY <1>q DEF InQueue
    <3>1. i # 1 /\ i - 1 \in 1..(Len(taskQueue) - 1) /\ taskQueue'[i - 1] = taskQueue[i]
      BY <1>q, <2>1
    <3> QED BY <2>1, <3>1 DEF InQueue
  <2>6. InQueue(h) # {}
    BY <1>q, <2>1 DEF InQueue
  <2>7. QueuedOnce'
    <3> SUFFICES ASSUME NEW i \in 1..(Len(taskQueue) - 1), NEW j \in 1..(Len(taskQueue) - 1),
                        taskQueue'[i][1] = taskQueue'[j][1]
                 PROVE  i = j
      BY <2>1 DEF QueuedOnce
    <3>1. i + 1 \in DOMAIN taskQueue /\ j + 1 \in DOMAIN taskQueue
          /\ taskQueue[i + 1][1] = taskQueue[j + 1][1]
      BY <1>q, <2>1
    <3> QED BY <3>1 DEF OneOutstanding, QueuedOnce
  <2>8. NotBoth'
    BY <2>3, <2>4 DEF NotBoth
  <2>9. PendingIffTasked'
    BY <2>2, <2>3, <2>4, <2>5, <2>6 DEF PendingIffTasked, OneOutstanding
  <2> QED BY <2>7, <2>8, <2>9 DEF OneOutstanding
<1>2. CASE Lookup
  <2>1. task.conn \in Conns /\ WithWorker(task.conn)
    BY <1>2 DEF Lookup, TypeOK, WithWorker
  <2>2. connState[task.conn] = "PENDING_RESULT"
    BY <2>1 DEF OneOutstanding, PendingIffTasked
  <2> QED BY <1>2, <2>2, OutstandingFrame DEF Lookup, WithWorker, connVars
<1>3. CASE SetContext \/ Run \/ Save
  BY <1>3, OutstandingFrame DEF SetContext, Run, Save, WithWorker, connVars
<1>4. CASE Publish
  <2>1. task.conn \in Conns /\ WithWorker(task.conn)
    BY <1>4 DEF Publish, TypeOK, WithWorker
  <2>2. connState[task.conn] = "PENDING_RESULT" /\ InQueue(task.conn) = {}
    BY <2>1 DEF OneOutstanding, PendingIffTasked, NotBoth
  <2>3. connState' = [connState EXCEPT ![task.conn] = "WRITING"] /\ taskQueue' = taskQueue
    BY <1>4, <2>2 DEF Publish
  <2>4. \A c \in Conns : ~WithWorker(c)' /\ InQueue(c)' = InQueue(c)
    BY <1>4, <2>3 DEF Publish, WithWorker, InQueue
  <2>5. \A c \in Conns : connState'[c] = IF c = task.conn THEN "WRITING" ELSE connState[c]
    BY <2>3 DEF TypeOK
  <2>6. \A c \in Conns : c # task.conn => ~WithWorker(c)
    BY DEF WithWorker
  <2>7. QueuedOnce'
    BY <2>3 DEF OneOutstanding, QueuedOnce
  <2>8. PendingIffTasked'
    BY <2>2, <2>4, <2>5, <2>6 DEF OneOutstanding, PendingIffTasked
  <2> QED BY <2>4, <2>7, <2>8 DEF OneOutstanding, NotBoth
<1>5. CASE BuildSets \/ SelectAny
  BY <1>5, OutstandingFrame DEF BuildSets, SelectAny, Select, WithWorker, connVars, workerVars
<1>6. CASE Accept
  <2>1. connState' = [connState EXCEPT ![nextId] = "IDLE"] /\ taskQueue' = taskQueue
    BY <1>6 DEF Accept
  <2>2. nextId \in Conns /\ connState[nextId] = "ABSENT"
    BY <1>6, ServerAssumption DEF Accept, Scheduling, Conns, TypeOK
  <2>3. \A c \in Conns : connState'[c] = IF c = nextId THEN "IDLE" ELSE connState[c]
    BY <2>1 DEF TypeOK
  <2> QED BY <1>6, <2>1, <2>2, <2>3, OutstandingFrame DEF Accept, WithWorker, workerVars
<1>7. ASSUME NEW c \in Conns, Visit(c)
      PROVE  OneOutstanding'
  <2>1. /\ workerPc' = workerPc /\ task' = task
        /\ \A d \in Conns \ {c} : connState'[d] = connState[d]
        /\ connState[c] # "PENDING_RESULT"
    BY <1>7, VisitFrame DEF Scheduling, ReadReady, WriteReady
  <2>2. ~WithWorker(c) /\ InQueue(c) = {} /\ \A d \in Conns : WithWorker(d)' <=> WithWorker(d)
    BY <2>1 DEF OneOutstanding, PendingIffTasked, WithWorker
  <2>3. CASE connState'[c] # "PENDING_RESULT" /\ taskQueue' = taskQueue
    BY <2>1, <2>2, <2>3, OutstandingFrame
  <2>4. CASE connState'[c] = "PENDING_RESULT" /\ \E s : taskQueue' = Append(taskQueue, <<c, s>>)
    <3>1. /\ DOMAIN taskQueue' = 1..(Len(taskQueue) + 1)
          /\ \A i \in 1..Len(taskQueue) : taskQueue'[i] = taskQueue[i]
          /\ taskQueue'[Len(taskQueue) + 1][1] = c
      <4>1. PICK s : taskQueue' = Append(taskQueue, <<c, s>>)
        BY <2>4
      <4>2. taskQueue \in Seq(Conns \X (Statements \union {s})) /\ <<c, s>> \in Conns \X (Statements \union {s})
        BY <1>q, SeqMonotonic
      <4> QED BY <1>q, <4>1, <4>2, AppendProperties, LenProperties
    <3>2. \A d \in Conns : InQueue(d)' = IF d = c THEN {Len(taskQueue) + 1} ELSE InQueue(d)
      BY <1>q, <2>2, <3>1 DEF InQueue
    <3>3. QueuedOnce'
      <4> SUFFICES ASSUME NEW i \in 1..(Len(taskQueue) + 1), NEW j \in 1..(Len(taskQueue) + 1),
                          taskQueue'[i][1] = taskQueue'[j][1]
                   PROVE  i = j
        BY <3>1 DEF QueuedOnce
      <4>1. \A k \in 1..Len(taskQueue) : taskQueue[k][1] # c
        BY <1>q, <2>2 DEF InQueue
      <4>2. CASE i \in 1..Len(taskQueue) /\ j \in 1..Len(taskQueue)
        BY <1>q, <3>1, <4>2 DEF OneOutstanding, QueuedOnce
      <4>3. CASE i = Len(taskQueue) + 1 \/ j = Len(taskQueue) + 1
        BY <1>q, <3>1, <4>1, <4>3
      <4> QED BY <1>q, <4>2, <4>3
    <3>4. NotBoth'
      BY <2>2, <3>2 DEF OneOutstanding, NotBoth
    <3>5. PendingIffTasked'
      <4>1. \A d \in Conns \ {c} : connState'[d] = "PENDING_RESULT" <=> (WithWorker(d) \/ InQueue(d) # {})'
        BY <2>1, <2>2, <3>2 DEF OneOutstanding, PendingIffTasked
      <4>2. connState'[c] = "PENDING_RESULT" /\ InQueue(c)' # {}
        BY <2>4, <3>2
      <4> QED BY <4>1, <4>2 DEF PendingIffTasked
    <3> QED BY <3>3, <3>4, <3>5 DEF OneOutstanding
  <2> QED BY <1>7, VisitFrame, <2>1, <2>3, <2>4
<1>8. CASE EndPass
  <2>1. \A c \in Conns : connState'[c] = IF connState[c] = "CLOSED" THEN "ABSENT" ELSE connState[c]
    BY <1>8 DEF EndPass
  <2> QED BY <1>8, <2>1, OutstandingFrame DEF EndPass, WithWorker, workerVars
<1>9. ASSUME NEW c \in Conns, ClientSends(c) \/ ClientCloses(c)
      PROVE  OneOutstanding'
  BY <1>9, OutstandingFrame DEF ClientSends, ClientCloses, WithWorker, connVars, workerVars
<1>10. ASSUME NEW d \in Dbs, DirectoryRemoved(d)
       PROVE  OneOutstanding'
  BY <1>10, OutstandingFrame DEF DirectoryRemoved, WithWorker, connVars, workerVars
<1>11. CASE UNCHANGED vars
  BY <1>11, OutstandingFrame DEF vars, WithWorker
<1> QED
  BY <1>1, <1>2, <1>3, <1>4, <1>5, <1>6, <1>7, <1>8, <1>9, <1>10, <1>11
  DEF Next, Main, Worker

-----------------------------------------------------------------------------
(* Theorems                                                                *)

ServerInv == TypeOK /\ Scheduling /\ OneOutstanding

LEMMA ServerInvariant == Spec => []ServerInv
<1>1. Init => ServerInv
  <2> SUFFICES ASSUME Init PROVE ServerInv
    OBVIOUS
  <2>1. TypeOK
    BY ServerAssumption DEF Init, TypeOK, Conns
  <2>2. Scheduling
    BY DEF Init, Scheduling
  <2>3. OneOutstanding
    BY DEF Init, OneOutstanding, QueuedOnce, NotBoth, PendingIffTasked, InQueue, WithWorker
  <2> QED BY <2>1, <2>2, <2>3 DEF ServerInv
<1>2. ServerInv /\ [Next]_vars => ServerInv'
  BY TypeStep, SchedulingStep, OutstandingStep DEF ServerInv
<1> QED BY <1>1, <1>2, PTL DEF Spec

\* Every reachable state has well-typed variables.
THEOREM ServerTypeCorrect == Spec => []TypeOK
<1>1. ServerInv => TypeOK
  BY DEF ServerInv
<1> QED BY <1>1, ServerInvariant, PTL

\* A connection never has two statements queued or in the worker's hands, and has
\* one exactly while the main loop leaves it alone as PENDING_RESULT.
THEOREM AtMostOneOutstanding == Spec => []OneOutstanding
<1>1. ServerInv => OneOutstanding
  BY DEF ServerInv
<1> QED BY <1>1, ServerInvariant, PTL

\* The Connection* that db_worker_thread uses without conn_mutex points to a
\* connection that is in the map and that the main thread does not touch.
THEOREM WorkerPointerValid == Spec => []PointerValid
<1>1. ServerInv => PointerValid
  <2> SUFFICES ASSUME ServerInv, workerPc \in {"context", "run", "save"}
               PROVE  connState[task.conn] = "PENDING_RESULT" /\ task.conn \notin todo
    BY DEF PointerValid
  <2>1. task.conn \in Conns /\ WithWorker(task.conn)
    BY DEF ServerInv, TypeOK, WithWorker
  <2>2. connState[task.conn] = "PENDING_RESULT"
    BY <2>1 DEF ServerInv, OneOutstanding, PendingIffTasked
  <2> QED BY <2>2 DEF ServerInv, Scheduling, ReadReady, WriteReady
<1> QED BY <1>1, ServerInvariant, PTL

-----------------------------------------------------------------------------
(* What a receive buffer and the stream behind it hold                     *)

\* q without its first k words
Rest(q, k) == SubSeq(q, k + 1, Len(q))

LEMMA RestProperties ==
    ASSUME NEW q \in Seq(Words), NEW k \in 0..Len(q)
    PROVE  /\ Rest(q, k) \in Seq(Words) /\ Len(Rest(q, k)) = Len(q) - k
           /\ \A i \in 1..(Len(q) - k) : Rest(q, k)[i] = q[i + k]
<1>1. Len(q) \in Nat /\ \A i \in 1..Len(q) : q[i] \in Words
  BY LenProperties, ElementOfSeq
<1>2. \A i \in (k + 1)..Len(q) : q[i] \in Words
  BY <1>1
<1>3. /\ SubSeq(q, k + 1, Len(q)) \in Seq(Words)
      /\ Len(SubSeq(q, k + 1, Len(q))) = IF k + 1 <= Len(q) THEN Len(q) - (k + 1) + 1 ELSE 0
      /\ \A i \in 1..(Len(q) - (k + 1) + 1) : SubSeq(q, k + 1, Len(q))[i] = q[(k + 1) + i - 1]
  BY <1>1, <1>2, SubSeqProperties
<1>4. \A i \in 1..(Len(q) - k) : (k + 1) + i - 1 = i + k /\ i \in 1..(Len(q) - (k + 1) + 1)
  BY <1>1
<1> QED BY <1>1, <1>3, <1>4 DEF Rest

LEMMA RestOfConcat ==
    ASSUME NEW r \in Seq(Words), NEW s \in Seq(Words), NEW k \in 0..Len(r)
    PROVE  Rest(r, k) \o s = Rest(r \o s, k)
<1>1. /\ r \o s \in Seq(Words) /\ Len(r \o s) = Len(r) + Len(s)
      /\ \A i \in 1..(Len(r) + Len(s)) : (r \o s)[i] = IF i <= Len(r) THEN r[i] ELSE s[i - Len(r)]
      /\ Len(r) \in Nat /\ Len(s) \in Nat
  BY ConcatProperties, LenProperties
<1>2. /\ Rest(r, k) \in Seq(Words) /\ Len(Rest(r, k)) = Len(r) - k
      /\ \A i \in 1..(Len(r) - k) : Rest(r, k)[i] = r[i + k]
  BY RestProperties
<1>3. /\ Rest(r \o s, k) \in Seq(Words) /\ Len(Rest(r \o s, k)) = Len(r) + Len(s) - k
      /\ \A i \in 1..(Len(r) + Len(s) - k) : Rest(r \o s, k)[i] = (r \o s)[i + k]
  <2> DEFINE q == r \o s
  <2>1. q \in Seq(Words) /\ Len(q) = Len(r) + Len(s) /\ k \in 0..Len(q)
    BY <1>1
  <2> HIDE DEF q
  <2>2. /\ Rest(q, k) \in Seq(Words) /\ Len(Rest(q, k)) = Len(q) - k
        /\ \A i \in 1..(Len(q) - k) : Rest(q, k)[i] = q[i + k]
    BY <2>1, RestProperties
  <2> QED BY <2>1, <2>2 DEF q
<1> DEFINE a == Rest(r, k)
           b == Rest(r \o s, k)
<1> HIDE DEF a
<1>4. /\ a \o s \in Seq(Words) /\ Len(a \o s) = Len(r) - k + Len(s)
      /\ \A i \in 1..(Len(r) - k + Len(s)) : (a \o s)[i] = IF i <= Len(r) - k THEN a[i] ELSE s[i - (Len(r) - k)]
  <2>1. a \in Seq(Words) /\ Len(a) = Len(r) - k
    BY <1>2 DEF a
  <2>2. /\ a \o s \in Seq(Words) /\ Len(a \o s) = Len(a) + Len(s)
        /\ \A i \in 1..(Len(a) + Len(s)) : (a \o s)[i] = IF i <= Len(a) THEN a[i] ELSE s[i - Len(a)]
    BY <2>1, ConcatProperties
  <2> QED BY <2>1, <2>2
<1> HIDE DEF b
<1>5. Len(a \o s) = Len(b) /\ b \in Seq(Words)
  BY <1>1, <1>3, <1>4 DEF b
<1>6. \A i \in 1..Len(b) : (a \o s)[i] = b[i]
  <2> SUFFICES ASSUME NEW i \in 1..Len(b) PROVE (a \o s)[i] = b[i]
    OBVIOUS
  <2>1. i \in 1..(Len(r) + Len(s) - k) /\ b[i] = (r \o s)[i + k] /\ i + k \in 1..(Len(r) + Len(s))
    BY <1>1, <1>3, SMTT(40) DEF b
  <2>2. CASE i <= Len(r) - k
    BY <1>1, <1>2, <1>4, <2>1, <2>2 DEF a
  <2>3. CASE ~(i <= Len(r) - k)
    <3>1. ~(i + k <= Len(r)) /\ i + k - Len(r) = i - (Len(r) - k)
      BY <1>1, <2>1, <2>3
    <3> QED BY <1>1, <1>4, <2>1, <2>3, <3>1, SMTT(40)
  <2> QED BY <2>2, <2>3
<1>7. a \o s = b
  BY <1>4, <1>5, <1>6, SeqEqual
<1> QED BY <1>7 DEF a, b

\* The recursive definition of SentUpTo has a solution: a shortest buffer for
\* which it had none would be one word longer than one for which it has.
LEMMA SentUpToDefined ==
    ASSUME NEW buf \in Seq(Words)
    PROVE  /\ SentUpTo(buf)[0] = <<>>
           /\ \A n \in 1..Len(buf) :
                 SentUpTo(buf)[n] = IF buf[n] \in Statements
                                    THEN Append(SentUpTo(buf)[n - 1], buf[n])
                                    ELSE SentUpTo(buf)[n - 1]
<1> DEFINE N == Len(buf)
           step(f, n) == IF n = 0 THEN <<>>
                         ELSE IF buf[n] \in Statements THEN Append(f[n - 1], buf[n])
                         ELSE f[n - 1]
           solves(f, m) == f = [n \in 0..m |-> step(f, n)]
           T == {m \in 0..N : ~ \E f : solves(f, m)}
<1>1. N \in Nat
  BY LenProperties
<1>2. T = {}
  <2> SUFFICES ASSUME T # {} PROVE FALSE
    OBVIOUS
  <2>1. PICK m \in T : \A k \in T : m <= k
    <3>1. T \subseteq Nat
      BY <1>1
    <3> HIDE DEF T
    <3> QED BY <3>1, LeastElement
  <2>2. m \in 0..N
    OBVIOUS
  <2>3. CASE m = 0
    <3> DEFINE f == [n \in 0..0 |-> <<>>]
    <3>1. f = [n \in 0..0 |-> step(f, n)]
      OBVIOUS
    <3>2. solves(f, 0)
      BY <3>1
    <3> QED BY <2>3, <3>2
  <2>4. CASE m # 0
    <3>1. m - 1 \in 0..N /\ ~(m <= m - 1)
      BY <1>1, <2>2, <2>4
    <3>2. m - 1 \notin T
      BY <2>1, <3>1
    <3>3. PICK g : solves(g, m - 1)
      BY <3>1, <3>2
    <3> DEFINE f == [n \in 0..m |-> IF n < m THEN g[n] ELSE step(g, m)]
    <3>4. \A n \in 0..m : f[n] = step(f, n)
      <4> SUFFICES ASSUME NEW n \in 0..m PROVE f[n] = step(f, n)
        OBVIOUS
      <4>1. CASE n = m
        <5>1. f[n] = step(g, m) /\ f[m - 1] = g[m - 1]
          BY <1>1, <2>2, <2>4, <4>1
        <5> QED BY <4>1, <5>1
      <4>2. CASE n # m
        <5>1. n \in 0..(m - 1) /\ n < m
          BY <1>1, <2>2, <4>2
        <5>2. f[n] = g[n] /\ g[n] = step(g, n)
          BY <3>3, <5>1
        <5>3. n # 0 => f[n - 1] = g[n - 1]
          BY <1>1, <2>2, <5>1
        <5> QED BY <5>2, <5>3
      <4> QED BY <4>1, <4>2
    <3>5. f = [n \in 0..m |-> f[n]]
      OBVIOUS
    <3> HIDE DEF f
    <3>6. f = [n \in 0..m |-> step(f, n)]
      BY <3>4, <3>5
    <3>7. \E h : solves(h, m)
      BY <3>6
    <3> QED BY <2>1, <3>7
  <2> QED BY <2>3, <2>4
<1>3. \E f : solves(f, N)
  <2>1. \A m \in 0..N : m \notin T => \E f : solves(f, m)
    <3> HIDE DEF solves
    <3> QED OBVIOUS
  <2> HIDE DEF solves, T, N
  <2>2. N \in 0..N /\ N \notin T
    BY <1>1, <1>2, SMTT(40)
  <2> QED BY <2>1, <2>2
<1> DEFINE F == CHOOSE f : f = [n \in 0..N |-> step(f, n)]
<1>4. F = [n \in 0..N |-> step(F, n)]
  BY <1>3
<1>5. SentUpTo(buf) = F
  BY DEF SentUpTo
<1> HIDE DEF F
<1>6. \A n \in 0..N : F[n] = step(F, n)
  BY <1>4
<1> QED BY <1>1, <1>5, <1>6

\* A claim about every length of a prefix, from the shortest on.
LEMMA SentType ==
    ASSUME NEW buf \in Seq(Words)
    PROVE  /\ \A n \in 0..Len(buf) : SentUpTo(buf)[n] \in Seq(Statements)
           /\ Sent(buf) \in Seq(Statements)
<1> DEFINE T == {n \in 0..Len(buf) : SentUpTo(buf)[n] \notin Seq(Statements)}
<1>1. Len(buf) \in Nat
  BY LenProperties
<1>2. T = {}
  <2> SUFFICES ASSUME T # {} PROVE FALSE
    OBVIOUS
  <2>1. PICK m \in T : \A k \in T : m <= k
    <3>1. T \subseteq Nat
      BY <1>1
    <3> HIDE DEF T
    <3> QED BY <3>1, LeastElement
  <2>2. m \in 0..Len(buf)
    OBVIOUS
  <2>3. CASE m = 0
    BY <2>1, <2>3, SentUpToDefined, EmptySeq
  <2>4. CASE m # 0
    <3>1. m - 1 \in 0..Len(buf) /\ ~(m <= m - 1) /\ m \in 1..Len(buf)
      BY <1>1, <2>2, <2>4
    <3>2. SentUpTo(buf)[m - 1] \in Seq(Statements)
      BY <2>1, <3>1
    <3>3. SentUpTo(buf)[m] \in Seq(Statements)
      <4> DEFINE e == SentUpTo(buf)[m - 1]
      <4>1. SentUpTo(buf)[m] = IF buf[m] \in Statements THEN Append(e, buf[m]) ELSE e
        BY <3>1, SentUpToDefined
      <4>2. e \in Seq(Statements)
        BY <3>2
      <4> HIDE DEF e
      <4>3. buf[m] \in Statements => Append(e, buf[m]) \in Seq(Statements)
        BY <4>2, AppendProperties
      <4> QED BY <4>1, <4>2, <4>3
    <3> QED BY <2>1, <3>3
  <2> QED BY <2>3, <2>4
<1> QED BY <1>1, <1>2 DEF Sent

\* Words that are no statements are not sent to the worker.
LEMMA SentNone ==
    ASSUME NEW buf \in Seq(Words), \A i \in 1..Len(buf) : buf[i] \notin Statements
    PROVE  Sent(buf) = <<>>
<1> DEFINE T == {n \in 0..Len(buf) : SentUpTo(buf)[n] # <<>>}
<1>1. Len(buf) \in Nat
  BY LenProperties
<1>2. T = {}
  <2> SUFFICES ASSUME T # {} PROVE FALSE
    OBVIOUS
  <2>1. PICK m \in T : \A k \in T : m <= k
    <3>1. T \subseteq Nat
      BY <1>1
    <3> HIDE DEF T
    <3> QED BY <3>1, LeastElement
  <2>2. m \in 0..Len(buf)
    OBVIOUS
  <2>3. CASE m = 0
    BY <2>1, <2>3, SentUpToDefined
  <2>4. CASE m # 0
    <3>1. m - 1 \in 0..Len(buf) /\ ~(m <= m - 1) /\ m \in 1..Len(buf)
      BY <1>1, <2>2, <2>4
    <3>2. SentUpTo(buf)[m - 1] = <<>>
      BY <2>1, <3>1
    <3> QED BY <2>1, <3>1, <3>2, SentUpToDefined
  <2> QED BY <2>3, <2>4
<1> QED BY <1>1, <1>2 DEF Sent

LEMMA StatementsAssociate ==
    ASSUME NEW x \in Seq(Statements), NEW y \in Seq(Statements), NEW z \in Seq(Statements)
    PROVE  (x \o y) \o z = x \o (y \o z)
<1> DEFINE S == Statements
<1>1. x \in Seq(S) /\ y \in Seq(S) /\ z \in Seq(S)
  OBVIOUS
<1> HIDE DEF S
<1> QED BY <1>1, ConcatAssociative, SMTT(40)

\* The statements of one buffer behind another.
LEMMA SentConcat ==
    ASSUME NEW a \in Seq(Words), NEW b \in Seq(Words)
    PROVE  Sent(a \o b) = Sent(a) \o Sent(b)
<1> DEFINE q == a \o b
<1>1. /\ q \in Seq(Words) /\ Len(q) = Len(a) + Len(b) /\ Len(a) \in Nat /\ Len(b) \in Nat
      /\ \A i \in 1..(Len(a) + Len(b)) : q[i] = IF i <= Len(a) THEN a[i] ELSE b[i - Len(a)]
  BY ConcatProperties, LenProperties
<1> HIDE DEF q
<1>2. \A n \in 0..Len(a) : SentUpTo(q)[n] = SentUpTo(a)[n]
  <2> DEFINE T == {n \in 0..Len(a) : SentUpTo(q)[n] # SentUpTo(a)[n]}
  <2> SUFFICES ASSUME T # {} PROVE FALSE
    OBVIOUS
  <2>1. PICK m \in T : \A k \in T : m <= k
    <3>1. T \subseteq Nat
      BY <1>1
    <3> HIDE DEF T
    <3> QED BY <3>1, LeastElement
  <2>2. m \in 0..Len(a)
    OBVIOUS
  <2>3. CASE m = 0
    BY <1>1, <2>1, <2>3, SentUpToDefined
  <2>4. CASE m # 0
    <3>1. m - 1 \in 0..Len(a) /\ ~(m <= m - 1) /\ m \in 1..Len(a) /\ m \in 1..Len(q) /\ q[m] = a[m]
      BY <1>1, <2>2, <2>4
    <3>2. SentUpTo(q)[m - 1] = SentUpTo(a)[m - 1]
      BY <2>1, <3>1
    <3>3. SentUpTo(q)[m] = SentUpTo(a)[m]
      <4>1. SentUpTo(q)[m] = IF q[m] \in Statements THEN Append(SentUpTo(q)[m - 1], q[m])
                                                    ELSE SentUpTo(q)[m - 1]
        BY <1>1, <3>1, SentUpToDefined
      <4>2. SentUpTo(a)[m] = IF a[m] \in Statements THEN Append(SentUpTo(a)[m - 1], a[m])
                                                    ELSE SentUpTo(a)[m - 1]
        BY <3>1, SentUpToDefined
      <4> QED BY ONLY <3>1, <3>2, <4>1, <4>2
    <3> QED BY <2>1, <3>3
  <2> QED BY <2>3, <2>4
<1>3. \A n \in 0..Len(b) : SentUpTo(q)[Len(a) + n] = Sent(a) \o SentUpTo(b)[n]
  <2> DEFINE T == {n \in 0..Len(b) : SentUpTo(q)[Len(a) + n] # Sent(a) \o SentUpTo(b)[n]}
  <2> SUFFICES ASSUME T # {} PROVE FALSE
    OBVIOUS
  <2>1. PICK m \in T : \A k \in T : m <= k
    <3>1. T \subseteq Nat
      BY <1>1
    <3> HIDE DEF T
    <3> QED BY <3>1, LeastElement
  <2>2. m \in 0..Len(b)
    OBVIOUS
  <2>3. CASE m = 0
    <3>1. SentUpTo(b)[0] = <<>> /\ Sent(a) \in Seq(Statements)
      BY SentUpToDefined, SentType
    <3>2. Sent(a) \o <<>> = Sent(a)
      BY <3>1, ConcatEmptySeq
    <3>3. SentUpTo(q)[Len(a) + 0] = Sent(a)
      BY <1>1, <1>2 DEF Sent
    <3> QED BY <2>1, <2>3, <3>1, <3>2, <3>3
  <2>4. CASE m # 0
    <3> DEFINE u == SentUpTo(q)
               v == SentUpTo(b)
               n == Len(a) + m
    <3>1. /\ m - 1 \in 0..Len(b) /\ ~(m <= m - 1) /\ m \in 1..Len(b)
          /\ n \in 1..Len(q) /\ q[n] = b[m] /\ n - 1 = Len(a) + (m - 1)
      <4>1. m \in 1..Len(b) /\ m - 1 \in 0..Len(b) /\ ~(m <= m - 1)
        BY <1>1, <2>2, <2>4, SMTT(40)
      <4>2. n \in 1..(Len(a) + Len(b)) /\ ~(n <= Len(a)) /\ n - Len(a) = m /\ n - 1 = Len(a) + (m - 1)
        BY <1>1, <4>1, SMTT(40)
      <4> HIDE DEF n
      <4>3. q[n] = b[n - Len(a)]
        BY <1>1, <4>2
      <4> QED BY <1>1, <4>1, <4>2, <4>3
    <3>2. u[n - 1] = Sent(a) \o v[m - 1]
      BY <2>1, <3>1
    <3>3. u[n] = IF q[n] \in Statements THEN Append(u[n - 1], q[n]) ELSE u[n - 1]
      BY <1>1, <3>1, SentUpToDefined
    <3>4. v[m] = IF b[m] \in Statements THEN Append(v[m - 1], b[m]) ELSE v[m - 1]
      BY <3>1, SentUpToDefined
    <3>5. v[m - 1] \in Seq(Statements) /\ Sent(a) \in Seq(Statements)
      BY <3>1, SentType
    <3> HIDE DEF u, v, n
    <3>6. b[m] \in Statements => Append(Sent(a) \o v[m - 1], b[m]) = Sent(a) \o Append(v[m - 1], b[m])
      <4> DEFINE x == Sent(a)
                 y == v[m - 1]
                 e == b[m]
      <4> HIDE DEF x, y, e
      <4> SUFFICES ASSUME e \in Statements PROVE Append(x \o y, e) = x \o Append(y, e)
        BY DEF x, y, e
      <4>1. x \in Seq(Statements) /\ y \in Seq(Statements) /\ <<e>> \in Seq(Statements)
        BY <3>5 DEF x, y
      <4>2. x \o y \in Seq(Statements)
        BY <4>1, ConcatProperties
      <4>3. Append(x \o y, e) = (x \o y) \o <<e>> /\ Append(y, e) = y \o <<e>>
        BY <4>1, <4>2, AppendIsConcat
      <4>4. (x \o y) \o <<e>> = x \o (y \o <<e>>)
        <5> DEFINE z == <<e>>
        <5>1. z \in Seq(Statements)
          BY <4>1
        <5> HIDE DEF z
        <5>2. (x \o y) \o z = x \o (y \o z)
          BY <4>1, <5>1, StatementsAssociate, ZenonT(60)
        <5> QED BY <5>2 DEF z
      <4> QED BY <4>3, <4>4
    <3>7. u[n] = Sent(a) \o v[m]
      BY <3>1, <3>2, <3>3, <3>4, <3>6
    <3> QED BY <2>1, <3>7 DEF u, v, n
  <2> QED BY <2>3, <2>4
<1>4. Len(b) \in 0..Len(b)
  BY <1>1
<1>5. SentUpTo(q)[Len(a) + Len(b)] = Sent(a) \o SentUpTo(b)[Len(b)]
  BY <1>3, <1>4
<1>6. Sent(q) = SentUpTo(q)[Len(a) + Len(b)]
  BY <1>1 DEF Sent
<1>7. Sent(b) = SentUpTo(b)[Len(b)]
  BY DEF Sent
<1> QED BY <1>5, <1>6, <1>7 DEF q

-----------------------------------------------------------------------------
(* Framing: what a client sends is a sequence of lines                     *)

\* every word is followed by a newline
Lined(q) == \A i \in 1..Len(q) : q[i] # NL => i + 1 \in 1..Len(q) /\ q[i + 1] = NL

\* no line is empty
NoBlank(q) == \A i \in 1..Len(q) : q[i] = NL => i # 1 /\ q[i - 1] # NL

LEMMA RestOfLines ==
    ASSUME NEW q \in Seq(Words), NEW k \in 0..Len(q), Lined(q)
    PROVE  /\ Lined(Rest(q, k))
           /\ NoBlank(q) /\ (k = 0 \/ q[k] = NL) => NoBlank(Rest(q, k))
<1> DEFINE r == Rest(q, k)
<1>1. /\ Len(q) \in Nat /\ Len(r) = Len(q) - k
      /\ \A i \in 1..(Len(q) - k) : r[i] = q[i + k]
  BY LenProperties, RestProperties
<1> HIDE DEF r
<1>2. Lined(r)
  <2> SUFFICES ASSUME NEW i \in 1..Len(r), r[i] # NL
               PROVE  i + 1 \in 1..Len(r) /\ r[i + 1] = NL
    BY DEF Lined
  <2>1. i + k \in 1..Len(q) /\ q[i + k] # NL
    BY <1>1
  <2>2. i + k + 1 \in 1..Len(q) /\ q[i + k + 1] = NL
    BY <2>1 DEF Lined
  <2>3. i + 1 \in 1..Len(r) /\ (i + 1) + k = i + k + 1
    BY <1>1, <2>2
  <2> QED BY <1>1, <2>2, <2>3
<1>3. ASSUME NoBlank(q), k = 0 \/ q[k] = NL
      PROVE  NoBlank(r)
  <2> SUFFICES ASSUME NEW i \in 1..Len(r), r[i] = NL
               PROVE  i # 1 /\ r[i - 1] # NL
    BY DEF NoBlank
  <2>1. i + k \in 1..Len(q) /\ q[i + k] = NL
    BY <1>1
  <2>2. i + k # 1 /\ q[i + k - 1] # NL
    BY <1>3, <2>1 DEF NoBlank
  <2>3. i # 1
    <3> SUFFICES ASSUME i = 1 PROVE FALSE
      OBVIOUS
    <3>1. k # 0 /\ i + k - 1 = k
      BY <1>1, <2>2
    <3> QED BY <1>3, <2>2, <3>1
  <2>4. i - 1 \in 1..(Len(q) - k) /\ (i - 1) + k = i + k - 1
    BY <1>1, <2>3
  <2> QED BY <1>1, <2>2, <2>3, <2>4
<1> QED BY <1>2, <1>3 DEF r

\* A statement and its newline, taken off a buffer.
LEMMA SentRest ==
    ASSUME NEW q \in Seq(Words), NEW k \in 0..Len(q)
    PROVE  /\ (\A i \in 1..k : q[i] \notin Statements) => Sent(Rest(q, k)) = Sent(q)
           /\ k = 2 /\ q[1] \in Statements /\ q[2] = NL => Sent(q) = <<q[1]>> \o Sent(Rest(q, 2))
<1> DEFINE p == SubSeq(q, 1, k)
<1>1. Len(q) \in Nat /\ \A i \in 1..Len(q) : q[i] \in Words
  BY LenProperties, ElementOfSeq
<1>2. p \in Seq(Words) /\ Len(p) = k /\ \A i \in 1..k : p[i] = q[i]
  <2>1. \A i \in 1..k : q[i] \in Words
    BY <1>1
  <2>2. /\ SubSeq(q, 1, k) \in Seq(Words)
        /\ Len(SubSeq(q, 1, k)) = IF 1 <= k THEN k - 1 + 1 ELSE 0
        /\ \A i \in 1..(k - 1 + 1) : SubSeq(q, 1, k)[i] = q[1 + i - 1]
    BY <1>1, <2>1, SubSeqProperties
  <2>3. k - 1 + 1 = k /\ (~(1 <= k) => k = 0) /\ \A i \in 1..k : 1 + i - 1 = i
    BY <1>1
  <2> QED BY <2>2, <2>3
<1>3. q = p \o Rest(q, k)
  <2>1. 1 \in 1..(Len(q) + 1) /\ k \in (1 - 1)..Len(q) /\ Len(q) \in k..Len(q)
    BY <1>1
  <2>2. SubSeq(q, 1, k) \o SubSeq(q, k + 1, Len(q)) = SubSeq(q, 1, Len(q))
    BY <2>1, ConcatAdjacentSubSeq
  <2> QED BY <2>2, SubSeqFull DEF Rest
<1> HIDE DEF p
<1>4. Rest(q, k) \in Seq(Words)
  BY RestProperties
<1>5. Sent(q) = Sent(p) \o Sent(Rest(q, k))
  BY <1>2, <1>3, <1>4, SentConcat
<1>6. Sent(Rest(q, k)) \in Seq(Statements)
  BY <1>4, SentType
<1>7. ASSUME \A i \in 1..k : q[i] \notin Statements
      PROVE  Sent(Rest(q, k)) = Sent(q)
  <2>1. Sent(p) = <<>>
    BY <1>2, <1>7, SentNone
  <2> QED BY <1>5, <1>6, <2>1, ConcatEmptySeq
<1>8. ASSUME k = 2, q[1] \in Statements, q[2] = NL
      PROVE  Sent(p) = <<q[1]>>
  <2>1. Len(p) = 2 /\ p[1] = q[1] /\ p[2] = NL /\ NL \notin Statements
    BY <1>2, <1>8, ServerAssumption
  <2>2. SentUpTo(p)[0] = <<>>
    BY <1>2, SentUpToDefined
  <2>3. \A n \in 1..2 : SentUpTo(p)[n] = IF p[n] \in Statements
                                    THEN Append(SentUpTo(p)[n - 1], p[n])
                                    ELSE SentUpTo(p)[n - 1]
    BY <1>2, <2>1, SentUpToDefined
  <2> DEFINE u == SentUpTo(p)
  <2> HIDE DEF u
  <2>4. 1 \in 1..2 /\ 2 \in 1..2 /\ 1 - 1 = 0 /\ 2 - 1 = 1
    OBVIOUS
  <2>5. u[1] = Append(u[0], q[1])
    BY <1>8, <2>1, <2>3, <2>4 DEF u
  <2>6. u[2] = u[1]
    BY <2>1, <2>3, <2>4 DEF u
  <2>7. SentUpTo(p)[2] = Append(<<>>, q[1])
    BY <2>2, <2>5, <2>6 DEF u
  <2> QED BY <2>1, <2>7 DEF Sent
<1> QED BY <1>5, <1>7, <1>8

\* the first line of a buffer, when t is what the client sent after it
LEMMA TakenLine ==
    ASSUME NEW buf \in Seq(Words), NEW t \in Seq(Words), Lined(buf \o t), HasLine(buf)
    PROVE  /\ AfterLine(buf) \in Seq(Words)
           /\ Lined(AfterLine(buf) \o t)
           /\ NoBlank(buf \o t) => NoBlank(AfterLine(buf) \o t)
           /\ FirstLine(buf) = Empty =>
                 Sent(AfterLine(buf) \o t) = Sent(buf \o t) /\ ~NoBlank(buf \o t)
           /\ FirstLine(buf) \in Statements =>
                 Sent(buf \o t) = <<FirstLine(buf)>> \o Sent(AfterLine(buf) \o t)
<1> DEFINE q == buf \o t
           f == FirstNL(buf)
<1>1. /\ q \in Seq(Words) /\ Len(q) = Len(buf) + Len(t) /\ Len(buf) \in Nat /\ Len(t) \in Nat
      /\ \A i \in 1..(Len(buf) + Len(t)) : q[i] = IF i <= Len(buf) THEN buf[i] ELSE t[i - Len(buf)]
  BY ConcatProperties, LenProperties
<1>2. f \in 1..Len(buf) /\ buf[f] = NL /\ \A j \in 1..(f - 1) : buf[j] # NL
  BY FirstNLProperties
<1>3. AfterLine(buf) = Rest(buf, f)
  BY DEF AfterLine, Rest
<1>4. Lined(q)
  OBVIOUS
<1> HIDE DEF q, f
<1>5. \A i \in 1..Len(buf) : i \in 1..Len(q) /\ q[i] = buf[i]
  BY <1>1
<1>6. f \in 0..Len(buf) /\ f \in 0..Len(q) /\ q[f] = NL
  BY <1>1, <1>2, <1>5
<1>7. AfterLine(buf) \o t = Rest(q, f)
  BY <1>3, <1>6, RestOfConcat, ZenonT(60) DEF q
<1>8. f = 1 \/ (f = 2 /\ buf[1] # NL)
  <2> SUFFICES ASSUME f # 1 PROVE f = 2 /\ buf[1] # NL
    OBVIOUS
  <2>1. 1 \in 1..(f - 1) /\ 1 \in 1..Len(buf) /\ 2 \in 1..Len(buf)
    BY <1>1, <1>2
  <2>2. buf[1] # NL /\ q[1] # NL /\ 1 \in 1..Len(q)
    BY <1>2, <1>5, <2>1
  <2>3. q[1 + 1] = NL
    BY <1>4, <2>2 DEF Lined
  <2>4. buf[2] = NL
    BY <1>5, <2>1, <2>3, SMTT(40)
  <2>5. ~(2 \in 1..(f - 1))
    BY <1>2, <2>4
  <2> QED BY <1>1, <1>2, <2>1, <2>2, <2>5
<1>9. AfterLine(buf) \in Seq(Words)
  BY <1>3, <1>6, RestProperties
<1>10. Lined(Rest(q, f)) /\ (NoBlank(q) => NoBlank(Rest(q, f)))
  BY <1>1, <1>4, <1>6, RestOfLines
<1>11. NL \notin Statements
  BY ServerAssumption
<1>12. CASE f = 1
  <2>1. FirstLine(buf) = Empty /\ Empty \notin Statements
    BY <1>12, ServerAssumption DEF FirstLine, f
  <2>2. \A i \in 1..1 : i = 1
    OBVIOUS
  <2>3. Sent(Rest(q, f)) = Sent(q)
    BY <1>1, <1>6, <1>11, <1>12, <2>2, SentRest
  <2>4. ~NoBlank(q)
    BY <1>2, <1>5, <1>12, <1>6 DEF NoBlank
  <2> QED BY <1>7, <1>9, <1>10, <2>1, <2>3, <2>4 DEF q
<1>13. CASE f = 2 /\ buf[1] # NL
  <2>1. FirstLine(buf) = buf[1] /\ buf[1] \in Words /\ 1 \in 1..Len(buf)
    BY <1>1, <1>2, <1>13, ElementOfSeq DEF FirstLine, f
  <2>2. FirstLine(buf) # Empty
    BY <1>13, LineProperties
  <2>3. FirstLine(buf) = q[1]
    BY <1>5, <2>1
  <2>4. q[1] \in Statements => Sent(q) = <<q[1]>> \o Sent(Rest(q, 2))
    BY <1>1, <1>6, <1>13, SentRest
  <2> QED BY <1>7, <1>9, <1>10, <1>13, <2>2, <2>3, <2>4 DEF q
<1> QED BY <1>8, <1>12, <1>13

\* the leading empty lines of a buffer, when t is what the client sent after it
LEMMA SkippedEmpty ==
    ASSUME NEW buf \in Seq(Words), NEW t \in Seq(Words), Lined(buf \o t)
    PROVE  /\ SkipEmpty(buf) \in Seq(Words)
           /\ Lined(SkipEmpty(buf) \o t)
           /\ NoBlank(buf \o t) => NoBlank(SkipEmpty(buf) \o t)
           /\ Sent(SkipEmpty(buf) \o t) = Sent(buf \o t)
<1> DEFINE q == buf \o t
<1>1. /\ q \in Seq(Words) /\ Len(q) = Len(buf) + Len(t) /\ Len(buf) \in Nat /\ Len(t) \in Nat
      /\ \A i \in 1..(Len(buf) + Len(t)) : q[i] = IF i <= Len(buf) THEN buf[i] ELSE t[i - Len(buf)]
      /\ DOMAIN buf = 1..Len(buf)
  BY ConcatProperties, LenProperties
<1>2. Lined(q)
  OBVIOUS
<1> HIDE DEF q
<1>3. \A i \in 1..Len(buf) : i \in 1..Len(q) /\ q[i] = buf[i]
  BY <1>1
<1>4. \E k \in 0..Len(buf) : SkipEmpty(buf) = Rest(buf, k) /\ \A i \in 1..k : buf[i] = NL
  <2>1. CASE \A i \in DOMAIN buf : buf[i] = NL
    <3>1. SkipEmpty(buf) = <<>>
      BY <2>1 DEF SkipEmpty
    <3>2. Rest(buf, Len(buf)) = <<>>
      <4>1. Len(buf) + 1 \in Int /\ Len(buf) \in Int /\ Len(buf) < Len(buf) + 1
        BY <1>1
      <4> QED BY <4>1, SubSeqEmpty DEF Rest
    <3>3. Len(buf) \in 0..Len(buf)
      BY <1>1
    <3> QED BY <1>1, <2>1, <3>1, <3>2, <3>3
  <2>2. CASE ~(\A i \in DOMAIN buf : buf[i] = NL)
    <3> DEFINE T == {i \in DOMAIN buf : buf[i] # NL}
               k == CHOOSE i \in DOMAIN buf : buf[i] # NL /\ \A j \in 1..(i - 1) : buf[j] = NL
    <3>1. T \subseteq Nat /\ T # {}
      BY <1>1, <2>2
    <3>2. PICK x \in T : \A y \in T : x <= y
      BY <3>1, LeastElement
    <3>3. \A j \in 1..(x - 1) : buf[j] = NL
      <4> SUFFICES ASSUME NEW j \in 1..(x - 1), buf[j] # NL PROVE FALSE
        OBVIOUS
      <4>1. j \in T /\ j < x
        BY <1>1, <3>2
      <4> QED BY <1>1, <3>2, <4>1
    <3>4. \E i \in DOMAIN buf : buf[i] # NL /\ \A j \in 1..(i - 1) : buf[j] = NL
      BY <3>2, <3>3
    <3>5. k \in 1..Len(buf) /\ \A j \in 1..(k - 1) : buf[j] = NL
      BY <1>1, <3>4
    <3> HIDE DEF k
    <3>6. SkipEmpty(buf) = SubSeq(buf, k, Len(buf))
      BY <2>2 DEF SkipEmpty, k
    <3>7. k - 1 \in 0..Len(buf) /\ (k - 1) + 1 = k
      BY <1>1, <3>5
    <3>8. SkipEmpty(buf) = Rest(buf, k - 1)
      BY <3>6, <3>7 DEF Rest
    <3> QED BY <3>5, <3>7, <3>8
  <2> QED BY <2>1, <2>2
<1>5. PICK k \in 0..Len(buf) : SkipEmpty(buf) = Rest(buf, k) /\ \A i \in 1..k : buf[i] = NL
  BY <1>4
<1>6. k \in 0..Len(q) /\ (k = 0 \/ k \in 1..k) /\ \A i \in 1..k : q[i] = NL
  BY <1>1, <1>3, <1>5
<1>7. SkipEmpty(buf) \o t = Rest(q, k)
  BY <1>5, RestOfConcat, ZenonT(60) DEF q
<1>8. NL \notin Statements
  BY ServerAssumption
<1>9. Sent(Rest(q, k)) = Sent(q)
  BY <1>1, <1>6, <1>8, SentRest
<1>10. Lined(Rest(q, k)) /\ (NoBlank(q) => NoBlank(Rest(q, k)))
  BY <1>1, <1>2, <1>6, RestOfLines
<1> QED BY <1>7, <1>9, <1>10, SkipEmptyProperties DEF q

-----------------------------------------------------------------------------
(* The lines a connection has still to execute                             *)

Queue(c) == recvBuffer[c] \o stream[c]

\* What a visit does to the queue q of connection c, r being what remains: it ends
\* the connection, takes no statement, or hands the first one to the worker.
Visited(c, q, r) ==
    /\ Lined(r) /\ (NoBlank(q) => NoBlank(r))
    /\ \/ connState'[c] = "CLOSED" /\ taskQueue' = taskQueue
       \/ /\ connState'[c] \in {"IDLE", "READING", "WRITING"}
          /\ taskQueue' = taskQueue
          /\ Sent(r) = Sent(q)
          /\ NoBlank(q) /\ connState'[c] # "WRITING" => ~HasLine(recvBuffer'[c])
       \/ /\ connState'[c] = "PENDING_RESULT"
          /\ \E s \in Statements : /\ taskQueue' = Append(taskQueue, <<c, s>>)
                                   /\ Sent(q) = <<s>> \o Sent(r)

LEMMA TakenByReceive ==
    ASSUME TypeOK, NEW c \in Conns, NEW buf \in Seq(Words), NEW t \in Seq(Words),
           Lined(buf \o t), TakeLine(c, buf)
    PROVE  /\ Visited(c, buf \o t, recvBuffer'[c] \o t)
           /\ recvBuffer' = [recvBuffer EXCEPT ![c] = recvBuffer'[c]]
<1>1. connState \in [Conns -> States] /\ recvBuffer \in [Conns -> Seq(Words)]
  BY DEF TypeOK, States
<1>2. CASE ~HasLine(buf) /\ Wait(c, "READING", buf)
  <2>1. connState'[c] = "READING" /\ taskQueue' = taskQueue /\ recvBuffer'[c] = buf
        /\ recvBuffer' = [recvBuffer EXCEPT ![c] = buf]
    BY <1>1, <1>2 DEF Wait
  <2> QED BY <1>2, <2>1 DEF Visited
<1>3. CASE HasLine(buf)
  <2> DEFINE rest == AfterLine(buf)
             line == FirstLine(buf)
  <2>1. /\ rest \in Seq(Words)
        /\ Lined(rest \o t)
        /\ NoBlank(buf \o t) => NoBlank(rest \o t)
        /\ line = Empty => Sent(rest \o t) = Sent(buf \o t) /\ ~NoBlank(buf \o t)
        /\ line \in Statements => Sent(buf \o t) = <<line>> \o Sent(rest \o t)
    BY <1>3, TakenLine
  <2>2. line \in Statements \union {Exit, Empty}
    BY <1>3, LineProperties
  <2>3. \/ line = Exit /\ CloseConn(c, rest)
        \/ line = Empty /\ Wait(c, "IDLE", rest)
        \/ line \notin {Exit, Empty} /\ Enqueue(c, line, rest)
    BY <1>3 DEF TakeLine
  <2> HIDE DEF rest, line
  <2>4. CASE line = Exit /\ CloseConn(c, rest)
    <3>1. connState'[c] = "CLOSED" /\ taskQueue' = taskQueue /\ recvBuffer'[c] = rest
          /\ recvBuffer' = [recvBuffer EXCEPT ![c] = rest]
      BY <1>1, <2>4 DEF CloseConn
    <3> QED BY <2>1, <3>1 DEF Visited
  <2>5. CASE line = Empty /\ Wait(c, "IDLE", rest)
    <3>1. connState'[c] = "IDLE" /\ taskQueue' = taskQueue /\ recvBuffer'[c] = rest
          /\ recvBuffer' = [recvBuffer EXCEPT ![c] = rest]
      BY <1>1, <2>5 DEF Wait
    <3> QED BY <2>1, <2>5, <3>1 DEF Visited
  <2>6. CASE line \notin {Exit, Empty} /\ Enqueue(c, line, rest)
    <3>1. connState'[c] = "PENDING_RESULT" /\ taskQueue' = Append(taskQueue, <<c, line>>)
          /\ recvBuffer'[c] = rest /\ recvBuffer' = [recvBuffer EXCEPT ![c] = rest]
      BY <1>1, <2>6 DEF Enqueue, Push
    <3>2. line \in Statements
      BY <2>2, <2>6
    <3> QED BY <2>1, <3>1, <3>2 DEF Visited
  <2> QED BY <2>3, <2>4, <2>5, <2>6
<1> QED BY <1>2, <1>3 DEF TakeLine

LEMMA TakenAfterResponse ==
    ASSUME TypeOK, NEW c \in Conns, NEW buf \in Seq(Words), NEW t \in Seq(Words),
           Lined(buf \o t), NextLine(c, SkipEmpty(buf))
    PROVE  /\ Visited(c, buf \o t, recvBuffer'[c] \o t)
           /\ recvBuffer' = [recvBuffer EXCEPT ![c] = recvBuffer'[c]]
<1>1. connState \in [Conns -> States] /\ recvBuffer \in [Conns -> Seq(Words)]
  BY DEF TypeOK, States
<1> DEFINE b == SkipEmpty(buf)
<1>2. /\ b \in Seq(Words) /\ Lined(b \o t)
      /\ NoBlank(buf \o t) => NoBlank(b \o t)
      /\ Sent(b \o t) = Sent(buf \o t)
      /\ HasLine(b) => b[1] # NL
  BY SkippedEmpty, SkipEmptyProperties
<1>3. NextLine(c, b)
  OBVIOUS
<1> HIDE DEF b
<1>4. CASE ~HasLine(b) /\ Wait(c, "IDLE", b)
  <2>1. connState'[c] = "IDLE" /\ taskQueue' = taskQueue /\ recvBuffer'[c] = b
        /\ recvBuffer' = [recvBuffer EXCEPT ![c] = b]
    BY <1>1, <1>4 DEF Wait
  <2> QED BY <1>2, <1>4, <2>1 DEF Visited
<1>5. CASE HasLine(b)
  <2> DEFINE rest == AfterLine(b)
             line == FirstLine(b)
  <2>1. /\ Lined(rest \o t)
        /\ NoBlank(b \o t) => NoBlank(rest \o t)
        /\ line \in Statements => Sent(b \o t) = <<line>> \o Sent(rest \o t)
    BY <1>2, <1>5, TakenLine
  <2>2. line # Exit => line \in Statements
    BY <1>2, <1>5, LineProperties
  <2>3. IF line = Exit THEN CloseConn(c, rest) ELSE Enqueue(c, line, rest)
    BY <1>3, <1>5 DEF NextLine
  <2> HIDE DEF rest, line
  <2>4. CASE CloseConn(c, rest)
    <3>1. connState'[c] = "CLOSED" /\ taskQueue' = taskQueue /\ recvBuffer'[c] = rest
          /\ recvBuffer' = [recvBuffer EXCEPT ![c] = rest]
      BY <1>1, <2>4 DEF CloseConn
    <3> QED BY <1>2, <2>1, <3>1 DEF Visited
  <2>5. CASE line # Exit /\ Enqueue(c, line, rest)
    <3>1. connState'[c] = "PENDING_RESULT" /\ taskQueue' = Append(taskQueue, <<c, line>>)
          /\ recvBuffer'[c] = rest /\ recvBuffer' = [recvBuffer EXCEPT ![c] = rest]
      BY <1>1, <2>5 DEF Enqueue, Push
    <3>2. line \in Statements
      BY <2>2, <2>5
    <3> QED BY <1>2, <2>1, <3>1, <3>2 DEF Visited
  <2> QED BY <2>3, <2>4, <2>5
<1> QED BY <1>3, <1>4, <1>5 DEF NextLine

\* The whole visit: recvBuffer and stream of the other connections stay.
LEMMA VisitEffect ==
    ASSUME TypeOK, NEW c \in Conns, Visit(c), Lined(Queue(c))
    PROVE  /\ Visited(c, Queue(c), recvBuffer'[c] \o stream'[c])
           /\ \A d \in Conns \ {c} : recvBuffer'[d] = recvBuffer[d] /\ stream'[d] = stream[d]
           /\ connState[c] \in {"IDLE", "READING", "WRITING"} \/ connState'[c] = "CLOSED"
           /\ UNCHANGED <<fileVars, sessionDb>>
<1>1. /\ connState \in [Conns -> States] /\ recvBuffer \in [Conns -> Seq(Words)]
      /\ stream \in [Conns -> Seq(Words)] /\ recvBuffer[c] \in Seq(Words) /\ stream[c] \in Seq(Words)
      /\ Queue(c) \in Seq(Words)
  BY ConcatProperties DEF TypeOK, States, Queue
<1>2. ASSUME NEW n \in 1..Len(stream[c]), Receive(c, n)
      PROVE  /\ Visited(c, Queue(c), recvBuffer'[c] \o stream'[c])
             /\ \A d \in Conns \ {c} : recvBuffer'[d] = recvBuffer[d] /\ stream'[d] = stream[d]
  <2> DEFINE m == SubSeq(stream[c], 1, n)
             t == SubSeq(stream[c], n + 1, Len(stream[c]))
             buf == recvBuffer[c] \o m
  <2>1. Len(stream[c]) \in Nat /\ n \in 0..Len(stream[c]) /\ \A i \in 1..Len(stream[c]) : stream[c][i] \in Words
    BY <1>1, LenProperties, ElementOfSeq
  <2>2. m \in Seq(Words) /\ t \in Seq(Words)
    BY <2>1, SubSeqProperties
  <2>3. m \o t = stream[c]
    <3>1. 1 \in 1..(Len(stream[c]) + 1) /\ n \in (1 - 1)..Len(stream[c]) /\ Len(stream[c]) \in n..Len(stream[c])
      BY <2>1
    <3>2. SubSeq(stream[c], 1, n) \o SubSeq(stream[c], n + 1, Len(stream[c])) = SubSeq(stream[c], 1, Len(stream[c]))
      BY <1>1, <3>1, ConcatAdjacentSubSeq
    <3> QED BY <1>1, <3>2, SubSeqFull
  <2>4. stream' = [stream EXCEPT ![c] = t] /\ TakeLine(c, buf)
    BY <1>1, <1>2 DEF Receive
  <2> HIDE DEF m, t
  <2>5. buf \in Seq(Words)
    BY <1>1, <2>2, ConcatProperties
  <2>6. buf \o t = Queue(c)
    <3> DEFINE a == recvBuffer[c]
    <3>1. a \in Seq(Words)
      BY <1>1
    <3> HIDE DEF a
    <3>2. (a \o m) \o t = a \o (m \o t)
      BY ONLY <2>2, <3>1, ConcatAssociative, SMTT(40)
    <3> QED BY <2>3, <3>2 DEF Queue, a
  <2> HIDE DEF buf
  <2>7. /\ Visited(c, buf \o t, recvBuffer'[c] \o t)
        /\ recvBuffer' = [recvBuffer EXCEPT ![c] = recvBuffer'[c]]
    BY <2>2, <2>4, <2>5, <2>6, TakenByReceive
  <2>8. stream'[c] = t
    BY <1>1, <2>4
  <2>9. \A d \in Conns \ {c} : recvBuffer'[d] = recvBuffer[d] /\ stream'[d] = stream[d]
    BY <1>1, <2>4, <2>7
  <2> QED BY <2>6, <2>7, <2>8, <2>9
<1>3. ASSUME NEW n \in 1..sendLeft[c], Send(c, n)
      PROVE  /\ Visited(c, Queue(c), recvBuffer'[c] \o stream'[c])
             /\ \A d \in Conns \ {c} : recvBuffer'[d] = recvBuffer[d] /\ stream'[d] = stream[d]
  <2>1. stream' = stream /\ connState[c] = "WRITING"
    BY <1>3 DEF Send, peerVars
  <2>2. CASE UNCHANGED <<connState, recvBuffer, taskQueue>>
    BY <2>1, <2>2 DEF Visited, Queue
  <2>3. CASE NextLine(c, SkipEmpty(recvBuffer[c]))
    <3>1. /\ Visited(c, Queue(c), recvBuffer'[c] \o stream[c])
          /\ recvBuffer' = [recvBuffer EXCEPT ![c] = recvBuffer'[c]]
      BY <1>1, <2>3, TakenAfterResponse DEF Queue
    <3>2. \A d \in Conns \ {c} : recvBuffer'[d] = recvBuffer[d]
      BY <1>1, <3>1
    <3> QED BY <2>1, <3>1, <3>2
  <2> QED BY <1>3, <2>2, <2>3 DEF Send
<1>4. ASSUME PeerGone(c)
      PROVE  /\ Visited(c, Queue(c), recvBuffer'[c] \o stream'[c])
             /\ \A d \in Conns \ {c} : recvBuffer'[d] = recvBuffer[d] /\ stream'[d] = stream[d]
             /\ connState'[c] = "CLOSED"
  <2>1. stream' = stream /\ connState'[c] = "CLOSED" /\ taskQueue' = taskQueue
    BY <1>1, <1>4 DEF PeerGone, CloseConn, peerVars
  <2>2. recvBuffer'[c] = recvBuffer[c] /\ \A d \in Conns \ {c} : recvBuffer'[d] = recvBuffer[d]
    BY <1>1, <1>4 DEF PeerGone, CloseConn
  <2> QED BY <2>1, <2>2 DEF Visited, Queue
<1>5. UNCHANGED <<fileVars, sessionDb>>
  BY DEF Visit, Receive, Send, PeerGone
<1>6. connState[c] \in {"IDLE", "READING", "WRITING"} \/ PeerGone(c)
  BY DEF Visit, Receive, Send
<1> QED BY <1>2, <1>3, <1>4, <1>5, <1>6 DEF Visit

\* What the connections hold between a client and the worker.
Framed ==
    /\ \A c \in Conns : Lined(Queue(c))
    /\ \A c \in Conns : connState[c] = "ABSENT" => recvBuffer[c] = <<>> /\ stream[c] = <<>>
    /\ Empty \notin Lines =>
           \A c \in Conns : /\ NoBlank(Queue(c))
                            /\ connState[c] \in {"IDLE", "READING"} => ~HasLine(recvBuffer[c])

LEMMA NothingQueued == Lined(<<>>) /\ NoBlank(<<>>) /\ ~HasLine(<<>>) /\ <<>> \o <<>> = <<>>
<1>1. Len(<<>>) = 0 /\ 1..0 = {} /\ <<>> \in Seq(Words)
  BY EmptySeq
<1>2. <<>> \o <<>> = <<>>
  BY <1>1, ConcatEmptySeq
<1> QED BY <1>1, <1>2 DEF Lined, NoBlank, HasLine

\* a line sent is one or two words behind what was sent before
LEMMA LineSent ==
    ASSUME NEW q \in Seq(Words), NEW line \in Lines, Lined(q)
    PROVE  LET l == IF line = Empty THEN <<NL>> ELSE <<line, NL>>
           IN  /\ l \in Seq(Words) /\ Lined(q \o l)
               /\ NoBlank(q) /\ line # Empty => NoBlank(q \o l)
               /\ Sent(q \o l) = IF line \in Statements THEN Append(Sent(q), line) ELSE Sent(q)
<1> DEFINE l == IF line = Empty THEN <<NL>> ELSE <<line, NL>>
<1>1. /\ NL \in Words /\ (line # Empty => line \in Words /\ line # NL)
      /\ NL \notin Statements /\ Empty \notin Statements
  BY ServerAssumption DEF Words, Exit, NL
<1>2. /\ l \in Seq(Words)
      /\ IF line = Empty THEN Len(l) = 1 /\ l[1] = NL
                         ELSE Len(l) = 2 /\ l[1] = line /\ l[2] = NL
  BY <1>1
<1> HIDE DEF l
<1>3. /\ q \o l \in Seq(Words) /\ Len(q \o l) = Len(q) + Len(l) /\ Len(q) \in Nat
      /\ \A i \in 1..(Len(q) + Len(l)) : (q \o l)[i] = IF i <= Len(q) THEN q[i] ELSE l[i - Len(q)]
  BY <1>2, ConcatProperties, LenProperties
<1> DEFINE r == q \o l
<1>4. /\ \A i \in 1..Len(q) : r[i] = q[i]
      /\ r[Len(q) + 1] = l[1] /\ Len(l) \in {1, 2} /\ (Len(l) = 2 => r[Len(q) + 2] = l[2])
  BY <1>2, <1>3
<1>5. \A i \in 1..Len(r) : i \in 1..Len(q) \/ i = Len(q) + 1 \/ (Len(l) = 2 /\ i = Len(q) + 2)
  <2> DEFINE L == Len(q)
             M == Len(l)
  <2>1. M \in {1, 2} /\ L \in Nat /\ Len(r) = L + M
    BY <1>3, <1>4
  <2> HIDE DEF r, L, M
  <2>2. ASSUME NEW i \in 1..(L + M) PROVE i \in 1..L \/ i = L + 1 \/ (M = 2 /\ i = L + 2)
    <3>1. CASE M = 1
      BY ONLY <2>1, <3>1
    <3>2. CASE M = 2
      BY ONLY <2>1, <3>2
    <3> QED BY <2>1, <3>1, <3>2
  <2> QED BY <2>1, <2>2 DEF L, M
<1> HIDE DEF r
<1>6. Lined(r)
  <2> SUFFICES ASSUME NEW i \in 1..Len(r), r[i] # NL
               PROVE  i + 1 \in 1..Len(r) /\ r[i + 1] = NL
    BY DEF Lined
  <2>1. Len(r) = Len(q) + Len(l)
    BY <1>3 DEF r
  <2>2. CASE i \in 1..Len(q)
    <3>1. q[i] # NL
      BY <1>4, <2>2
    <3>2. i + 1 \in 1..Len(q) /\ q[i + 1] = NL
      BY <2>2, <3>1 DEF Lined
    <3> QED BY <1>3, <1>4, <2>1, <3>2
  <2>3. CASE i = Len(q) + 1
    <3>1. line # Empty /\ Len(l) = 2
      BY <1>2, <1>4, <2>3
    <3>2. r[Len(q) + 2] = NL
      BY <1>2, <1>4, <3>1
    <3> QED BY <1>3, <2>1, <2>3, <3>1, <3>2
  <2>4. CASE Len(l) = 2 /\ i = Len(q) + 2
    <3>1. r[i] = NL
      BY <1>2, <1>4, <2>4
    <3> QED BY <3>1
  <2> QED BY <1>5, <2>2, <2>3, <2>4
<1>7. ASSUME NoBlank(q), line # Empty
      PROVE  NoBlank(r)
  <2> SUFFICES ASSUME NEW i \in 1..Len(r), r[i] = NL
               PROVE  i # 1 /\ r[i - 1] # NL
    BY DEF NoBlank
  <2>1. CASE i \in 1..Len(q)
    <3>1. i # 1 /\ q[i - 1] # NL
      BY <1>4, <1>7, <2>1 DEF NoBlank
    <3>2. i - 1 \in 1..Len(q)
      BY <1>3, <2>1, <3>1
    <3> QED BY <1>4, <3>1, <3>2
  <2>2. CASE i = Len(q) + 1
    <3>1. r[i] = line
      BY <1>2, <1>4, <1>7, <2>2
    <3> QED BY <1>1, <1>7, <3>1
  <2>3. CASE i = Len(q) + 2
    <3>1. i - 1 = Len(q) + 1 /\ i # 1
      BY <1>3, <2>3
    <3>2. r[i - 1] = line
      BY <1>2, <1>4, <1>7, <3>1
    <3> QED BY <1>1, <1>7, <3>1, <3>2
  <2> QED BY <1>5, <2>1, <2>2, <2>3
<1>8. Sent(r) = IF line \in Statements THEN Append(Sent(q), line) ELSE Sent(q)
  <2>1. Sent(r) = Sent(q) \o Sent(l)
    BY <1>2, SentConcat DEF r
  <2>2. Sent(q) \in Seq(Statements)
    BY SentType
  <2>3. CASE line \notin Statements
    <3>1. \A i \in 1..Len(l) : l[i] \notin Statements
      BY <1>1, <1>2, <2>3
    <3>2. Sent(l) = <<>>
      BY <1>2, <3>1, SentNone
    <3> QED BY <2>1, <2>2, <2>3, <3>2, ConcatEmptySeq
  <2>4. CASE line \in Statements
    <3>1. 2 \in 0..Len(l) /\ l[1] \in Statements /\ l[1] = line /\ l[2] = NL /\ Len(l) = 2
      BY <1>1, <1>2, <2>4
    <3>2. Sent(l) = <<line>> \o Sent(Rest(l, 2))
      BY <1>2, <3>1, SentRest
    <3>3. Rest(l, 2) = <<>>
      BY <3>1, SubSeqEmpty DEF Rest
    <3>4. Sent(<<>>) = <<>>
      <4>1. <<>> \in Seq(Words) /\ Len(<<>>) = 0 /\ 1..0 = {}
        BY EmptySeq
      <4> QED BY <4>1, SentNone
    <3>5. <<line>> \o <<>> = <<line>>
      <4>1. <<line>> \in Seq(Statements)
        BY <2>4
      <4> DEFINE x == <<line>>
      <4>2. x \in Seq(Statements)
        BY <4>1
      <4> HIDE DEF x
      <4>3. x \o <<>> = x
        BY <4>2, ConcatEmptySeq
      <4> QED BY <4>3 DEF x
    <3>6. Sent(q) \o <<line>> = Append(Sent(q), line)
      BY <2>2, <2>4, AppendIsConcat
    <3> QED BY <2>1, <2>4, <3>2, <3>3, <3>4, <3>5, <3>6
  <2> QED BY <2>3, <2>4
<1> QED BY <1>2, <1>6, <1>7, <1>8 DEF l, r

LEMMA FramedInit == Init => Framed
<1> SUFFICES ASSUME Init PROVE Framed
  OBVIOUS
<1>1. \A c \in Conns : /\ recvBuffer[c] = <<>> /\ stream[c] = <<>>
                       /\ connState[c] = "ABSENT"
  BY DEF Init
<1>2. \A c \in Conns : Queue(c) = <<>>
  BY <1>1, NothingQueued DEF Queue
<1> QED BY <1>1, <1>2, NothingQueued DEF Framed

\* steps after which no connection holds anything else
LEMMA FramedFrame ==
    ASSUME Framed, UNCHANGED <<recvBuffer, stream>>,
           \A c \in Conns : \/ connState'[c] = connState[c]
                            \/ connState'[c] = "WRITING"
                            \/ connState[c] = "ABSENT"
    PROVE  Framed'
<1>1. \A c \in Conns : Queue(c)' = Queue(c)
  BY DEF Queue
<1>2. \A c \in Conns : connState'[c] \in {"IDLE", "READING"} =>
           connState[c] \in {"IDLE", "READING"} \/ recvBuffer[c] = <<>>
  BY DEF Framed
<1>3. \A c \in Conns : connState'[c] = "ABSENT" => connState[c] = "ABSENT"
  OBVIOUS
<1> QED BY <1>1, <1>2, <1>3, NothingQueued DEF Framed

LEMMA FramedStep ==
    ASSUME TypeOK, Scheduling, OneOutstanding, Framed, [Next]_vars
    PROVE  Framed'
<1>t. /\ connState \in [Conns -> States] /\ recvBuffer \in [Conns -> Seq(Words)]
      /\ stream \in [Conns -> Seq(Words)]
      /\ \A c \in Conns : Queue(c) \in Seq(Words)
  BY ConcatProperties DEF TypeOK, States, Queue
<1>1. CASE Pop \/ Lookup \/ SetContext \/ Run \/ Save
  BY <1>1, FramedFrame DEF Pop, Lookup, SetContext, Run, Save, connVars, peerVars
<1>2. CASE Publish
  <2>1. UNCHANGED <<recvBuffer, stream>>
    BY <1>2 DEF Publish, peerVars
  <2>2. \A c \in Conns : connState'[c] = connState[c] \/ connState'[c] = "WRITING"
    BY <1>2, <1>t DEF Publish
  <2> QED BY <2>1, <2>2, FramedFrame
<1>3. CASE BuildSets \/ SelectAny
  BY <1>3, FramedFrame DEF BuildSets, SelectAny, Select, connVars, peerVars
<1>4. CASE Accept
  <2>1. nextId \in Conns /\ connState[nextId] = "ABSENT"
    BY <1>4, ServerAssumption DEF Accept, Scheduling, Conns, TypeOK
  <2>2. \A c \in Conns : c # nextId => connState'[c] = connState[c]
    BY <1>4, <1>t DEF Accept
  <2>3. UNCHANGED <<recvBuffer, stream>>
    BY <1>4 DEF Accept, peerVars
  <2> QED BY <2>1, <2>2, <2>3, FramedFrame
<1>5. ASSUME NEW c \in Conns, Visit(c)
      PROVE  Framed'
  <2> DEFINE r == recvBuffer'[c] \o stream'[c]
  <2>1. Lined(Queue(c))
    BY DEF Framed
  <2>2. /\ Visited(c, Queue(c), r)
        /\ \A d \in Conns \ {c} : recvBuffer'[d] = recvBuffer[d] /\ stream'[d] = stream[d]
    BY <1>5, <2>1, VisitEffect
  <2>3. \A d \in Conns \ {c} : connState'[d] = connState[d]
    BY <1>5, VisitFrame
  <2>4. Queue(c)' = r /\ \A d \in Conns \ {c} : Queue(d)' = Queue(d)
    BY <2>2 DEF Queue
  <2>5. Lined(r) /\ (NoBlank(Queue(c)) => NoBlank(r)) /\ connState'[c] # "ABSENT"
        /\ (NoBlank(Queue(c)) /\ connState'[c] \in {"IDLE", "READING"} => ~HasLine(recvBuffer'[c]))
    BY <2>2 DEF Visited
  <2> HIDE DEF r
  <2>6. \A d \in Conns : Lined(Queue(d)')
    BY <2>4, <2>5 DEF Framed
  <2>7. \A d \in Conns : connState'[d] = "ABSENT" => recvBuffer'[d] = <<>> /\ stream'[d] = <<>>
    BY <2>2, <2>3, <2>5 DEF Framed
  <2>8. ASSUME Empty \notin Lines, NEW d \in Conns
        PROVE  /\ NoBlank(Queue(d)')
               /\ connState'[d] \in {"IDLE", "READING"} => ~HasLine(recvBuffer'[d])
    BY <2>2, <2>3, <2>4, <2>5, <2>8 DEF Framed
  <2> QED BY <2>6, <2>7, <2>8 DEF Framed, Lined, NoBlank, HasLine
<1>6. CASE EndPass
  <2>1. \A c \in Conns :
           IF connState[c] = "CLOSED"
           THEN connState'[c] = "ABSENT" /\ recvBuffer'[c] = <<>> /\ stream'[c] = <<>>
           ELSE connState'[c] = connState[c] /\ recvBuffer'[c] = recvBuffer[c] /\ stream'[c] = stream[c]
    BY <1>6 DEF EndPass
  <2>2. \A c \in Conns : Queue(c)' = Queue(c) \/ Queue(c)' = <<>>
    BY <2>1, NothingQueued DEF Queue
  <2>3. \A d \in Conns : Lined(Queue(d)')
    BY <2>2, NothingQueued DEF Framed
  <2>4. ASSUME Empty \notin Lines, NEW d \in Conns
        PROVE  /\ NoBlank(Queue(d)')
               /\ connState'[d] \in {"IDLE", "READING"} => ~HasLine(recvBuffer'[d])
    BY <2>1, <2>2, <2>4, NothingQueued DEF Framed
  <2> QED BY <2>1, <2>3, <2>4 DEF Framed, Lined, NoBlank, HasLine
<1>7. ASSUME NEW c \in Conns, ClientSends(c)
      PROVE  Framed'
  <2>1. PICK line \in Lines : stream' = [stream EXCEPT ![c] =
                        @ \o (IF line = Empty THEN <<NL>> ELSE <<line, NL>>)]
    BY <1>7 DEF ClientSends
  <2>2. UNCHANGED connVars /\ Live(c)
    BY <1>7 DEF ClientSends
  <2> DEFINE l == IF line = Empty THEN <<NL>> ELSE <<line, NL>>
             q == Queue(c)
             a == recvBuffer[c]
             s == stream[c]
  <2>3. /\ l \in Seq(Words) /\ Lined(q \o l)
        /\ NoBlank(q) /\ line # Empty => NoBlank(q \o l)
    BY <1>t, LineSent DEF Framed
  <2>4. stream'[c] = s \o l /\ \A d \in Conns \ {c} : stream'[d] = stream[d]
    BY <2>1, <1>t
  <2> HIDE DEF l
  <2>5. Queue(c)' = q \o l
    <3>1. a \in Seq(Words) /\ s \in Seq(Words)
      BY <1>t
    <3>2. Queue(c)' = a \o (s \o l) /\ q = a \o s
      BY <2>2, <2>4 DEF Queue, connVars
    <3> HIDE DEF a, s
    <3>3. (a \o s) \o l = a \o (s \o l)
      BY <2>3, <3>1, ConcatAssociative, SMTT(40)
    <3> QED BY <3>2, <3>3
  <2>6. \A d \in Conns \ {c} : Queue(d)' = Queue(d)
    BY <2>2, <2>4 DEF Queue, connVars
  <2>7. connState' = connState /\ recvBuffer' = recvBuffer /\ connState[c] # "ABSENT"
    BY <2>2 DEF connVars, Live
  <2>8. \A d \in Conns : Lined(Queue(d)')
    BY <2>3, <2>5, <2>6 DEF Framed
  <2>9. ASSUME Empty \notin Lines, NEW d \in Conns
        PROVE  NoBlank(Queue(d)')
    BY <2>3, <2>5, <2>6, <2>9 DEF Framed
  <2> HIDE DEF q
  <2> QED BY <2>4, <2>7, <2>8, <2>9 DEF Framed, Lined, NoBlank, HasLine
<1>8. ASSUME NEW c \in Conns, ClientCloses(c)
      PROVE  Framed'
  BY <1>8, FramedFrame DEF ClientCloses, connVars
<1>9. ASSUME NEW d \in Dbs, DirectoryRemoved(d)
      PROVE  Framed'
  BY <1>9, FramedFrame DEF DirectoryRemoved, connVars
<1>10. CASE UNCHANGED vars
  BY <1>10, FramedFrame DEF vars
<1> QED
  BY <1>1, <1>2, <1>3, <1>4, <1>5, <1>6, <1>7, <1>8, <1>9, <1>10 DEF Next, Main, Worker

LEMMA FramingInvariant == Spec => [](ServerInv /\ Framed)
<1>1. Init => Framed
  BY FramedInit
<1>2. ServerInv /\ Framed /\ [Next]_vars => Framed'
  BY FramedStep DEF ServerInv
<1> QED BY <1>1, <1>2, ServerInvariant, PTL DEF Spec

\* Unless a client sends an empty line, a connection that waits for input has no
\* complete line left in its buffer: the main loop forgets none until more arrives.
THEOREM NoLineForgotten ==
    ASSUME Empty \notin Lines
    PROVE  Spec => []BufferHoldsPartialLine
<1>1. Framed => BufferHoldsPartialLine
  BY DEF Framed, BufferHoldsPartialLine
<1> QED BY <1>1, FramingInvariant, PTL

-----------------------------------------------------------------------------
(* The statement a connection has with the worker                          *)

Unfinished == {"lookup", "context", "run"}

\* Outstanding(c), of a given worker and task queue
Held(pc, tk, tq, c) ==
    (IF (pc # "pop" /\ tk.conn = c) /\ pc \in Unfinished THEN <<tk.stmt>> ELSE <<>>)
        \o [n \in 1..Cardinality({i \in DOMAIN tq : tq[i][1] = c}) |->
                tq[CHOOSE j \in {i \in DOMAIN tq : tq[i][1] = c} : TRUE][2]]

LEMMA HeldIsOutstanding ==
    \A c \in Conns : /\ Outstanding(c) = Held(workerPc, task, taskQueue, c)
                     /\ Outstanding(c)' = Held(workerPc', task', taskQueue', c)
BY DEF Outstanding, Held, WithWorker, InQueue, Unfinished

\* of connection c with at most one statement, h is the sequence of them
IsHeld(h, pc, tk, tq, c) ==
    /\ (/\ pc \in Unfinished /\ tk.conn = c /\ tk.stmt \in Statements
        /\ \A j \in 1..Len(tq) : tq[j][1] # c) => h = <<tk.stmt>>
    /\ (~(pc \in Unfinished /\ tk.conn = c) /\ \A j \in 1..Len(tq) : tq[j][1] # c) => h = <<>>
    /\ \A j \in 1..Len(tq) :
          (/\ ~(pc \in Unfinished /\ tk.conn = c)
           /\ tq[j][1] = c /\ \A k \in 1..Len(tq) : tq[k][1] = c => k = j) => h = <<tq[j][2]>>

LEMMA HeldIs ==
    ASSUME NEW pc, NEW tk, NEW tq \in Seq(Conns \X Statements), NEW c \in Conns
    PROVE  IsHeld(Held(pc, tk, tq, c), pc, tk, tq, c)
<1> DEFINE at == {i \in DOMAIN tq : tq[i][1] = c}
           front == IF (pc # "pop" /\ tk.conn = c) /\ pc \in Unfinished THEN <<tk.stmt>> ELSE <<>>
           some == CHOOSE j \in at : TRUE
           back == [i \in 1..Cardinality(at) |-> tq[some][2]]
<1>1. DOMAIN tq = 1..Len(tq) /\ Len(tq) \in Nat /\ \A i \in 1..Len(tq) : tq[i] \in Conns \X Statements
  BY LenProperties, ElementOfSeq
<1>2. Held(pc, tk, tq, c) = front \o back
  BY DEF Held
<1>3. <<>> \in Seq(Statements) /\ (tk.stmt \in Statements => <<tk.stmt>> \in Seq(Statements))
  BY EmptySeq
<1>4. ASSUME \A j \in 1..Len(tq) : tq[j][1] # c
      PROVE  back = <<>>
  <2>1. at = {}
    BY <1>1, <1>4
  <2> HIDE DEF at
  <2>2. Cardinality(at) = 0
    BY <2>1, FS_EmptySet
  <2>3. 1..Cardinality(at) = {}
    BY <2>2
  <2> QED BY <2>3
<1>5. pc \in Unfinished /\ tk.conn = c => front = <<tk.stmt>>
  BY DEF Unfinished
<1>6. ~(pc \in Unfinished /\ tk.conn = c) => front = <<>>
  OBVIOUS
<1> HIDE DEF front, back, some
<1>7. ASSUME pc \in Unfinished, tk.conn = c, tk.stmt \in Statements,
             \A j \in 1..Len(tq) : tq[j][1] # c
      PROVE  Held(pc, tk, tq, c) = <<tk.stmt>>
  <2>1. front \in Seq(Statements) /\ front = <<tk.stmt>> /\ back = <<>>
    BY <1>3, <1>4, <1>5, <1>7
  <2>2. front \o <<>> = front
    BY <2>1, ConcatEmptySeq
  <2> QED BY <1>2, <2>1, <2>2
<1>8. ASSUME ~(pc \in Unfinished /\ tk.conn = c), \A j \in 1..Len(tq) : tq[j][1] # c
      PROVE  Held(pc, tk, tq, c) = <<>>
  <2>1. front = <<>> /\ back = <<>>
    BY <1>4, <1>6, <1>8
  <2> QED BY <1>2, <2>1, NothingQueued
<1>9. ASSUME NEW j \in 1..Len(tq), ~(pc \in Unfinished /\ tk.conn = c),
             tq[j][1] = c, \A k \in 1..Len(tq) : tq[k][1] = c => k = j
      PROVE  Held(pc, tk, tq, c) = <<tq[j][2]>>
  <2>1. at = {j}
    BY <1>1, <1>9
  <2>2. (CHOOSE k \in {j} : TRUE) = j /\ Cardinality({j}) = 1
    BY FS_Singleton
  <2>3. back = [i \in 1..1 |-> tq[j][2]]
    <3>1. Cardinality(at) = 1 /\ some = j
      BY <2>1, <2>2 DEF some
    <3> HIDE DEF at
    <3> QED BY <3>1 DEF back
  <2>4. tq[j][2] \in Statements
    BY <1>1
  <2> DEFINE s == tq[j][2]
  <2> HIDE DEF s
  <2>5. [i \in 1..1 |-> s] = <<s>> /\ <<s>> \in Seq(Statements)
    BY <2>4 DEF s
  <2>6. back \in Seq(Statements) /\ back = <<s>>
    BY <2>3, <2>5 DEF s
  <2>7. <<>> \o back = back
    BY <2>6, ConcatEmptySeq
  <2> QED BY <1>2, <1>6, <1>9, <2>6, <2>7 DEF s
<1> QED BY <1>7, <1>8, <1>9 DEF IsHeld

\* Outstanding(c) is the one statement of c that is queued or not yet finished.
OutstandingOf(c) ==
    /\ Outstanding(c) \in Seq(Statements)
    /\ workerPc \in Unfinished /\ task.conn = c =>
           Outstanding(c) = <<task.stmt>> /\ task.stmt \in Statements
    /\ \A j \in 1..Len(taskQueue) :
           taskQueue[j][1] = c => Outstanding(c) = <<taskQueue[j][2]>>
    /\ connState[c] # "PENDING_RESULT" => Outstanding(c) = <<>>
    /\ task.conn = c /\ workerPc \in {"save", "publish"} => Outstanding(c) = <<>>

LEMMA OutstandingIs ==
    ASSUME TypeOK, OneOutstanding, NEW c \in Conns
    PROVE  OutstandingOf(c)
<1>1. /\ taskQueue \in Seq(Conns \X Statements) /\ DOMAIN taskQueue = 1..Len(taskQueue)
      /\ \A j \in 1..Len(taskQueue) : taskQueue[j] \in Conns \X Statements
  BY LenProperties, ElementOfSeq DEF TypeOK
<1>2. workerPc # "pop" => task \in [conn : Conns, stmt : Statements]
  BY DEF TypeOK
<1>3. WithWorker(c) => \A j \in 1..Len(taskQueue) : taskQueue[j][1] # c
  BY <1>1 DEF OneOutstanding, NotBoth, InQueue
<1>4. connState[c] # "PENDING_RESULT" => ~WithWorker(c) /\ \A j \in 1..Len(taskQueue) : taskQueue[j][1] # c
  BY <1>1 DEF OneOutstanding, PendingIffTasked, InQueue
<1>5. \A j, k \in 1..Len(taskQueue) : taskQueue[j][1] = taskQueue[k][1] => j = k
  BY <1>1 DEF OneOutstanding, QueuedOnce
<1>6. WithWorker(c) <=> (workerPc # "pop" /\ task.conn = c)
  BY DEF WithWorker
<1>h. IsHeld(Outstanding(c), workerPc, task, taskQueue, c)
  BY <1>1, HeldIs, HeldIsOutstanding
<1>7. workerPc \in Unfinished /\ task.conn = c =>
         Outstanding(c) = <<task.stmt>> /\ task.stmt \in Statements
  <2> SUFFICES ASSUME workerPc \in Unfinished, task.conn = c
               PROVE  Outstanding(c) = <<task.stmt>> /\ task.stmt \in Statements
    OBVIOUS
  <2>1. WithWorker(c) /\ task.stmt \in Statements
    BY <1>2, <1>6 DEF Unfinished
  <2>2. \A j \in 1..Len(taskQueue) : taskQueue[j][1] # c
    BY <1>3, <2>1
  <2> QED BY <1>h, <2>1, <2>2 DEF IsHeld
<1>8. ASSUME NEW j \in 1..Len(taskQueue), taskQueue[j][1] = c
      PROVE  Outstanding(c) = <<taskQueue[j][2]>>
  <2>1. ~(workerPc \in Unfinished /\ task.conn = c)
    BY <1>3, <1>6, <1>8 DEF Unfinished
  <2>2. \A k \in 1..Len(taskQueue) : taskQueue[k][1] = c => k = j
    BY <1>5, <1>8
  <2> QED BY <1>h, <1>8, <2>1, <2>2 DEF IsHeld
<1>9. ~(workerPc \in Unfinished /\ task.conn = c) /\ (\A j \in 1..Len(taskQueue) : taskQueue[j][1] # c)
         => Outstanding(c) = <<>>
  BY <1>h DEF IsHeld
<1>10. connState[c] # "PENDING_RESULT" => Outstanding(c) = <<>>
  BY <1>4, <1>6, <1>9 DEF Unfinished
<1>11. task.conn = c /\ workerPc \in {"save", "publish"} => Outstanding(c) = <<>>
  BY <1>3, <1>6, <1>9 DEF Unfinished
<1>12. Outstanding(c) \in Seq(Statements)
  <2>1. \A s \in Statements : <<s>> \in Seq(Statements)
    OBVIOUS
  <2>2. <<>> \in Seq(Statements)
    BY EmptySeq
  <2>3. \A j \in 1..Len(taskQueue) : taskQueue[j][2] \in Statements
    BY <1>1
  <2> QED BY <1>7, <1>8, <1>9, <2>1, <2>2, <2>3
<1> QED BY <1>7, <1>8, <1>10, <1>11, <1>12 DEF OutstandingOf

LEMMA OutstandingNow == TypeOK /\ OneOutstanding => \A c \in Conns : OutstandingOf(c)
BY OutstandingIs

LEMMA OutstandingNext == (TypeOK /\ OneOutstanding => \A c \in Conns : OutstandingOf(c))'
BY OutstandingNow, PTL

-----------------------------------------------------------------------------
(* Every session is the one SqlSessions describes                          *)

\* while a statement runs, the database manager is in its session's database, and
\* a table is always in a directory that exists
Context ==
    /\ workerPc = "run" => currentDb = InForce(sessionDb[task.conn])
    /\ \A p \in tables : p[1] \in databases

SessionInv == ServerInv /\ Framed /\ Context

LEMMA ContextStep ==
    ASSUME SessionInv, [Next]_vars
    PROVE  Context'
<1>1. TypeOK /\ Scheduling /\ OneOutstanding /\ Framed /\ Context
  BY DEF SessionInv, ServerInv
<1>2. CASE SetContext
  <2>1. workerPc' = "run" => currentDb' = InForce(sessionDb[task.conn])
    BY <1>2 DEF SetContext, ClearCurrentDb, InForce
  <2> QED BY <1>1, <1>2, <2>1 DEF SetContext, Context, connVars
<1>3. CASE Run
  <2>1. workerPc' = "save"
    BY <1>3 DEF Run
  <2>2. \A p \in tables' : p[1] \in databases'
    <3>1. ASSUME NEW d, RunUse(d) \/ RunCreateDatabase(d)
          PROVE  \A p \in tables' : p[1] \in databases'
      BY <1>1, <3>1 DEF RunUse, RunCreateDatabase, Context
    <3>2. ASSUME NEW t, RunCreateTable(t)
          PROVE  \A p \in tables' : p[1] \in databases'
      <4>1. CASE UNCHANGED <<databases, tables>>
        BY <1>1, <4>1 DEF Context
      <4>2. CASE /\ tables' = tables \union {<<currentDb, t>>}
                 /\ databases' = databases \union {currentDb}
        BY <1>1, <4>2 DEF Context
      <4> QED BY <3>2, <4>1, <4>2 DEF RunCreateTable
    <3> QED BY <1>1, <1>3, <3>1, <3>2 DEF Run, Context, fileVars
  <2> QED BY <2>1, <2>2 DEF Context
<1>4. CASE Pop \/ Lookup \/ Save \/ Publish
  BY <1>1, <1>4 DEF Pop, Lookup, Save, Publish, Context, fileVars
<1>5. CASE Accept
  <2>1. nextId \in Conns /\ connState[nextId] = "ABSENT"
    BY <1>1, <1>5, ServerAssumption DEF Accept, Scheduling, Conns, TypeOK
  <2>2. workerPc = "run" => task.conn \in Conns /\ connState[task.conn] = "PENDING_RESULT"
    BY <1>1 DEF TypeOK, OneOutstanding, PendingIffTasked, WithWorker
  <2>3. sessionDb' = [sessionDb EXCEPT ![nextId] = None] /\ UNCHANGED <<fileVars, workerVars>>
    BY <1>5 DEF Accept
  <2>4. workerPc = "run" => sessionDb'[task.conn] = sessionDb[task.conn]
    BY <1>1, <2>1, <2>2, <2>3 DEF TypeOK
  <2> QED BY <1>1, <2>3, <2>4 DEF Context, fileVars, workerVars
<1>6. CASE BuildSets \/ SelectAny \/ EndPass
  BY <1>1, <1>6 DEF BuildSets, SelectAny, Select, EndPass, Context, fileVars, connVars, workerVars
<1>7. ASSUME NEW c \in Conns, Visit(c)
      PROVE  Context'
  <2>1. UNCHANGED <<fileVars, sessionDb>>
    BY <1>1, <1>7, VisitEffect DEF Framed
  <2>2. workerPc' = workerPc /\ task' = task
    BY <1>1, <1>7, VisitFrame
  <2> QED BY <1>1, <2>1, <2>2 DEF Context, fileVars
<1>8. ASSUME NEW c \in Conns, ClientSends(c) \/ ClientCloses(c)
      PROVE  Context'
  BY <1>1, <1>8 DEF ClientSends, ClientCloses, Context, fileVars, connVars, workerVars
<1>9. ASSUME NEW d \in Dbs, DirectoryRemoved(d)
      PROVE  Context'
  BY <1>1, <1>9 DEF DirectoryRemoved, Context, connVars, workerVars
<1>10. CASE UNCHANGED vars
  BY <1>1, <1>10 DEF vars, Context
<1> QED
  BY <1>2, <1>3, <1>4, <1>5, <1>6, <1>7, <1>8, <1>9, <1>10 DEF Next, Main, Worker

LEMMA SessionInvariant == Spec => []SessionInv
<1>1. Init => Context
  BY DEF Init, Context
<1>2. SessionInv /\ [Next]_vars => Context'
  BY ContextStep
<1>3. SessionInv <=> (ServerInv /\ Framed) /\ Context
  BY DEF SessionInv
<1> QED BY <1>1, <1>2, <1>3, FramingInvariant, PTL DEF Spec

LEMMA SessionsStep ==
    [Sessions!Next]_(Sessions!vars) <=>
        \/ Sessions!Next
        \/ UNCHANGED <<databases, tables, SessionMap, PendingMap, OpenSet>>
BY DEF Sessions!vars, OpenSet, SessionMap, PendingMap

\* a step in which no connection is opened or closed
LEMMA SameConnections ==
    ASSUME \A c \in Conns : Live(c)' <=> Live(c)
    PROVE  /\ OpenSet' = OpenSet
           /\ (\A c \in Conns : Live(c) =>
                 (Outstanding(c) \o Sent(Queue(c)))' = Outstanding(c) \o Sent(Queue(c)))
              => PendingMap' = PendingMap
<1>1. OpenSet' = OpenSet
  BY DEF OpenSet
<1>2. PendingMap' = [c \in Conns |-> IF Live(c)' THEN (Outstanding(c) \o Sent(Queue(c)))' ELSE <<>>]
  BY DEF PendingMap, Queue
<1>3. PendingMap = [c \in Conns |-> IF Live(c) THEN Outstanding(c) \o Sent(Queue(c)) ELSE <<>>]
  BY DEF PendingMap, Queue
<1> HIDE DEF PendingMap
<1> QED BY <1>1, <1>2, <1>3

LEMMA FirstOfPending ==
    ASSUME NEW s \in Statements, NEW q \in Seq(Statements)
    PROVE  /\ <<s>> \o q # <<>> /\ Head(<<s>> \o q) = s /\ Tail(<<s>> \o q) = q
           /\ <<>> \o q = q
<1> DEFINE x == <<s>>
           r == x \o q
<1>1. x \in Seq(Statements) /\ Len(x) = 1 /\ x[1] = s
  OBVIOUS
<1> HIDE DEF x
<1>2. /\ r \in Seq(Statements) /\ Len(r) = 1 + Len(q) /\ Len(q) \in Nat
      /\ \A i \in 1..(1 + Len(q)) : r[i] = IF i <= 1 THEN x[i] ELSE q[i - 1]
  <2>1. /\ x \o q \in Seq(Statements) /\ Len(x \o q) = Len(x) + Len(q)
        /\ \A i \in 1..(Len(x) + Len(q)) : (x \o q)[i] = IF i <= Len(x) THEN x[i] ELSE q[i - Len(x)]
    BY <1>1, ConcatProperties
  <2> QED BY <1>1, <2>1, LenProperties
<1> HIDE DEF r
<1>3. r # <<>>
  BY <1>2, EmptySeq
<1>4. Head(r) = s
  <2>1. Head(r) = r[1]
    BY <1>2, <1>3
  <2>2. r[1] = x[1]
    BY <1>2
  <2> QED BY <1>1, <2>1, <2>2
<1>5. /\ Tail(r) \in Seq(Statements) /\ Len(Tail(r)) = Len(r) - 1
      /\ \A i \in 1..Len(Tail(r)) : Tail(r)[i] = r[i + 1]
  BY <1>2, <1>3, HeadTailProperties
<1>6. Tail(r) = q
  <2>1. Len(Tail(r)) = Len(q)
    BY <1>2, <1>5
  <2>2. \A i \in 1..Len(q) : Tail(r)[i] = q[i]
    BY <1>2, <1>5, <2>1
  <2> QED BY <1>5, <2>1, <2>2, SeqEqual
<1>7. <<>> \o q = q
  BY ConcatEmptySeq
<1> QED BY <1>3, <1>4, <1>6, <1>7 DEF r, x

Busy(c) == workerPc \in Unfinished /\ task.conn = c

LEMMA OutstandingSame ==
    ASSUME taskQueue' = taskQueue, NEW c \in Conns,
           Busy(c)' <=> Busy(c), Busy(c) => task'.stmt = task.stmt
    PROVE  Outstanding(c)' = Outstanding(c)
<1>1. Busy(c) <=> WithWorker(c) /\ workerPc \in {"lookup", "context", "run"}
  BY DEF Busy, WithWorker, Unfinished
<1>2. Busy(c)' <=> WithWorker(c)' /\ workerPc' \in {"lookup", "context", "run"}
  BY DEF Busy, WithWorker, Unfinished
<1>3. InQueue(c)' = InQueue(c)
  BY DEF InQueue
<1> DEFINE front == IF WithWorker(c) /\ workerPc \in {"lookup", "context", "run"}
                    THEN <<task.stmt>> ELSE <<>>
           back == [i \in 1..Cardinality(InQueue(c)) |-> taskQueue[CHOOSE j \in InQueue(c) : TRUE][2]]
<1>4. front' = front
  BY <1>1, <1>2
<1>5. back' = back
  BY <1>3
<1>6. Outstanding(c) = front \o back /\ Outstanding(c)' = front' \o back'
  BY DEF Outstanding
<1> HIDE DEF front, back
<1> QED BY <1>4, <1>5, <1>6

\* nothing that SqlSessions describes changes
LEMMA Unnoticed ==
    ASSUME UNCHANGED <<databases, tables, sessionDb, recvBuffer, stream>>,
           \A c \in Conns : Live(c)' <=> Live(c),
           \A c \in Conns : Outstanding(c)' = Outstanding(c),
           SessionMap' = SessionMap
    PROVE  [Sessions!Next]_(Sessions!vars)
<1>1. \A c \in Conns : (Outstanding(c) \o Sent(Queue(c)))' = Outstanding(c) \o Sent(Queue(c))
  BY DEF Queue
<1>2. OpenSet' = OpenSet /\ PendingMap' = PendingMap
  BY <1>1, SameConnections
<1> QED BY <1>2, SessionsStep

LEMMA PopIsStutter ==
    ASSUME SessionInv, SessionInv', Pop
    PROVE  [Sessions!Next]_(Sessions!vars)
<1>1. /\ TypeOK /\ OneOutstanding
      /\ \A c \in Conns : OutstandingOf(c)
      /\ \A c \in Conns : OutstandingOf(c)'
  BY OutstandingNow, OutstandingNext DEF SessionInv, ServerInv
<1>2. /\ workerPc = "pop" /\ workerPc' = "lookup" /\ taskQueue # <<>> /\ taskQueue' = Tail(taskQueue)
      /\ task' = [conn |-> Head(taskQueue)[1], stmt |-> Head(taskQueue)[2]]
      /\ UNCHANGED <<fileVars, connVars, peerVars>>
  BY DEF Pop
<1>3. /\ taskQueue \in Seq(Conns \X Statements) /\ DOMAIN taskQueue = 1..Len(taskQueue)
      /\ Len(taskQueue) \in Nat \ {0} /\ Head(taskQueue) = taskQueue[1]
      /\ Len(taskQueue') = Len(taskQueue) - 1
      /\ \A i \in 1..(Len(taskQueue) - 1) : taskQueue'[i] = taskQueue[i + 1]
  BY <1>1, <1>2, LenProperties, EmptySeq, HeadTailProperties DEF TypeOK
<1>4. ASSUME NEW c \in Conns
      PROVE  Outstanding(c)' = Outstanding(c)
  <2>1. CASE c = taskQueue[1][1]
    <3>1. 1 \in 1..Len(taskQueue)
      BY <1>3
    <3>2. Outstanding(c) = <<taskQueue[1][2]>>
      BY <1>1, <2>1, <3>1 DEF OutstandingOf
    <3>3. workerPc' \in Unfinished /\ task'.conn = c /\ task'.stmt = taskQueue[1][2]
      BY <1>2, <1>3, <2>1 DEF Unfinished
    <3>4. Outstanding(c)' = <<task'.stmt>>
      BY <1>1, <3>3 DEF OutstandingOf
    <3> QED BY <3>2, <3>3, <3>4
  <2>2. CASE c # taskQueue[1][1] /\ connState[c] = "PENDING_RESULT"
    <3>1. ~WithWorker(c)
      BY <1>2 DEF WithWorker
    <3>2. PICK j \in 1..Len(taskQueue) : taskQueue[j][1] = c
      BY <1>1, <1>3, <2>2, <3>1 DEF OneOutstanding, PendingIffTasked, InQueue
    <3>3. j - 1 \in 1..(Len(taskQueue) - 1) /\ (j - 1) + 1 = j
      BY <1>3, <2>2, <3>2
    <3>4. taskQueue'[j - 1] = taskQueue[j] /\ j - 1 \in 1..Len(taskQueue')
      BY <1>3, <3>3
    <3>5. Outstanding(c) = <<taskQueue[j][2]>>
      BY <1>1, <3>2 DEF OutstandingOf
    <3>6. Outstanding(c)' = <<taskQueue'[j - 1][2]>>
      BY <1>1, <3>2, <3>4 DEF OutstandingOf
    <3> QED BY <3>4, <3>5, <3>6
  <2>3. CASE connState[c] # "PENDING_RESULT"
    <3>1. connState'[c] # "PENDING_RESULT"
      BY <1>2, <2>3 DEF connVars
    <3> QED BY <1>1, <2>3, <3>1 DEF OutstandingOf
  <2> QED BY <2>1, <2>2, <2>3
<1>5. SessionMap' = SessionMap
  BY <1>2 DEF SessionMap, connVars
<1> QED BY <1>2, <1>4, <1>5, Unnoticed DEF fileVars, connVars, peerVars, Live

\* the worker ends with a statement: it is executed or refused
LEMMA StatementEnds ==
    ASSUME SessionInv, SessionInv', workerPc \in {"context", "run"}, workerPc' \in {"save", "publish"},
           UNCHANGED <<task, taskQueue, connState, recvBuffer, stream>>
    PROVE  /\ task.conn \in Conns /\ task.conn \in OpenSet /\ task.stmt \in Statements
           /\ PendingMap[task.conn] # <<>> /\ Head(PendingMap[task.conn]) = task.stmt
           /\ PendingMap' = [PendingMap EXCEPT ![task.conn] = Tail(@)]
           /\ OpenSet' = OpenSet
<1>1. /\ TypeOK /\ OneOutstanding
      /\ \A d \in Conns : OutstandingOf(d)
      /\ \A d \in Conns : OutstandingOf(d)'
  BY OutstandingNow, OutstandingNext DEF SessionInv, ServerInv
<1>c. PICK c \in Conns : c = task.conn
  BY <1>1 DEF TypeOK
<1>2. c \in Conns /\ task.stmt \in Statements /\ WithWorker(c)
  BY <1>1, <1>c DEF TypeOK, WithWorker
<1>3. connState[c] = "PENDING_RESULT" /\ Live(c)
  BY <1>1, <1>2 DEF OneOutstanding, PendingIffTasked, Live
<1>4. Outstanding(c) = <<task.stmt>>
  BY <1>1, <1>c, <1>2 DEF OutstandingOf, Unfinished
<1>5. Outstanding(c)' = <<>>
  BY <1>1, <1>c, <1>2 DEF OutstandingOf
<1>6. ASSUME NEW d \in Conns, d # c
      PROVE  Outstanding(d)' = Outstanding(d)
  BY <1>c, <1>6, OutstandingSame DEF Busy
<1>7. \A d \in Conns : Queue(d) \in Seq(Words) /\ Queue(d)' = Queue(d) /\ (Live(d)' <=> Live(d))
  BY <1>1, ConcatProperties DEF TypeOK, Queue, Live
<1>8. Sent(Queue(c)) \in Seq(Statements)
  BY <1>2, <1>7, SentType
<1>9. PendingMap = [d \in Conns |-> IF Live(d) THEN Outstanding(d) \o Sent(Queue(d)) ELSE <<>>]
  BY DEF PendingMap, Queue
<1>10. PendingMap' = [d \in Conns |-> IF Live(d) THEN Outstanding(d)' \o Sent(Queue(d)) ELSE <<>>]
  BY <1>7 DEF PendingMap, Queue
<1> HIDE DEF PendingMap
<1>11. PendingMap[c] = <<task.stmt>> \o Sent(Queue(c))
  BY <1>2, <1>3, <1>4, <1>9
<1>12. PendingMap'[c] = Sent(Queue(c))
  <2>1. PendingMap'[c] = <<>> \o Sent(Queue(c))
    BY <1>2, <1>3, <1>5, <1>10
  <2> QED BY <1>8, <2>1, ConcatEmptySeq
<1>13. \A d \in Conns : d # c => PendingMap'[d] = PendingMap[d]
  BY <1>6, <1>9, <1>10
<1>14. Tail(PendingMap[c]) = PendingMap'[c] /\ PendingMap[c] # <<>> /\ Head(PendingMap[c]) = task.stmt
  BY <1>2, <1>8, <1>11, <1>12, FirstOfPending
<1>15. PendingMap' = [PendingMap EXCEPT ![c] = PendingMap'[c]]
  <2> DEFINE P == PendingMap
             R == PendingMap'
  <2>1. P = [d \in Conns |-> P[d]] /\ R = [d \in Conns |-> R[d]]
    BY <1>9, <1>10
  <2>2. \A d \in Conns : d # c => R[d] = P[d]
    BY <1>13
  <2> HIDE DEF P, R
  <2>3. R = [P EXCEPT ![c] = R[c]]
    BY <1>2, <2>1, <2>2
  <2> QED BY <2>3 DEF P, R
<1>16. OpenSet' = OpenSet /\ c \in OpenSet
  BY <1>2, <1>3, <1>7 DEF OpenSet
<1> QED BY <1>c, <1>2, <1>14, <1>15, <1>16

LEMMA RunIsExecute ==
    ASSUME SessionInv, SessionInv', Run
    PROVE  Sessions!Next
<1>1. TypeOK /\ Context
  BY DEF SessionInv, ServerInv
<1>2. /\ workerPc = "run" /\ workerPc' = "save" /\ UNCHANGED <<connVars, taskQueue, task, peerVars>>
  BY DEF Run
<1>3. /\ task.conn \in OpenSet /\ task.stmt \in Statements
      /\ PendingMap[task.conn] # <<>> /\ Head(PendingMap[task.conn]) = task.stmt
      /\ PendingMap' = [PendingMap EXCEPT ![task.conn] = Tail(@)]
      /\ OpenSet' = OpenSet
  BY <1>2, StatementEnds DEF connVars, peerVars
<1>c. PICK c \in Conns : c = task.conn
  BY <1>1, <1>2 DEF TypeOK
<1>4. /\ SessionMap = [d \in Conns |-> InForce(sessionDb[d])]
      /\ SessionMap[c] = currentDb /\ InForce(currentDb) = currentDb
  <2>1. SessionMap = [d \in Conns |-> InForce(sessionDb[d])]
    BY <1>2 DEF SessionMap
  <2>2. currentDb = InForce(sessionDb[c])
    BY <1>1, <1>c, <1>2 DEF Context
  <2> QED BY <1>c, <2>1, <2>2 DEF InForce
<1>5. SessionMap' = [SessionMap EXCEPT ![c] = InForce(currentDb')]
  <2>1. SessionMap' = [d \in Conns |-> InForce(IF d = c THEN currentDb' ELSE sessionDb[d])]
    BY <1>c, <1>2 DEF SessionMap, connVars
  <2>2. \A d \in Conns : InForce(IF d = c THEN currentDb' ELSE sessionDb[d])
                           = IF d = c THEN InForce(currentDb') ELSE InForce(sessionDb[d])
    BY DEF InForce
  <2> HIDE DEF SessionMap
  <2> QED BY <1>4, <2>1, <2>2
<1>6. currentDb' = currentDb => SessionMap' = SessionMap
  <2> HIDE DEF SessionMap
  <2> QED BY <1>4, <1>5
<1>s. PICK s \in Statements : s = task.stmt
  BY <1>3
<1>7. \/ s.op = "use" /\ Sessions!Use(c, s.arg)
      \/ s.op = "create database" /\ Sessions!CreateDatabase(s.arg)
      \/ s.op = "create table" /\ Sessions!CreateTable(c, s.arg)
      \/ s.op = "other" /\ Sessions!NoEffect
  <2>1. CASE s.op = "use" /\ RunUse(s.arg)
    <3>1. currentDb' = (IF s.arg \in databases THEN s.arg ELSE currentDb)
          /\ UNCHANGED <<databases, tables>>
      BY <1>s, <2>1 DEF RunUse
    <3>2. SessionMap' = IF s.arg \in databases THEN [SessionMap EXCEPT ![c] = InForce(s.arg)]
                                               ELSE SessionMap
      BY <1>5, <1>6, <3>1
    <3>3. InForce(s.arg) = Sessions!Selected(s.arg)
      BY DEF InForce, Sessions!Selected
    <3>4. Sessions!Use(c, s.arg) <=>
             /\ SessionMap' = IF s.arg \in databases
                              THEN [SessionMap EXCEPT ![c] = Sessions!Selected(s.arg)]
                              ELSE SessionMap
             /\ UNCHANGED <<databases, tables>>
      BY DEF Sessions!Use, SessionMap
    <3>5. Sessions!Use(c, s.arg)
      BY <3>1, <3>2, <3>3, <3>4
    <3> QED BY <2>1, <3>5
  <2>2. CASE s.op = "create database" /\ RunCreateDatabase(s.arg)
    <3>1. databases' = databases \union {s.arg} /\ UNCHANGED <<tables, currentDb>>
      BY <2>2 DEF RunCreateDatabase
    <3>2. SessionMap' = SessionMap
      BY <1>6, <3>1
    <3>3. Sessions!CreateDatabase(s.arg)
      BY <3>1, <3>2 DEF Sessions!CreateDatabase, SessionMap
    <3> QED BY <2>2, <3>3
  <2>3. CASE s.op = "create table" /\ RunCreateTable(s.arg)
    <3> DEFINE t == s.arg
    <3>1. /\ IF currentDb = NoDb \/ <<currentDb, t>> \in tables
             THEN UNCHANGED <<databases, tables>>
             ELSE /\ tables' = tables \union {<<currentDb, t>>}
                  /\ databases' = databases \union {currentDb}
          /\ UNCHANGED currentDb
      BY <2>3 DEF RunCreateTable
    <3>2. SessionMap' = SessionMap /\ SessionMap[c] = currentDb
      BY <1>4, <1>6, <3>1
    <3>3. <<currentDb, t>> \in tables =>
             tables = tables \union {<<currentDb, t>>} /\ databases = databases \union {currentDb}
      BY <1>1 DEF Context
    <3> HIDE DEF t
    <3>4. IF SessionMap[c] = NoDb
          THEN UNCHANGED <<databases, tables>>
          ELSE /\ tables' = tables \union {<<SessionMap[c], t>>}
               /\ databases' = databases \union {SessionMap[c]}
      BY <3>1, <3>2, <3>3
    <3>5. Sessions!CreateTable(c, t)
      BY <3>2, <3>4 DEF Sessions!CreateTable, SessionMap
    <3> QED BY <2>3, <3>5 DEF t
  <2>4. CASE s.op = "other" /\ UNCHANGED fileVars
    <3>1. SessionMap' = SessionMap /\ UNCHANGED <<databases, tables>>
      BY <1>6, <2>4 DEF fileVars
    <3>2. Sessions!NoEffect
      BY <3>1 DEF Sessions!NoEffect, SessionMap
    <3> QED BY <2>4, <3>2
  <2>5. \/ s.op = "use" /\ RunUse(s.arg)
        \/ s.op = "create database" /\ RunCreateDatabase(s.arg)
        \/ s.op = "create table" /\ RunCreateTable(s.arg)
        \/ s.op = "other" /\ UNCHANGED fileVars
    BY <1>s DEF Run, RunUse, RunCreateDatabase, RunCreateTable
  <2> QED BY <2>1, <2>2, <2>3, <2>4, <2>5
<1>8. ASSUME c \in OpenSet, PendingMap[c] # <<>>, Head(PendingMap[c]) = s,
             PendingMap' = [PendingMap EXCEPT ![c] = Tail(@)], OpenSet' = OpenSet
      PROVE  Sessions!Execute(c)
  BY <1>7, <1>8 DEF Sessions!Execute, Sessions!Use, Sessions!CreateDatabase, Sessions!CreateTable,
                    Sessions!NoEffect, OpenSet, PendingMap
<1>9. Sessions!Execute(c)
  BY <1>c, <1>s, <1>3, <1>8
<1> QED BY <1>9 DEF Sessions!Next

LEMMA SetContextIsRefuse ==
    ASSUME SessionInv, SessionInv', SetContext
    PROVE  [Sessions!Next]_(Sessions!vars)
<1>1. TypeOK /\ OneOutstanding
  BY DEF SessionInv, ServerInv
<1>2. /\ workerPc = "context" /\ UNCHANGED <<databases, tables, connVars, taskQueue, task, peerVars>>
      /\ workerPc' \in {"run", "publish"}
  BY DEF SetContext
<1>3. SessionMap' = SessionMap /\ \A c \in Conns : SessionMap[c] = InForce(sessionDb[c])
  BY <1>1, <1>2 DEF SessionMap, connVars, TypeOK
<1>4. CASE workerPc' = "run"
  <2>1. \A c \in Conns : Outstanding(c)' = Outstanding(c)
    BY <1>2, <1>4, OutstandingSame DEF Busy, Unfinished
  <2>2. UNCHANGED <<databases, tables, sessionDb, recvBuffer, stream>>
        /\ \A c \in Conns : Live(c)' <=> Live(c)
    BY <1>2 DEF connVars, peerVars, Live
  <2> QED BY <1>3, <2>1, <2>2, Unnoticed
<1>5. CASE workerPc' = "publish"
  <2>c. PICK c \in Conns : c = task.conn
    BY <1>1, <1>2 DEF TypeOK
  <2>1. sessionDb[c] \notin databases \union {None}
    BY <1>5, <2>c DEF SetContext
  <2>2. /\ c \in OpenSet /\ PendingMap[c] # <<>>
        /\ PendingMap' = [PendingMap EXCEPT ![c] = Tail(@)]
        /\ OpenSet' = OpenSet
    BY <1>2, <1>5, <2>c, StatementEnds DEF connVars, peerVars
  <2>3. Sessions!Refuse(c) <=>
          /\ c \in OpenSet
          /\ PendingMap[c] # <<>>
          /\ SessionMap[c] \notin databases \union {NoDb}
          /\ PendingMap' = [PendingMap EXCEPT ![c] = Tail(@)]
          /\ UNCHANGED <<databases, tables, SessionMap, OpenSet>>
    BY DEF Sessions!Refuse, OpenSet, PendingMap, SessionMap
  <2>5. SessionMap[c] = sessionDb[c] /\ sessionDb[c] # NoDb
    BY <1>1, <1>3, <2>c, <2>1, ServerAssumption DEF InForce, TypeOK
  <2>4. Sessions!Refuse(c)
    BY <1>2, <1>3, <2>1, <2>2, <2>3, <2>5
  <2> QED BY <2>4 DEF Sessions!Next
<1> QED BY <1>2, <1>4, <1>5

LEMMA WorkerStutters ==
    ASSUME SessionInv, SessionInv', Lookup \/ Save \/ Publish
    PROVE  [Sessions!Next]_(Sessions!vars)
<1>1. TypeOK /\ OneOutstanding
  BY DEF SessionInv, ServerInv
<1>2. /\ workerPc # "pop" /\ workerPc \in {"lookup", "save", "publish"}
      /\ UNCHANGED <<databases, tables, recvBuffer, taskQueue, stream>>
  BY DEF Lookup, Save, Publish, fileVars, connVars, peerVars
<1>c. PICK c \in Conns : c = task.conn
  BY <1>1, <1>2 DEF TypeOK
<1>3. WithWorker(c) /\ connState[c] = "PENDING_RESULT"
  BY <1>1, <1>2, <1>c DEF WithWorker, OneOutstanding, PendingIffTasked
<1>4. \A d \in Conns : Live(d)' <=> Live(d)
  <2>1. \A d \in Conns : connState'[d] = connState[d] \/ (d = c /\ connState'[d] = "WRITING")
    BY <1>1, <1>c, <1>3 DEF Lookup, Save, Publish, connVars, TypeOK
  <2> QED BY <1>3, <2>1 DEF Live
<1>5. \A d \in Conns : (Busy(d)' <=> Busy(d)) /\ (Busy(d) => task' = task)
  BY <1>c, <1>3 DEF Busy, Unfinished, Lookup, Save, Publish, connVars
<1>6. \A d \in Conns : Outstanding(d)' = Outstanding(d)
  BY <1>2, <1>5, OutstandingSame
<1>7. CASE Save
  <2>1. SessionMap = [d \in Conns |-> InForce(IF d = c THEN currentDb ELSE sessionDb[d])]
    BY <1>c, <1>7 DEF Save, SessionMap
  <2>2. /\ workerPc' = "publish"
        /\ sessionDb' = [sessionDb EXCEPT ![c] = IF currentDb = NoDb THEN None ELSE currentDb]
    BY <1>c, <1>7 DEF Save
  <2>3. SessionMap' = [d \in Conns |-> InForce(sessionDb'[d])]
    BY <2>2 DEF SessionMap
  <2>5. \A d \in Conns : InForce(sessionDb'[d]) = InForce(IF d = c THEN currentDb ELSE sessionDb[d])
    BY <1>1, <2>2 DEF TypeOK, InForce
  <2>4. SessionMap' = SessionMap
    <3> HIDE DEF SessionMap
    <3> QED BY <2>1, <2>3, <2>5
  <2>6. \A d \in Conns : (Outstanding(d) \o Sent(Queue(d)))' = Outstanding(d) \o Sent(Queue(d))
    BY <1>2, <1>6 DEF Queue
  <2>7. OpenSet' = OpenSet /\ PendingMap' = PendingMap
    BY <1>4, <2>6, SameConnections
  <2> QED BY <1>2, <2>4, <2>7, SessionsStep
<1>8. CASE Lookup \/ Publish
  <2>1. workerPc # "save" /\ workerPc' # "save" /\ sessionDb' = sessionDb
    BY <1>8 DEF Lookup, Publish, connVars
  <2>2. SessionMap' = SessionMap
    BY <2>1 DEF SessionMap
  <2> QED BY <1>2, <1>4, <1>6, <2>1, <2>2, Unnoticed
<1> QED BY <1>7, <1>8

\* a connection is opened with an empty buffer
LEMMA AcceptIsOpen ==
    ASSUME SessionInv, SessionInv', Accept
    PROVE  Sessions!Next
<1>1. /\ TypeOK /\ Scheduling /\ OneOutstanding /\ Framed
      /\ \A c \in Conns : OutstandingOf(c)'
  BY OutstandingNext DEF SessionInv, ServerInv
<1>2. /\ connState' = [connState EXCEPT ![nextId] = "IDLE"]
      /\ sessionDb' = [sessionDb EXCEPT ![nextId] = None]
      /\ UNCHANGED <<fileVars, recvBuffer, taskQueue, workerVars, peerVars>>
  BY DEF Accept
<1>c. PICK c \in Conns : c = nextId /\ connState[c] = "ABSENT"
  BY <1>1, ServerAssumption DEF Accept, Scheduling, Conns, TypeOK
<1>3. ~Live(c) /\ Live(c)' /\ connState'[c] = "IDLE"
  BY <1>1, <1>2, <1>c DEF Live, TypeOK
<1>4. \A d \in Conns : d # c => (Live(d)' <=> Live(d))
  BY <1>1, <1>2, <1>c DEF Live, TypeOK
<1>5. \A d \in Conns : Outstanding(d)' = Outstanding(d)
  BY <1>2, OutstandingSame DEF Busy, workerVars
<1>6. Outstanding(c)' = <<>> /\ Queue(c)' = <<>>
  BY <1>1, <1>2, <1>3, <1>c, NothingQueued DEF OutstandingOf, Framed, Queue, peerVars
<1>7. Sent(<<>>) = <<>>
  <2>1. <<>> \in Seq(Words) /\ Len(<<>>) = 0 /\ 1..0 = {}
    BY EmptySeq
  <2> QED BY <2>1, SentNone
<1>8. PendingMap' = PendingMap
  <2>1. \A d \in Conns : Queue(d)' = Queue(d)
    BY <1>2 DEF Queue, peerVars
  <2>2. PendingMap = [d \in Conns |-> IF Live(d) THEN Outstanding(d) \o Sent(Queue(d)) ELSE <<>>]
    BY DEF PendingMap, Queue
  <2>3. PendingMap' = [d \in Conns |-> IF Live(d)' THEN Outstanding(d)' \o Sent(Queue(d)') ELSE <<>>]
    BY DEF PendingMap, Queue
  <2>4. Outstanding(c)' \o Sent(Queue(c)') = <<>>
    BY <1>6, <1>7, NothingQueued
  <2>5. \A d \in Conns : (IF Live(d)' THEN Outstanding(d)' \o Sent(Queue(d)') ELSE <<>>)
                           = (IF Live(d) THEN Outstanding(d) \o Sent(Queue(d)) ELSE <<>>)
    BY <1>3, <1>4, <1>5, <2>1, <2>4
  <2> HIDE DEF PendingMap
  <2> QED BY <2>2, <2>3, <2>5
<1>9. OpenSet' = OpenSet \union {c} /\ c \notin OpenSet
  BY <1>3, <1>4 DEF OpenSet
<1>10. SessionMap' = [SessionMap EXCEPT ![c] = NoDb]
  <2>1. workerPc = "save" => task.conn # c
    BY <1>1, <1>c DEF OneOutstanding, PendingIffTasked, WithWorker
  <2>2. SessionMap' = [d \in Conns |-> InForce(IF workerPc = "save" /\ task.conn = d
                                             THEN currentDb ELSE sessionDb'[d])]
    BY <1>2 DEF SessionMap, workerVars, fileVars
  <2>3. \A d \in Conns : sessionDb'[d] = IF d = c THEN None ELSE sessionDb[d]
    BY <1>1, <1>2, <1>c DEF TypeOK
  <2>4. SessionMap = [d \in Conns |-> InForce(IF workerPc = "save" /\ task.conn = d
                                            THEN currentDb ELSE sessionDb[d])]
    BY DEF SessionMap
  <2>5. InForce(None) = NoDb
    BY DEF InForce
  <2> HIDE DEF SessionMap
  <2> QED BY <2>1, <2>2, <2>3, <2>4, <2>5
<1>11. Sessions!Open(c) <=> /\ c \notin OpenSet
                            /\ OpenSet' = OpenSet \union {c}
                            /\ SessionMap' = [SessionMap EXCEPT ![c] = NoDb]
                            /\ UNCHANGED <<databases, tables, PendingMap>>
  BY DEF Sessions!Open, OpenSet, SessionMap, PendingMap
<1>12. Sessions!Open(c)
  BY <1>2, <1>8, <1>9, <1>10, <1>11 DEF fileVars
<1> QED BY <1>12 DEF Sessions!Next

\* a visit closes a connection, or only moves a statement to the worker
LEMMA VisitIsClose ==
    ASSUME SessionInv, SessionInv', NEW c \in Conns, Visit(c)
    PROVE  [Sessions!Next]_(Sessions!vars)
<1>1. /\ TypeOK /\ Scheduling /\ OneOutstanding /\ Framed
      /\ TypeOK' /\ OneOutstanding'
      /\ \A d \in Conns : OutstandingOf(d)
      /\ \A d \in Conns : OutstandingOf(d)'
  BY OutstandingNow, OutstandingNext DEF SessionInv, ServerInv
<1> DEFINE q == Queue(c)
<1>2. /\ Visited(c, q, recvBuffer'[c] \o stream'[c])
      /\ \A d \in Conns \ {c} : recvBuffer'[d] = recvBuffer[d] /\ stream'[d] = stream[d]
      /\ UNCHANGED <<fileVars, sessionDb>>
  BY <1>1, VisitEffect DEF Framed
<1>3. /\ workerPc' = workerPc /\ task' = task
      /\ c \in todo
      /\ \A d \in Conns \ {c} : connState'[d] = connState[d]
  BY <1>1, VisitFrame
<1>4. connState[c] \in {"IDLE", "READING", "WRITING"}
  BY <1>1, <1>3 DEF Scheduling, ReadReady, WriteReady
<1>5. Live(c) /\ \A d \in Conns \ {c} : Live(d)' <=> Live(d)
  BY <1>3, <1>4 DEF Live
<1>6. Queue(c)' = recvBuffer'[c] \o stream'[c] /\ \A d \in Conns \ {c} : Queue(d)' = Queue(d)
  BY <1>2 DEF Queue
<1>7. Outstanding(c) = <<>>
  BY <1>1, <1>4 DEF OutstandingOf
<1>8. q \in Seq(Words) /\ Queue(c)' \in Seq(Words)
  BY <1>1, ConcatProperties DEF TypeOK, Queue
<1>9. SessionMap' = SessionMap
  BY <1>2, <1>3 DEF SessionMap, fileVars
<1> HIDE DEF q
<1>10. ASSUME NEW d \in Conns \ {c}
       PROVE  Outstanding(d)' = Outstanding(d)
  <2>1. CASE taskQueue' = taskQueue
    BY <1>3, <2>1, OutstandingSame DEF Busy
  <2>2. CASE \E s \in Statements : taskQueue' = Append(taskQueue, <<c, s>>)
    <3>1. PICK s \in Statements : taskQueue' = Append(taskQueue, <<c, s>>)
      BY <2>2
    <3>2. taskQueue \in Seq(Conns \X Statements) /\ <<c, s>> \in Conns \X Statements
      BY <1>1 DEF TypeOK
    <3>3. /\ Len(taskQueue') = Len(taskQueue) + 1 /\ Len(taskQueue) \in Nat
          /\ DOMAIN taskQueue = 1..Len(taskQueue)
          /\ \A i \in 1..Len(taskQueue) : taskQueue'[i] = taskQueue[i]
      BY <3>1, <3>2, AppendProperties, LenProperties
    <3>4. CASE connState[d] # "PENDING_RESULT"
      BY <1>1, <1>3, <3>4 DEF OutstandingOf
    <3>5. CASE Busy(d)
      <4>1. Outstanding(d) = <<task.stmt>> /\ Outstanding(d)' = <<task'.stmt>>
        BY <1>1, <1>3, <3>5 DEF OutstandingOf, Busy
      <4> QED BY <1>3, <4>1
    <3>6. CASE WithWorker(d) /\ ~Busy(d)
      <4>1. task.conn = d /\ workerPc \in {"save", "publish"}
        BY <1>1, <3>6 DEF WithWorker, Busy, Unfinished, TypeOK
      <4>2. Outstanding(d) = <<>> /\ Outstanding(d)' = <<>>
        BY <1>1, <1>3, <4>1 DEF OutstandingOf
      <4> QED BY <4>2
    <3>7. CASE connState[d] = "PENDING_RESULT" /\ ~WithWorker(d)
      <4>1. PICK j \in 1..Len(taskQueue) : taskQueue[j][1] = d
        BY <1>1, <3>3, <3>7 DEF OneOutstanding, PendingIffTasked, InQueue
      <4>2. j \in 1..Len(taskQueue') /\ taskQueue'[j] = taskQueue[j]
        BY <3>3
      <4>3. Outstanding(d) = <<taskQueue[j][2]>> /\ Outstanding(d)' = <<taskQueue'[j][2]>>
        BY <1>1, <4>1, <4>2 DEF OutstandingOf
      <4> QED BY <4>2, <4>3
    <3> QED BY <3>4, <3>5, <3>6, <3>7 DEF Busy, WithWorker, Unfinished
  <2> QED BY <1>2, <2>1, <2>2 DEF Visited
<1>11. CASE connState'[c] = "CLOSED"
  <2>1. ~Live(c)'
    BY <1>11 DEF Live
  <2>2. OpenSet' = OpenSet \ {c} /\ c \in OpenSet
    BY <1>5, <2>1 DEF OpenSet
  <2>3. PendingMap' = [PendingMap EXCEPT ![c] = <<>>]
    <3>1. PendingMap = [d \in Conns |-> IF Live(d) THEN Outstanding(d) \o Sent(Queue(d)) ELSE <<>>]
      BY DEF PendingMap, Queue
    <3>2. PendingMap' = [d \in Conns |-> IF Live(d)' THEN Outstanding(d)' \o Sent(Queue(d)') ELSE <<>>]
      BY DEF PendingMap, Queue
    <3>3. \A d \in Conns \ {c} : (IF Live(d)' THEN Outstanding(d)' \o Sent(Queue(d)') ELSE <<>>)
                                   = (IF Live(d) THEN Outstanding(d) \o Sent(Queue(d)) ELSE <<>>)
      BY <1>5, <1>6, <1>10
    <3> HIDE DEF PendingMap
    <3> QED BY <2>1, <3>1, <3>2, <3>3
  <2>4. Sessions!Close(c) <=> /\ c \in OpenSet
                              /\ OpenSet' = OpenSet \ {c}
                              /\ PendingMap' = [PendingMap EXCEPT ![c] = <<>>]
                              /\ UNCHANGED <<databases, tables, SessionMap>>
    BY DEF Sessions!Close, OpenSet, PendingMap, SessionMap
  <2>5. Sessions!Close(c)
    BY <1>2, <1>9, <2>2, <2>3, <2>4 DEF fileVars
  <2> QED BY <2>5 DEF Sessions!Next
<1>12. CASE connState'[c] # "CLOSED"
  <2>1. Live(c)'
    BY <1>2, <1>12 DEF Visited, Live
  <2>2. Outstanding(c)' \o Sent(Queue(c)') = Outstanding(c) \o Sent(q)
    <3>1. CASE connState'[c] \in {"IDLE", "READING", "WRITING"} /\ Sent(Queue(c)') = Sent(q)
      <4>1. Outstanding(c)' = <<>>
        BY <1>1, <3>1 DEF OutstandingOf
      <4> QED BY <1>7, <3>1, <4>1
    <3>2. CASE \E s \in Statements : /\ taskQueue' = Append(taskQueue, <<c, s>>)
                                     /\ Sent(q) = <<s>> \o Sent(Queue(c)')
      <4>1. PICK s \in Statements : /\ taskQueue' = Append(taskQueue, <<c, s>>)
                                    /\ Sent(q) = <<s>> \o Sent(Queue(c)')
        BY <3>2
      <4>2. taskQueue \in Seq(Conns \X Statements) /\ <<c, s>> \in Conns \X Statements
        BY <1>1 DEF TypeOK
      <4>3. /\ Len(taskQueue') = Len(taskQueue) + 1 /\ Len(taskQueue) \in Nat
            /\ taskQueue'[Len(taskQueue) + 1] = <<c, s>>
        BY <4>1, <4>2, AppendProperties, LenProperties
      <4>4. Len(taskQueue) + 1 \in 1..Len(taskQueue')
        BY <4>3
      <4>5. Outstanding(c)' = <<s>>
        BY <1>1, <4>3, <4>4 DEF OutstandingOf
      <4>6. Sent(q) \in Seq(Statements)
        BY <1>8, SentType
      <4>7. <<>> \o Sent(q) = Sent(q)
        BY <4>6, ConcatEmptySeq
      <4> QED BY <1>7, <4>1, <4>5, <4>7
    <3> QED BY <1>2, <1>6, <1>12, <3>1, <3>2 DEF Visited
  <2>3. \A d \in Conns : Live(d)' <=> Live(d)
    BY <1>5, <2>1
  <2>4. \A d \in Conns : (Outstanding(d) \o Sent(Queue(d)))' = Outstanding(d) \o Sent(Queue(d))
    BY <1>6, <1>10, <2>2 DEF q
  <2>5. OpenSet' = OpenSet /\ PendingMap' = PendingMap
    BY <2>3, <2>4, SameConnections
  <2> QED BY <1>2, <1>9, <2>5, SessionsStep DEF fileVars
<1> QED BY <1>11, <1>12

LEMMA MainStutters ==
    ASSUME SessionInv, SessionInv', BuildSets \/ SelectAny \/ EndPass
    PROVE  [Sessions!Next]_(Sessions!vars)
<1>1. UNCHANGED <<fileVars, sessionDb, taskQueue, workerVars>>
  BY DEF BuildSets, SelectAny, Select, EndPass, connVars
<1>2. \A c \in Conns : Outstanding(c)' = Outstanding(c)
  BY <1>1, OutstandingSame DEF Busy, workerVars
<1>3. SessionMap' = SessionMap
  BY <1>1 DEF SessionMap, fileVars, workerVars
<1>4. /\ \A c \in Conns : Live(c)' <=> Live(c)
      /\ \A c \in Conns : Live(c) => recvBuffer'[c] = recvBuffer[c] /\ stream'[c] = stream[c]
  <2>1. CASE BuildSets \/ SelectAny
    BY <2>1 DEF BuildSets, SelectAny, Select, connVars, peerVars, Live
  <2>2. CASE EndPass
    BY <2>2 DEF EndPass, Live
  <2> QED BY <2>1, <2>2
<1>5. \A c \in Conns : Live(c) => (Outstanding(c) \o Sent(Queue(c)))' = Outstanding(c) \o Sent(Queue(c))
  BY <1>2, <1>4 DEF Queue
<1>6. OpenSet' = OpenSet /\ PendingMap' = PendingMap
  BY <1>4, <1>5, SameConnections
<1> QED BY <1>1, <1>3, <1>6, SessionsStep DEF fileVars

LEMMA ClientIsSubmit ==
    ASSUME SessionInv, SessionInv', NEW c \in Conns, ClientSends(c) \/ ClientCloses(c)
    PROVE  [Sessions!Next]_(Sessions!vars)
<1>1. /\ TypeOK /\ OneOutstanding /\ Framed
      /\ \A d \in Conns : OutstandingOf(d)
  BY OutstandingNow DEF SessionInv, ServerInv
<1>2. /\ UNCHANGED <<fileVars, connVars, taskQueue, workerVars>>
      /\ \A d \in Conns : Live(d)' <=> Live(d)
  BY DEF ClientSends, ClientCloses, connVars, Live
<1>3. \A d \in Conns : Outstanding(d)' = Outstanding(d)
  BY <1>2, OutstandingSame DEF Busy, workerVars
<1>4. SessionMap' = SessionMap
  BY <1>2 DEF SessionMap, fileVars, connVars, workerVars
<1>5. CASE ClientCloses(c)
  <2>1. stream' = stream
    BY <1>5 DEF ClientCloses
  <2> QED BY <1>2, <1>3, <1>4, <2>1, Unnoticed DEF fileVars, connVars
<1>6. CASE ClientSends(c)
  <2>1. PICK line \in Lines : stream' = [stream EXCEPT ![c] =
                        @ \o (IF line = Empty THEN <<NL>> ELSE <<line, NL>>)]
    BY <1>6 DEF ClientSends
  <2> DEFINE l == IF line = Empty THEN <<NL>> ELSE <<line, NL>>
             q == Queue(c)
             a == recvBuffer[c]
             b == stream[c]
             o == Outstanding(c)
  <2>2. a \in Seq(Words) /\ b \in Seq(Words) /\ q \in Seq(Words) /\ q = a \o b
    BY <1>1, ConcatProperties DEF TypeOK, Queue
  <2>3. /\ l \in Seq(Words)
        /\ Sent(q \o l) = IF line \in Statements THEN Append(Sent(q), line) ELSE Sent(q)
    BY <1>1, <2>2, LineSent DEF Framed
  <2>4. stream'[c] = b \o l /\ \A d \in Conns \ {c} : stream'[d] = stream[d]
    BY <1>1, <2>1 DEF TypeOK
  <2> HIDE DEF l
  <2>5. Queue(c)' = a \o (b \o l) /\ \A d \in Conns \ {c} : Queue(d)' = Queue(d)
    BY <1>2, <2>4 DEF Queue, connVars
  <2> HIDE DEF q, a, b
  <2>6. Queue(c)' = q \o l
    <3>1. (a \o b) \o l = a \o (b \o l)
      BY <2>2, <2>3, ConcatAssociative, SMTT(40)
    <3> QED BY <2>2, <2>5, <3>1
  <2>7. Live(c) /\ c \in OpenSet /\ OpenSet' = OpenSet
    BY <1>2, <1>6 DEF OpenSet, ClientSends
  <2>8. o \in Seq(Statements) /\ Sent(q) \in Seq(Statements)
    BY <1>1, <2>2, SentType DEF OutstandingOf
  <2>9. CASE line \notin Statements
    <3>1. \A d \in Conns : (Outstanding(d) \o Sent(Queue(d)))' = Outstanding(d) \o Sent(Queue(d))
      BY <1>3, <2>3, <2>5, <2>6, <2>9 DEF q
    <3>2. PendingMap' = PendingMap
      BY <1>2, <3>1, SameConnections
    <3> QED BY <1>2, <1>4, <2>7, <3>2, SessionsStep DEF fileVars
  <2>10. CASE line \in Statements
    <3> HIDE DEF o
    <3>1. o \o Append(Sent(q), line) = Append(o \o Sent(q), line)
      <4> DEFINE x == Sent(q)
                 y == <<line>>
      <4>1. x \in Seq(Statements) /\ y \in Seq(Statements)
        BY <2>8, <2>10
      <4>2. Append(x, line) = x \o y
        BY <2>10, <4>1, AppendIsConcat
      <4> HIDE DEF x
      <4>3. o \o x \in Seq(Statements)
        BY <2>8, <4>1, ConcatProperties
      <4>4. Append(o \o x, line) = (o \o x) \o y
        BY <2>10, <4>3, AppendIsConcat
      <4> HIDE DEF y
      <4>5. (o \o x) \o y = o \o (x \o y)
        BY <2>8, <4>1, ConcatAssociative, SMTT(40)
      <4> QED BY <4>2, <4>4, <4>5 DEF x
    <3>2. PendingMap' = [PendingMap EXCEPT ![c] = Append(@, line)]
      <4>1. PendingMap = [d \in Conns |-> IF Live(d) THEN Outstanding(d) \o Sent(Queue(d)) ELSE <<>>]
        BY DEF PendingMap, Queue
      <4>2. PendingMap' = [d \in Conns |-> IF Live(d)' THEN Outstanding(d)' \o Sent(Queue(d)') ELSE <<>>]
        BY DEF PendingMap, Queue
      <4>3. \A d \in Conns \ {c} : (IF Live(d)' THEN Outstanding(d)' \o Sent(Queue(d)') ELSE <<>>)
                                     = (IF Live(d) THEN Outstanding(d) \o Sent(Queue(d)) ELSE <<>>)
        BY <1>2, <1>3, <2>5
      <4>4. Outstanding(c)' \o Sent(Queue(c)') = Append(Outstanding(c) \o Sent(Queue(c)), line)
        BY <1>3, <2>3, <2>6, <2>10, <3>1 DEF q, o
      <4>5. PendingMap[c] = Outstanding(c) \o Sent(Queue(c))
        BY <2>7, <4>1
      <4> HIDE DEF PendingMap
      <4> QED BY <1>2, <2>7, <4>1, <4>2, <4>3, <4>4, <4>5
    <3>3. Sessions!Submit(c, line) <=> /\ c \in OpenSet
                                       /\ PendingMap' = [PendingMap EXCEPT ![c] = Append(@, line)]
                                       /\ UNCHANGED <<databases, tables, SessionMap, OpenSet>>
      BY DEF Sessions!Submit, OpenSet, PendingMap, SessionMap
    <3>4. Sessions!Submit(c, line)
      BY <1>2, <1>4, <2>7, <3>2, <3>3 DEF fileVars
    <3> QED BY <2>10, <3>4 DEF Sessions!Next
  <2> QED BY <2>9, <2>10
<1> QED BY <1>5, <1>6

LEMMA RemovalIsRemove ==
    ASSUME NEW d \in Dbs, DirectoryRemoved(d)
    PROVE  Sessions!Next
<1>1. /\ databases' = databases \ {d}
      /\ tables' = {p \in tables : p[1] # d}
      /\ UNCHANGED <<currentDb, connVars, taskQueue, workerVars, stream>>
  BY DEF DirectoryRemoved
<1>2. \A c \in Conns : Outstanding(c)' = Outstanding(c)
  BY <1>1, OutstandingSame DEF Busy, workerVars
<1>3. SessionMap' = SessionMap
  BY <1>1 DEF SessionMap, connVars, workerVars
<1>4. \A c \in Conns : Live(c)' <=> Live(c)
  BY <1>1 DEF Live, connVars
<1>5. \A c \in Conns : (Outstanding(c) \o Sent(Queue(c)))' = Outstanding(c) \o Sent(Queue(c))
  BY <1>1, <1>2 DEF Queue, connVars
<1>6. OpenSet' = OpenSet /\ PendingMap' = PendingMap
  BY <1>4, <1>5, SameConnections
<1>7. Sessions!Remove(d) <=> /\ databases' = databases \ {d}
                             /\ tables' = {p \in tables : p[1] # d}
                             /\ UNCHANGED <<SessionMap, PendingMap, OpenSet>>
  BY DEF Sessions!Remove, OpenSet, PendingMap, SessionMap
<1>8. Sessions!Remove(d)
  BY <1>1, <1>3, <1>6, <1>7
<1> QED BY <1>8 DEF Sessions!Next

LEMMA InitialSessions == Init => Sessions!Init
<1> SUFFICES ASSUME Init PROVE Sessions!Init
  OBVIOUS
<1>1. \A c \in Conns : ~Live(c)
  BY DEF Init, Live
<1>2. OpenSet = {} /\ PendingMap = [c \in Conns |-> <<>>] /\ SessionMap = [c \in Conns |-> NoDb]
  BY <1>1 DEF OpenSet, PendingMap, SessionMap, Init, InForce
<1>3. Sessions!Init <=> /\ databases \in SUBSET Dbs
                        /\ tables = {}
                        /\ SessionMap = [c \in Conns |-> NoDb]
                        /\ PendingMap = [c \in Conns |-> <<>>]
                        /\ OpenSet = {}
  BY DEF Sessions!Init, OpenSet, PendingMap, SessionMap
<1> QED BY <1>2, <1>3 DEF Init

\* The server implements SqlSessions: each session's statements are executed once
\* each, in the order they were sent, in the database the session selected last,
\* where selecting a database called "none" is selecting none (main.cpp:74).
THEOREM SessionsImplemented == Spec => SessionsKept
<1>1. SessionInv /\ SessionInv' /\ [Next]_vars => [Sessions!Next]_(Sessions!vars)
  <2> SUFFICES ASSUME SessionInv, SessionInv', [Next]_vars
               PROVE  [Sessions!Next]_(Sessions!vars)
    OBVIOUS
  <2>1. CASE Worker
    BY <2>1, PopIsStutter, SetContextIsRefuse, RunIsExecute, WorkerStutters DEF Worker
  <2>2. CASE Main
    BY <2>2, MainStutters, AcceptIsOpen, VisitIsClose DEF Main
  <2>3. ASSUME NEW c \in Conns, ClientSends(c) \/ ClientCloses(c)
        PROVE  [Sessions!Next]_(Sessions!vars)
    BY <2>3, ClientIsSubmit
  <2>4. ASSUME NEW d \in Dbs, DirectoryRemoved(d)
        PROVE  [Sessions!Next]_(Sessions!vars)
    BY <2>4, RemovalIsRemove
  <2>5. CASE UNCHANGED vars
    <3>1. UNCHANGED <<databases, tables, recvBuffer, stream, taskQueue, workerPc, task, currentDb,
                      sessionDb, connState>>
      BY <2>5 DEF vars
    <3>2. \A c \in Conns : Outstanding(c)' = Outstanding(c)
      BY <3>1, OutstandingSame DEF Busy
    <3>3. SessionMap' = SessionMap /\ \A c \in Conns : Live(c)' <=> Live(c)
      BY <3>1 DEF SessionMap, Live
    <3> QED BY <3>1, <3>2, <3>3, Unnoticed
  <2> QED BY <2>1, <2>2, <2>3, <2>4, <2>5 DEF Next
<1> QED BY <1>1, InitialSessions, SessionInvariant, PTL DEF Spec, SessionsKept, Sessions!Spec

-----------------------------------------------------------------------------
(* A server without a database called "none"                               *)

\* the sessions of DatabaseKept
SelectionMap == [c \in Conns |-> IF workerPc = "save" /\ task.conn = c
                                THEN currentDb ELSE InForce(sessionDb[c])]

LEMMA SelectionsAreSessions ==
    ASSUME None \notin Dbs, TypeOK
    PROVE  SelectionMap = SessionMap
<1>1. currentDb \in Dbs \union {NoDb}
  BY DEF TypeOK
<1>2. InForce(currentDb) = currentDb
  BY <1>1 DEF InForce
<1> QED BY <1>2 DEF SelectionMap, SessionMap

LEMMA SelectionsAreSessionsNext ==
    ASSUME None \notin Dbs, TypeOK'
    PROVE  SelectionMap' = SessionMap'
<1>1. currentDb' \in Dbs \union {NoDb}
  BY DEF TypeOK
<1>2. InForce(currentDb') = currentDb'
  BY <1>1 DEF InForce
<1> QED BY <1>2 DEF SelectionMap, SessionMap, InForce

LEMMA SessionsAreSelections ==
    ASSUME None \notin Dbs, databases \subseteq Dbs,
           SelectionMap = SessionMap, SelectionMap' = SessionMap',
           [Sessions!Next]_(Sessions!vars)
    PROVE  [Selections!Next]_(Selections!vars)
<1> DEFINE S == SessionMap
<1>1. CASE UNCHANGED Sessions!vars
  <2>1. UNCHANGED <<databases, tables, SessionMap, PendingMap, OpenSet>>
    BY <1>1 DEF Sessions!vars
  <2>2. UNCHANGED <<databases, tables, SelectionMap, PendingMap, OpenSet>>
    BY <2>1
  <2> QED BY <2>2 DEF Selections!vars, SelectionMap
<1>2. ASSUME NEW c \in Conns, Sessions!Open(c)
      PROVE  Selections!Open(c)
  BY <1>2 DEF Sessions!Open, Selections!Open, SelectionMap
<1>3. ASSUME NEW c \in Conns, Sessions!Close(c)
      PROVE  Selections!Close(c)
  BY <1>3 DEF Sessions!Close, Selections!Close, SelectionMap
<1>4. ASSUME NEW c \in Conns, Sessions!Refuse(c)
      PROVE  Selections!Refuse(c)
  BY <1>4 DEF Sessions!Refuse, Selections!Refuse, SelectionMap
<1>5. ASSUME NEW c \in Conns, NEW s \in Statements, Sessions!Submit(c, s)
      PROVE  Selections!Submit(c, s)
  BY <1>5 DEF Sessions!Submit, Selections!Submit, SelectionMap
<1>6. ASSUME NEW d \in Dbs, Sessions!Remove(d)
      PROVE  Selections!Remove(d)
  BY <1>6 DEF Sessions!Remove, Selections!Remove, SelectionMap
<1>7. ASSUME NEW c \in Conns, Sessions!Execute(c)
      PROVE  Selections!Execute(c)
  <2> DEFINE s == Head(PendingMap[c]) a == Head(PendingMap[c]).arg
  <2>1. \A d \in databases : Sessions!Selected(d) = d /\ Selections!Selected(d) = d
    BY DEF Sessions!Selected, Selections!Selected
  <2>2. Sessions!Use(c, a) => Selections!Use(c, a)
    <3> HIDE DEF a
    <3> QED BY <2>1 DEF Sessions!Use, Selections!Use, SelectionMap
  <2>3. Sessions!CreateDatabase(a) => Selections!CreateDatabase(a)
    <3> HIDE DEF a
    <3> QED BY DEF Sessions!CreateDatabase, Selections!CreateDatabase, SelectionMap
  <2>4. Sessions!CreateTable(c, a) => Selections!CreateTable(c, a)
    <3> HIDE DEF a
    <3> QED BY DEF Sessions!CreateTable, Selections!CreateTable, SelectionMap
  <2>5. Sessions!NoEffect => Selections!NoEffect
    BY DEF Sessions!NoEffect, Selections!NoEffect, SelectionMap
  <2>6. /\ c \in OpenSet /\ PendingMap[c] # <<>>
        /\ PendingMap' = [PendingMap EXCEPT ![c] = Tail(@)] /\ OpenSet' = OpenSet
        /\ \/ s.op = "use" /\ Sessions!Use(c, a)
           \/ s.op = "create database" /\ Sessions!CreateDatabase(a)
           \/ s.op = "create table" /\ Sessions!CreateTable(c, a)
           \/ s.op = "other" /\ Sessions!NoEffect
    BY <1>7 DEF Sessions!Execute
  <2>7. \/ s.op = "use" /\ Selections!Use(c, a)
        \/ s.op = "create database" /\ Selections!CreateDatabase(a)
        \/ s.op = "create table" /\ Selections!CreateTable(c, a)
        \/ s.op = "other" /\ Selections!NoEffect
    <3> HIDE DEF s, a
    <3>1. CASE s.op = "use" /\ Sessions!Use(c, a)
      BY <2>2, <3>1
    <3>2. CASE s.op = "create database" /\ Sessions!CreateDatabase(a)
      BY <2>3, <3>2
    <3>3. CASE s.op = "create table" /\ Sessions!CreateTable(c, a)
      BY <2>4, <3>3
    <3>4. CASE s.op = "other" /\ Sessions!NoEffect
      BY <2>5, <3>4
    <3> QED BY <2>6, <3>1, <3>2, <3>3, <3>4
  <2> QED BY <2>6, <2>7 DEF Selections!Execute
<1> QED BY <1>1, <1>2, <1>3, <1>4, <1>5, <1>6, <1>7 DEF Sessions!Next, Selections!Next

\* Where no database is called "none", the database a USE has selected is the
\* session's for every statement that follows (connection.h: "Per-session USE db").
THEOREM DatabaseInForce == ASSUME None \notin Dbs PROVE Spec => DatabaseKept
<1>1. TypeOK => SelectionMap = SessionMap /\ databases \subseteq Dbs
  BY SelectionsAreSessions DEF TypeOK
<1>2. TypeOK /\ Sessions!Init => Selections!Init
  <2> SUFFICES ASSUME TypeOK, Sessions!Init PROVE Selections!Init
    OBVIOUS
  <2> QED BY <1>1 DEF Sessions!Init, Selections!Init, SelectionMap
<1>3. TypeOK /\ TypeOK' /\ [Sessions!Next]_(Sessions!vars) => [Selections!Next]_(Selections!vars)
  BY <1>1, SelectionsAreSessionsNext, SessionsAreSelections
<1> QED BY <1>2, <1>3, SessionsImplemented, ServerTypeCorrect, PTL
    DEF SessionsKept, Sessions!Spec, DatabaseKept, Selections!Spec
=============================================================================
